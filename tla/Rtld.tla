-------------------------------- MODULE Rtld ---------------------------------
(***************************************************************************)
(* The object table of the client's run-time linker (client/rtld.c): open  *)
(* addressing with linear probing, one slot per translated guest address.  *)
(* rtld_set fills a slot before it publishes the address in it, "so that   *)
(* concurrent readers only ever see valid data"; it may run once at a time *)
(* only.  The model takes the code at its word: one writer, any number of  *)
(* readers, one step per access to a slot.                                 *)
(***************************************************************************)
EXTENDS Naturals, FiniteSets

CONSTANTS
  N,          \* number of slots, 1 << RTLD_HASH_BITS
  Addrs,      \* guest addresses callers ask for, 0 among them
  Entries,    \* host code addresses
  Readers,    \* concurrent calls of rtld_resolve
  Writer      \* the one call of rtld_set at a time

ASSUME RtldAssumption ==
  /\ N \in Nat \ {0}
  /\ Addrs \subseteq Nat
  /\ Writer \notin Readers
  /\ 0 \notin Entries

(* A code address is no error code and no marker of the model. *)
ASSUME EntryAssumption == "idle" \notin Entries /\ "pending" \notin Entries

Clients == Readers \union {Writer}
Slots == 0 .. N - 1

VARIABLES
  addr,     \* per slot: obj->addr, 0 when the slot is empty
  entry,    \* per slot: obj->entry
  pc,       \* per client: the next access
  arg,      \* per client: the address asked for
  new,      \* the entry that rtld_set stores
  i,        \* per client: the probe count
  ret       \* per client: the value returned last

vars == <<addr, entry, pc, arg, new, i, ret>>

----------------------------------------------------------------------------

(* RTLD_HASH *)
Hash(a) == (a \div 4) % N

(* The slot that the i-th round of the search looks at. *)
Probe(a, k) == (Hash(a) + k) % N

Slot(c) == Probe(arg[c], i[c])

Goto(c, l) == pc' = [pc EXCEPT ![c] = l]

Return(c, r) ==
  /\ Goto(c, "idle")
  /\ ret' = [ret EXCEPT ![c] = r]
  /\ i' = [i EXCEPT ![c] = 0]

(* The table lies in fresh zero pages of the data arena. *)
Init ==
  /\ addr = [s \in Slots |-> 0]
  /\ entry = [s \in Slots |-> 0]
  /\ pc = [c \in Clients |-> "idle"]
  /\ arg = [c \in Clients |-> 0]
  /\ new = 0
  /\ i = [c \in Clients |-> 0]
  /\ ret = [c \in Clients |-> "idle"]

Start(c, a) ==
  /\ pc[c] = "idle"
  /\ arg' = [arg EXCEPT ![c] = a]
  /\ ret' = [ret EXCEPT ![c] = "pending"]
  /\ Goto(c, IF a = 0 THEN "zero" ELSE "probe")
  /\ UNCHANGED <<addr, entry, i>>

(* Mutant: the probe count is masked like the slot. *)
AdvanceWraps(c, exhausted) ==
  /\ i' = [i EXCEPT ![c] = (@ + 1) % N]
  /\ UNCHANGED <<pc, ret>>

(* Mutant: i < RTLD_HASH_MASK. *)
AdvanceShort(c, exhausted) ==
  IF i[c] + 2 >= N
  THEN Return(c, exhausted)
  ELSE i' = [i EXCEPT ![c] = @ + 1] /\ UNCHANGED <<pc, ret>>

(* The next round of the loop, or the end of it. *)
Advance(c, exhausted) ==
  IF i[c] + 1 = N
  THEN Return(c, exhausted)
  ELSE i' = [i EXCEPT ![c] = @ + 1] /\ UNCHANGED <<pc, ret>>

----------------------------------------------------------------------------
(* rtld_resolve *)

ResolveCall(c) ==
  /\ c \in Readers
  /\ \E a \in Addrs : Start(c, a)
  /\ UNCHANGED new

(* 0 is reserved for "empty". *)
ResolveZero(c) ==
  /\ c \in Readers /\ pc[c] = "zero"
  /\ Return(c, "ENOENT")
  /\ UNCHANGED <<addr, entry, arg, new>>

ResolveProbe(c) ==
  /\ c \in Readers /\ pc[c] = "probe"
  /\ \/ addr[Slot(c)] = 0 /\ Return(c, "ENOENT")
     \/ addr[Slot(c)] = arg[c] /\ Goto(c, "entry") /\ UNCHANGED <<i, ret>>
     \/ addr[Slot(c)] \notin {0, arg[c]} /\ Advance(c, "ENOENT")
  /\ UNCHANGED <<addr, entry, arg, new>>

ResolveEntry(c) ==
  /\ c \in Readers /\ pc[c] = "entry"
  /\ Return(c, entry[Slot(c)])
  /\ UNCHANGED <<addr, entry, arg, new>>

----------------------------------------------------------------------------
(* rtld_set *)

SetCall ==
  \E a \in Addrs, e \in Entries : Start(Writer, a) /\ new' = e

SetZero ==
  /\ pc[Writer] = "zero"
  /\ Return(Writer, "EINVAL")
  /\ UNCHANGED <<addr, entry, arg, new>>

SetProbe ==
  /\ pc[Writer] = "probe"
  /\ LET found == addr[Slot(Writer)]
     IN  \/ found = arg[Writer] /\ Return(Writer, "EEXIST")
         \/ found = 0 /\ Goto(Writer, "fill") /\ UNCHANGED <<i, ret>>
         \/ found \notin {0, arg[Writer]} /\ Advance(Writer, "ENOSPC")
  /\ UNCHANGED <<addr, entry, arg, new>>

SetFill ==
  /\ pc[Writer] = "fill"
  /\ entry' = [entry EXCEPT ![Slot(Writer)] = new]
  /\ Goto(Writer, "publish")
  /\ UNCHANGED <<addr, arg, new, i, ret>>

SetPublish ==
  /\ pc[Writer] = "publish"
  /\ addr' = [addr EXCEPT ![Slot(Writer)] = arg[Writer]]
  /\ Return(Writer, "ok")
  /\ UNCHANGED <<entry, arg, new>>

----------------------------------------------------------------------------

ReaderStep(c) == ResolveZero(c) \/ ResolveProbe(c) \/ ResolveEntry(c)
WriterStep == SetZero \/ SetProbe \/ SetFill \/ SetPublish

Next ==
  \/ \E c \in Readers : ResolveCall(c) \/ ReaderStep(c)
  \/ SetCall \/ WriterStep

Spec == Init /\ [][Next]_vars

(* Both are straight-line loops without a wait. *)
FairSpec ==
  /\ Spec
  /\ \A c \in Readers : WF_vars(ReaderStep(c))
  /\ WF_vars(WriterStep)

----------------------------------------------------------------------------

(* The variables of the table and of the searches have their types. *)
TypeOK ==
  /\ addr \in [Slots -> Addrs \union {0}]
  /\ entry \in [Slots -> Entries \union {0}]
  /\ pc \in [Clients -> {"idle", "zero", "probe", "entry", "fill", "publish"}]
  /\ arg \in [Clients -> Addrs \union {0}]
  /\ new \in Entries \union {0}
  /\ i \in [Clients -> Slots]
  /\ DOMAIN ret = Clients

(* Every address in the table is found by the search that starts at its    *)
(* hash: no empty slot and no second copy lies before it.                  *)
Reachable ==
  \A s \in Slots : addr[s] # 0 =>
    \E k \in Slots :
      /\ Probe(addr[s], k) = s
      /\ \A j \in 0 .. k - 1 : addr[Probe(addr[s], j)] \notin {0, addr[s]}

(* A reader that has seen its address reads an entry that was stored       *)
(* before: concurrent readers only ever see valid data.                    *)
ReadersSeeValidData ==
  \A c \in Readers : pc[c] = "entry" =>
    addr[Slot(c)] = arg[c] /\ entry[Slot(c)] \in Entries

Stored == {addr[s] : s \in Slots} \ {0}
SlotOf(a) == CHOOSE s \in Slots : addr[s] = a

(* The abstract call that a client is making. *)
CallOf(c) ==
  IF ret[c] = "idle" THEN [op |-> "none", addr |-> 0]
  ELSE IF c = Writer THEN [op |-> "set", addr |-> arg[c], entry |-> new]
  ELSE [op |-> "resolve", addr |-> arg[c]]

(* rtld_resolve takes effect when it loads a matching address. *)
AnswerOf(c) == IF pc[c] = "entry" THEN entry[Slot(c)] ELSE ret[c]

Table == [a \in Stored |-> entry[SlotOf(a)]]
Asked == [c \in Clients |-> CallOf(c)]
Answers == [c \in Clients |-> AnswerOf(c)]

Map == INSTANCE AddrMap
  WITH map <- Table, call <- Asked, answer <- Answers, Capacity <- N

(* The table behaves as a partial map: a search that runs while an entry   *)
(* is being added answers as the map did at one moment of the call, and    *)
(* rtld_set reports -ENOSPC only when every slot is taken.                 *)
ImplementsMap == Map!Spec

(* Every call of rtld_set and rtld_resolve returns. *)
CallsReturn == \A c \in Clients : pc[c] # "idle" ~> pc[c] = "idle"
==============================================================================
