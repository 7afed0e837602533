----------------------------- MODULE RtldProofs ------------------------------
(* Proofs about the object table, for every table size, set of addresses   *)
(* and number of readers.                                                  *)
EXTENDS Rtld, FiniteSetTheorems, TLAPS

Active == {"probe", "entry", "fill", "publish"}

(* What a search knows: the slots it has passed hold other addresses. *)
Passed(c) ==
  IF pc[c] \notin Active THEN i[c] = 0 ELSE
    /\ arg[c] # 0
    /\ \A j \in 0 .. i[c] - 1 : addr[Probe(arg[c], j)] \notin {0, arg[c]}

(* What rtld_set knows about the slot it is filling. *)
Filling ==
  /\ pc[Writer] \in {"probe", "fill", "publish"} => new \in Entries
  /\ pc[Writer] \in {"fill", "publish"} => addr[Slot(Writer)] = 0
  /\ pc[Writer] = "publish" => entry[Slot(Writer)] = new

Filled == \A s \in Slots : addr[s] # 0 => entry[s] \in Entries

Roles ==
  /\ pc[Writer] # "entry"
  /\ \A c \in Readers : pc[c] \notin {"fill", "publish"}

Inv ==
  /\ TypeOK
  /\ Roles
  /\ \A c \in Clients : Passed(c)
  /\ Filling
  /\ Filled
  /\ Reachable
  /\ \A c \in Readers : pc[c] = "entry" => addr[Slot(c)] = arg[c]

(* The search only looks at slots of the table. *)
LEMMA ProbeInTable ==
  ASSUME NEW a \in Nat, NEW k \in Nat
  PROVE  Probe(a, k) \in Slots
<1>1. N \in Nat \ {0}
  BY RtldAssumption, Zenon
<1>2. Hash(a) \in Nat
  BY <1>1 DEF Hash
<1> QED BY <1>1, <1>2 DEF Probe, Slots

(* The types of a call's local variables. *)
LEMMA CallTypes ==
  ASSUME TypeOK, NEW c \in Clients
  PROVE  /\ arg[c] \in Nat /\ i[c] \in Nat /\ i[c] \in 0 .. N - 1
         /\ Slot(c) \in Slots /\ N \in Nat \ {0}
<1>1. arg[c] \in Addrs \union {0} /\ i[c] \in 0 .. N - 1
  BY Zenon DEF TypeOK, Slots
<1>2. N \in Nat \ {0} /\ Addrs \subseteq Nat
  BY RtldAssumption, Zenon
<1>3. arg[c] \in Nat
  <2>1. 0 \in Nat
    OBVIOUS
  <2>2. CASE arg[c] \in Addrs
    BY <1>2, <2>2, Zenon
  <2>3. CASE arg[c] = 0
    BY <2>1, <2>3, Zenon
  <2> QED BY <1>1, <2>2, <2>3, Zenon
<1>4. i[c] \in Nat
  BY <1>1, <1>2
<1> QED BY <1>1, <1>2, <1>3, <1>4, ProbeInTable, Zenon DEF Slot

(* A step leaves a published slot alone. *)
LEMMA SlotsStay ==
  ASSUME Inv, [Next]_vars, NEW s \in Slots, addr[s] # 0
  PROVE  addr'[s] = addr[s] /\ entry'[s] = entry[s]
<1>1. CASE SetFill
  BY <1>1, Zenon DEF SetFill, Inv, Filling, TypeOK
<1>2. CASE SetPublish
  BY <1>2, Zenon DEF SetPublish, Inv, Filling, TypeOK
<1> QED
  BY <1>1, <1>2, Zenon DEF Next, ReaderStep, WriterStep, ResolveCall, ResolveZero, ResolveProbe,
       ResolveEntry, SetCall, SetZero, SetProbe, Start, vars

(* The zeroed table of rtld_init satisfies the invariant. *)
LEMMA InitInv == Init => Inv
<1> SUFFICES ASSUME Init PROVE Inv
  BY Zenon
<1>1. 0 \in Slots
  BY RtldAssumption DEF Slots
<1>2. TypeOK
  BY <1>1, Zenon DEF Init, TypeOK
<1> QED BY <1>2, Zenon DEF Init, Inv, Roles, Passed, Filling, Filled, Reachable, Active, Clients

(* The step of one client leaves the others where they are. *)
LEMMA OthersStay ==
  ASSUME Inv, [Next]_vars, NEW c \in Clients,
         ~(c \in Readers /\ (ResolveCall(c) \/ ReaderStep(c))),
         ~(c = Writer /\ (SetCall \/ WriterStep))
  PROVE  pc'[c] = pc[c] /\ arg'[c] = arg[c] /\ i'[c] = i[c] /\ ret'[c] = ret[c]
<1>1. CASE UNCHANGED vars
  BY <1>1, Zenon DEF vars
<1>2. ASSUME NEW d \in Readers, ResolveCall(d) \/ ReaderStep(d), d # c
      PROVE  pc'[c] = pc[c] /\ arg'[c] = arg[c] /\ i'[c] = i[c] /\ ret'[c] = ret[c]
  BY <1>2, Zenon DEF ResolveCall, ReaderStep, ResolveZero, ResolveProbe, ResolveEntry,
       Start, Advance, Return, Goto, Inv, TypeOK, Clients
<1>3. CASE (SetCall \/ WriterStep) /\ c # Writer
  BY <1>3, Zenon DEF SetCall, WriterStep, SetZero, SetProbe, SetFill, SetPublish,
       Start, Advance, Return, Goto, Inv, TypeOK, Clients
<1> QED BY <1>1, <1>2, <1>3, Zenon DEF Next, Clients

(* No access of rtld_set or rtld_resolve leaves the table. *)
LEMMA StepTypes == Inv /\ [Next]_vars => TypeOK'
<1> SUFFICES ASSUME Inv, [Next]_vars PROVE TypeOK'
  BY Zenon
<1>1. TypeOK /\ 0 \in Slots /\ Writer \in Clients /\ \A c \in Readers : c \in Clients
  BY RtldAssumption DEF Inv, Slots, Clients
<1>2. ASSUME NEW c \in Clients, NEW a \in Addrs, Start(c, a), new' \in Entries \union {0}
      PROVE  TypeOK'
  BY <1>1, <1>2, Zenon DEF Start, Goto, TypeOK
<1>3. ASSUME NEW c \in Clients, NEW r, Return(c, r),
             UNCHANGED <<entry, arg, new>>, addr' \in [Slots -> Addrs \union {0}]
      PROVE  TypeOK'
  BY <1>1, <1>3, Zenon DEF Return, Goto, TypeOK
<1>4. ASSUME NEW c \in Clients, NEW r, pc[c] = "probe", Advance(c, r), UNCHANGED <<addr, entry, arg, new>>
      PROVE  TypeOK'
  <2>1. CASE i[c] + 1 = N
    BY <1>3, <1>4, <2>1, <1>1, Zenon DEF Advance, TypeOK
  <2>2. CASE i[c] + 1 # N
    <3>1. i[c] + 1 \in Slots
      BY <1>1, <2>2, CallTypes DEF Slots
    <3> QED BY <1>1, <1>4, <2>2, <3>1, Zenon DEF Advance, TypeOK
  <2> QED BY <2>1, <2>2, Zenon
<1>5. ASSUME NEW c \in Clients, NEW l \in {"entry", "fill", "publish"}, Goto(c, l),
             entry' \in [Slots -> Entries \union {0}], UNCHANGED <<addr, arg, new, i, ret>>
      PROVE  TypeOK'
  BY <1>1, <1>5, Zenon DEF Goto, TypeOK
<1>6. CASE SetFill
  BY <1>1, <1>5, <1>6, Zenon DEF SetFill, TypeOK
<1>7. CASE SetPublish
  BY <1>1, <1>3, <1>7, Zenon DEF SetPublish, TypeOK
<1>8. CASE SetProbe
  BY <1>1, <1>3, <1>4, <1>5, <1>8, Zenon DEF SetProbe, TypeOK
<1>9. ASSUME NEW c \in Readers, ResolveProbe(c) PROVE TypeOK'
  BY <1>1, <1>3, <1>4, <1>5, <1>9, Zenon DEF ResolveProbe, TypeOK
<1>10. CASE SetCall \/ SetZero
  BY <1>1, <1>2, <1>3, <1>10, Zenon DEF SetCall, SetZero, TypeOK
<1>11. ASSUME NEW c \in Readers, ResolveCall(c) \/ ResolveZero(c) \/ ResolveEntry(c) PROVE TypeOK'
  BY <1>1, <1>2, <1>3, <1>11, Zenon DEF ResolveCall, ResolveZero, ResolveEntry, TypeOK
<1>12. CASE UNCHANGED vars
  BY <1>1, <1>12, Zenon DEF vars, TypeOK
<1> QED
  BY <1>6, <1>7, <1>8, <1>9, <1>10, <1>11, <1>12, Zenon DEF Next, ReaderStep, WriterStep

(* Whoever searches knows the slots it has passed, also after a step of     *)
(* somebody else.                                                           *)
LEMMA StepPassed ==
  ASSUME Inv, [Next]_vars, NEW c \in Clients
  PROVE  Passed(c)'
<1> USE DEF Active
<1>0. TypeOK /\ Passed(c)
  BY Zenon DEF Inv
<1>1. ASSUME pc[c] \in Active
      PROVE  \A j \in 0 .. i[c] - 1 : addr'[Probe(arg[c], j)] \notin {0, arg[c]}
  <2> SUFFICES ASSUME NEW j \in 0 .. i[c] - 1
               PROVE  addr'[Probe(arg[c], j)] \notin {0, arg[c]}
    BY Zenon
  <2>1. Probe(arg[c], j) \in Slots
    BY <1>0, CallTypes, ProbeInTable
  <2>2. addr[Probe(arg[c], j)] \notin {0, arg[c]}
    BY <1>0, <1>1, Zenon DEF Passed
  <2> QED BY <2>1, <2>2, SlotsStay, Zenon
<1>2. CASE /\ ~(c \in Readers /\ (ResolveCall(c) \/ ReaderStep(c)))
           /\ ~(c = Writer /\ (SetCall \/ WriterStep))
  BY <1>0, <1>1, <1>2, OthersStay, Zenon DEF Passed
<1>3. ASSUME NEW a \in Addrs, Start(c, a) PROVE Passed(c)'
  <2>1. i'[c] = 0 /\ arg'[c] = a /\ pc'[c] = IF a = 0 THEN "zero" ELSE "probe"
    BY <1>0, <1>3, Zenon DEF Start, Goto, Passed, TypeOK
  <2> QED BY <2>1 DEF Passed
<1>4. ASSUME NEW r, Return(c, r) PROVE Passed(c)'
  BY <1>0, <1>4, Zenon DEF Return, Goto, Passed, TypeOK
<1>5. ASSUME NEW r, pc[c] = "probe", Advance(c, r), addr' = addr, arg' = arg,
             addr[Slot(c)] \notin {0, arg[c]}
      PROVE  Passed(c)'
  <2>1. CASE i[c] + 1 = N
    BY <1>4, <1>5, <2>1, Zenon DEF Advance
  <2>2. CASE i[c] + 1 # N
    <3>1. i'[c] = i[c] + 1 /\ pc'[c] = "probe" /\ arg'[c] = arg[c]
      BY <1>0, <1>5, <2>2, Zenon DEF Advance, TypeOK
    <3>2. i[c] \in Nat
      BY <1>0, CallTypes, Zenon
    <3>3. \A j \in 0 .. i'[c] - 1 : j \in 0 .. i[c] - 1 \/ j = i[c]
      BY <3>1, <3>2
    <3>4. \A j \in 0 .. i'[c] - 1 : addr[Probe(arg[c], j)] \notin {0, arg[c]}
      BY <1>0, <1>5, <3>3, Zenon DEF Passed, Slot
    <3> QED BY <1>0, <1>5, <3>1, <3>4, Zenon DEF Passed
  <2> QED BY <2>1, <2>2, Zenon
<1>6. ASSUME NEW l \in Active, pc[c] \in Active, Goto(c, l), arg' = arg, i' = i
      PROVE  Passed(c)'
  <2>1. pc'[c] \in Active /\ arg'[c] = arg[c] /\ i'[c] = i[c]
    BY <1>0, <1>6, Zenon DEF Goto, TypeOK
  <2> QED BY <1>0, <1>1, <1>6, <2>1, Zenon DEF Passed
<1>7. CASE c \in Readers /\ (ResolveCall(c) \/ ReaderStep(c))
  BY <1>3, <1>4, <1>5, <1>6, <1>7, Zenon
     DEF ResolveCall, ReaderStep, ResolveZero, ResolveProbe, ResolveEntry
<1>8. CASE c = Writer /\ (SetCall \/ WriterStep)
  BY <1>3, <1>4, <1>5, <1>6, <1>8, Zenon
     DEF SetCall, WriterStep, SetZero, SetProbe, SetFill, SetPublish
<1> QED BY <1>2, <1>7, <1>8, Zenon

(* A filled slot holds code before its address is published. *)
LEMMA StepFilled == Inv /\ [Next]_vars => Filled' /\ Filling' /\ Roles'
<1> SUFFICES ASSUME Inv, [Next]_vars PROVE Filled' /\ Filling' /\ Roles'
  BY Zenon
<1>0. /\ TypeOK /\ Writer \in Clients /\ Writer \notin Readers
      /\ \A c \in Readers : c \in Clients
      /\ Slot(Writer) \in Slots
  BY CallTypes, RtldAssumption, Zenon DEF Inv, Clients
<1>1. Filled'
  <2> SUFFICES ASSUME NEW s \in Slots, addr'[s] # 0 PROVE entry'[s] \in Entries
    BY Zenon DEF Filled
  <2>1. CASE addr[s] # 0
    BY <2>1, SlotsStay, Zenon DEF Inv, Filled
  <2>2. CASE addr[s] = 0
    <3>1. SetPublish /\ s = Slot(Writer)
      BY <1>0, <2>2, Zenon DEF Next, ReaderStep, WriterStep, ResolveCall, ResolveZero, ResolveProbe,
           ResolveEntry, SetCall, SetZero, SetProbe, SetFill, SetPublish, Start, vars, TypeOK
    <3> QED BY <3>1, Zenon DEF SetPublish, Inv, Filling
  <2> QED BY <2>1, <2>2, Zenon
<1>2. Filling'
  <2>1. ASSUME NEW c \in Readers, ResolveCall(c) \/ ReaderStep(c) PROVE Filling'
    <3>1. /\ pc'[Writer] = pc[Writer] /\ arg'[Writer] = arg[Writer] /\ i'[Writer] = i[Writer]
          /\ UNCHANGED <<addr, entry, new>>
      BY <1>0, <2>1, Zenon DEF ResolveCall, ReaderStep, ResolveZero, ResolveProbe, ResolveEntry,
           Start, Advance, Return, Goto, TypeOK
    <3> QED BY <3>1, Zenon DEF Inv, Filling, Slot
  <2>2. CASE SetCall
    BY <1>0, <2>2, Zenon DEF SetCall, Start, Goto, Filling, TypeOK
  <2>3. CASE SetZero \/ SetPublish
    BY <1>0, <2>3, Zenon DEF SetZero, SetPublish, Return, Goto, Filling, TypeOK
  <2>4. CASE SetProbe
    BY <1>0, <2>4, Zenon DEF Inv, SetProbe, Advance, Return, Goto, Filling, TypeOK, Slot
  <2>5. CASE SetFill
    BY <1>0, <2>5, Zenon DEF Inv, SetFill, Goto, Filling, TypeOK, Slot
  <2>6. CASE UNCHANGED vars
    BY <2>6, Zenon DEF Inv, vars, Filling, Slot
  <2> QED BY <2>1, <2>2, <2>3, <2>4, <2>5, <2>6, Zenon DEF Next, WriterStep
<1>3. Roles'
  <2>1. CASE UNCHANGED vars
    BY <2>1, Zenon DEF Inv, vars, Roles
  <2>2. ASSUME NEW c \in Readers, ResolveCall(c) \/ ReaderStep(c) PROVE Roles'
    BY <1>0, <2>2, Zenon DEF Inv, Roles, ResolveCall, ReaderStep, ResolveZero, ResolveProbe,
         ResolveEntry, Start, Advance, Return, Goto, TypeOK
  <2>3. CASE SetCall \/ WriterStep
    BY <1>0, <2>3, Zenon DEF Inv, Roles, SetCall, WriterStep, SetZero, SetProbe, SetFill,
         SetPublish, Start, Advance, Return, Goto, TypeOK
  <2> QED BY <2>1, <2>2, <2>3, Zenon DEF Next
<1> QED BY <1>1, <1>2, <1>3, Zenon

(* An address is in the table at most once. *)
LEMMA Unique ==
  ASSUME Inv, NEW s \in Slots, NEW u \in Slots, addr[s] = addr[u], addr[s] # 0
  PROVE  s = u
<1>1. PICK k \in Slots : /\ Probe(addr[s], k) = s
                         /\ \A j \in 0 .. k - 1 : addr[Probe(addr[s], j)] \notin {0, addr[s]}
  BY Zenon DEF Inv, Reachable
<1>2. PICK l \in Slots : /\ Probe(addr[s], l) = u
                         /\ \A j \in 0 .. l - 1 : addr[Probe(addr[s], j)] \notin {0, addr[s]}
  BY Zenon DEF Inv, Reachable
<1>3. k \in Nat /\ l \in Nat
  BY DEF Slots
<1>4. ~(k < l) /\ ~(l < k)
  BY <1>1, <1>2, <1>3
<1>5. k = l
  BY <1>3, <1>4
<1> QED BY <1>1, <1>2, <1>5, Zenon

(* The probe sequence of every address stays without a hole. *)
LEMMA StepReachable == Inv /\ [Next]_vars => Reachable'
<1> SUFFICES ASSUME Inv, [Next]_vars, NEW s \in Slots, addr'[s] # 0
             PROVE  \E k \in Slots :
                      /\ Probe(addr'[s], k) = s
                      /\ \A j \in 0 .. k - 1 : addr'[Probe(addr'[s], j)] \notin {0, addr'[s]}
  BY Zenon DEF Reachable
<1>0. /\ TypeOK /\ Writer \in Clients /\ \A u \in Slots : addr[u] \in Nat
  <2>1. \A u \in Slots : addr[u] \in Addrs \union {0}
    BY Zenon DEF Inv, TypeOK
  <2>2. \A a \in Addrs \union {0} : a \in Nat
    BY RtldAssumption
  <2> QED BY <2>1, <2>2, Zenon DEF Inv, Clients
<1>1. CASE addr[s] # 0
  <2>1. addr'[s] = addr[s]
    BY <1>1, SlotsStay, Zenon
  <2>2. PICK k \in Slots :
          /\ Probe(addr[s], k) = s
          /\ \A j \in 0 .. k - 1 : addr[Probe(addr[s], j)] \notin {0, addr[s]}
    BY <1>1, Zenon DEF Inv, Reachable
  <2>3. \A j \in 0 .. k - 1 : addr'[Probe(addr[s], j)] \notin {0, addr[s]}
    <3> SUFFICES ASSUME NEW j \in 0 .. k - 1
                 PROVE  addr'[Probe(addr[s], j)] \notin {0, addr[s]}
      BY Zenon
    <3>1. Probe(addr[s], j) \in Slots
      BY <1>0, ProbeInTable
    <3> QED BY <2>2, <3>1, SlotsStay, Zenon
  <2> QED BY <2>1, <2>2, <2>3, Zenon
<1>2. CASE addr[s] = 0
  <2>1. SetPublish /\ s = Slot(Writer) /\ addr'[s] = arg[Writer]
    BY <1>0, <1>2, Zenon DEF Next, ReaderStep, WriterStep, ResolveCall, ResolveZero, ResolveProbe,
         ResolveEntry, SetCall, SetZero, SetProbe, SetFill, SetPublish, Start, vars, TypeOK
  <2>2. /\ Passed(Writer) /\ pc[Writer] = "publish"
    BY <1>0, <2>1, Zenon DEF Inv, SetPublish
  <2>3. /\ i[Writer] \in Slots /\ Probe(arg[Writer], i[Writer]) = s
    BY <1>0, <2>1, Zenon DEF Slot, TypeOK
  <2>4. \A j \in 0 .. i[Writer] - 1 : addr'[Probe(arg[Writer], j)] \notin {0, arg[Writer]}
    <3> SUFFICES ASSUME NEW j \in 0 .. i[Writer] - 1
                 PROVE  addr'[Probe(arg[Writer], j)] \notin {0, arg[Writer]}
      BY Zenon
    <3>1. Probe(arg[Writer], j) \in Slots
      BY <1>0, CallTypes, ProbeInTable
    <3>2. addr[Probe(arg[Writer], j)] \notin {0, arg[Writer]}
      BY <2>2, Zenon DEF Passed, Active
    <3> QED BY <3>1, <3>2, SlotsStay, Zenon
  <2> QED BY <2>1, <2>3, <2>4, Zenon
<1> QED BY <1>1, <1>2, Zenon

(* A reader that has seen its address keeps seeing it. *)
LEMMA StepMatch ==
  ASSUME Inv, [Next]_vars, NEW c \in Readers, pc'[c] = "entry"
  PROVE  (addr[Slot(c)] = arg[c])'
<1>0. TypeOK /\ c \in Clients /\ c # Writer /\ Slot(c) \in Slots /\ arg[c] \in Nat
  BY CallTypes, RtldAssumption, Zenon DEF Inv, Clients
<1>1. CASE ResolveProbe(c)
  BY <1>0, <1>1, Zenon DEF ResolveProbe, Advance, Return, Goto, Slot, TypeOK
<1>2. CASE pc[c] = "entry" /\ arg'[c] = arg[c] /\ i'[c] = i[c]
  <2>1. addr[Slot(c)] = arg[c] /\ arg[c] # 0
    BY <1>0, <1>2, Zenon DEF Inv, Passed, Active
  <2>2. addr'[Slot(c)] = addr[Slot(c)]
    BY <1>0, <2>1, SlotsStay, Zenon
  <2> QED BY <1>2, <2>1, <2>2, Zenon DEF Slot
<1>3. CASE ResolveCall(c) \/ ResolveZero(c) \/ ResolveEntry(c)
  BY <1>0, <1>3, Zenon DEF ResolveCall, ResolveZero, ResolveEntry, Start, Return, Goto, TypeOK
<1> QED BY <1>0, <1>1, <1>2, <1>3, OthersStay, Zenon DEF ReaderStep

(* Every access of rtld_set and rtld_resolve preserves the invariant. *)
LEMMA StepInv == Inv /\ [Next]_vars => Inv'
<1> SUFFICES ASSUME Inv, [Next]_vars PROVE Inv'
  BY Zenon
<1>1. TypeOK' BY StepTypes, Zenon
<1>2. Filled' /\ Filling' /\ Roles' BY StepFilled, Zenon
<1>3. \A c \in Clients : Passed(c)' BY StepPassed, Zenon
<1>4. Reachable' BY StepReachable, Zenon
<1>5. \A c \in Readers : (pc[c] = "entry" => addr[Slot(c)] = arg[c])'
  BY StepMatch, Zenon
<1> QED BY <1>1, <1>2, <1>3, <1>4, <1>5, Zenon DEF Inv

(* The inductive invariant: what each search knows of the slots it passed,  *)
(* what rtld_set knows of the slot it fills, and that no search stops early. *)
THEOREM Invariance == Spec => []Inv
BY InitInv, StepInv, PTL DEF Spec

(* The variables keep their types; the probe count never leaves the table. *)
THEOREM TypeCorrect == Spec => []TypeOK
<1>1. Inv => TypeOK BY Zenon DEF Inv
<1> QED BY <1>1, Invariance, PTL

(* Every address that rtld_set stored lies on its own probe sequence with   *)
(* no empty slot before it, so rtld_resolve cannot stop too early.          *)
THEOREM NoHoles == Spec => []Reachable
<1>1. Inv => Reachable BY Zenon DEF Inv
<1> QED BY <1>1, Invariance, PTL

(* A concurrent reader that has seen its address reads an entry that        *)
(* rtld_set wrote before it published the address.                          *)
THEOREM ValidData == Spec => []ReadersSeeValidData
<1>1. Inv => ReadersSeeValidData
  <2> SUFFICES ASSUME Inv, NEW c \in Readers, pc[c] = "entry"
               PROVE  addr[Slot(c)] = arg[c] /\ entry[Slot(c)] \in Entries
    BY Zenon DEF ReadersSeeValidData
  <2>1. c \in Clients /\ TypeOK
    BY Zenon DEF Inv, Clients
  <2>2. Slot(c) \in Slots
    BY <2>1, CallTypes, Zenon
  <2>3. addr[Slot(c)] = arg[c] /\ arg[c] # 0
    BY <2>1, Zenon DEF Inv, Passed, Active
  <2> QED BY <2>2, <2>3, Zenon DEF Inv, Filled
<1> QED BY <1>1, Invariance, PTL

----------------------------------------------------------------------------
(* Refinement: the table implements the partial map of AddrMap. *)

Answered ==
  /\ \A c \in Clients : pc[c] = "idle" <=> ret[c] # "pending"
  /\ \A c \in Clients : ret[c] = "idle" => pc[c] = "idle"
  /\ new = 0 => ret[Writer] = "idle"
  /\ \A c \in Clients : pc[c] = "zero" => arg[c] = 0

(* A search is pending until it returns. *)
LEMMA StepAnswered == Inv /\ Answered /\ [Next]_vars => Answered'
<1> SUFFICES ASSUME Inv, Answered, [Next]_vars PROVE Answered'
  BY Zenon
<1>0. /\ TypeOK /\ Writer \in Clients /\ Writer \notin Readers
      /\ \A c \in Readers : c \in Clients
      /\ \A e \in Entries : e # "idle" /\ e # "pending" /\ e # 0
  BY RtldAssumption, EntryAssumption, Zenon DEF Inv, Clients
<1>1. ASSUME NEW c \in Clients
      PROVE  (pc[c] = "idle" <=> ret[c] # "pending")' /\ (ret[c] = "idle" => pc[c] = "idle")'
  <2>1. CASE /\ ~(c \in Readers /\ (ResolveCall(c) \/ ReaderStep(c)))
             /\ ~(c = Writer /\ (SetCall \/ WriterStep))
    BY <2>1, OthersStay, Zenon DEF Answered
  <2>2. ASSUME NEW a \in Addrs, Start(c, a)
        PROVE  pc'[c] # "idle" /\ ret'[c] = "pending"
    BY <1>0, <2>2, Zenon DEF Start, Goto, TypeOK
  <2>3. ASSUME NEW r, r # "pending", r # "idle", Return(c, r)
        PROVE  pc'[c] = "idle" /\ ret'[c] = r
    BY <1>0, <2>3, Zenon DEF Return, Goto, TypeOK
  <2>4. ASSUME NEW l \in Active, Goto(c, l), ret' = ret, pc[c] \in Active
        PROVE  pc'[c] # "idle" /\ ret'[c] = "pending"
    BY <1>0, <2>4, Zenon DEF Goto, TypeOK, Answered, Active
  <2>5. ASSUME NEW r, r # "pending", r # "idle", pc[c] = "probe", Advance(c, r)
        PROVE  \/ pc'[c] = "idle" /\ ret'[c] = r
               \/ pc'[c] = "probe" /\ ret'[c] = "pending"
    BY <1>0, <2>3, <2>5, Zenon DEF Advance, Answered
  <2>6. CASE c \in Readers /\ (ResolveCall(c) \/ ResolveZero(c) \/ ResolveProbe(c))
    BY <2>2, <2>3, <2>4, <2>5, <2>6 DEF ResolveCall, ResolveZero, ResolveProbe, Active
  <2>7. CASE c \in Readers /\ ResolveEntry(c)
    <3>1. entry[Slot(c)] \in Entries
      <4>1. Slot(c) \in Slots /\ addr[Slot(c)] = arg[c] /\ arg[c] # 0
        BY <1>0, <2>7, CallTypes, Zenon DEF Inv, ResolveEntry, Passed, Active
      <4> QED BY <4>1, Zenon DEF Inv, Filled
    <3> QED BY <1>0, <2>3, <2>7, <3>1, Zenon DEF ResolveEntry
  <2>8. CASE c = Writer /\ (SetCall \/ WriterStep)
    BY <2>2, <2>3, <2>4, <2>5, <2>8 DEF SetCall, WriterStep, SetZero, SetProbe, SetFill,
         SetPublish, Active
  <2> QED BY <2>1, <2>2, <2>6, <2>7, <2>8, Zenon DEF ReaderStep
<1>2. (new = 0 => ret[Writer] = "idle")'
  <2>1. CASE SetCall
    BY <1>0, <2>1, Zenon DEF SetCall
  <2>2. CASE WriterStep
    <3>1. new' = new /\ pc[Writer] # "idle"
      BY <2>2, Zenon DEF WriterStep, SetZero, SetProbe, SetFill, SetPublish
    <3>2. new # 0
      BY <1>0, <3>1, Zenon DEF Answered
    <3> QED BY <3>1, <3>2, Zenon
  <2>3. CASE ~SetCall /\ ~WriterStep
    <3>1. ret'[Writer] = ret[Writer]
      BY <1>0, <2>3, OthersStay, Zenon
    <3>2. new' = new
      BY <2>3, Zenon DEF Next, ReaderStep, ResolveCall, ResolveZero, ResolveProbe, ResolveEntry, vars
    <3> QED BY <3>1, <3>2, Zenon DEF Answered
  <2> QED BY <2>1, <2>2, <2>3, Zenon
<1>3. ASSUME NEW c \in Clients PROVE (pc[c] = "zero" => arg[c] = 0)'
  <2>1. CASE /\ ~(c \in Readers /\ (ResolveCall(c) \/ ReaderStep(c)))
             /\ ~(c = Writer /\ (SetCall \/ WriterStep))
    BY <2>1, OthersStay, Zenon DEF Answered
  <2>2. ASSUME NEW a \in Addrs, Start(c, a) PROVE pc'[c] = "zero" => arg'[c] = 0
    BY <1>0, <2>2, Zenon DEF Start, Goto, TypeOK
  <2>3. CASE c \in Readers /\ ReaderStep(c)
    BY <1>0, <2>3, Zenon DEF ReaderStep, ResolveZero, ResolveProbe, ResolveEntry, Advance,
         Return, Goto, TypeOK
  <2>4. CASE c = Writer /\ WriterStep
    BY <1>0, <2>4, Zenon DEF WriterStep, SetZero, SetProbe, SetFill, SetPublish, Advance,
         Return, Goto, TypeOK
  <2> QED BY <2>1, <2>2, <2>3, <2>4, Zenon DEF ResolveCall, SetCall
<1> QED BY <1>1, <1>2, <1>3, Zenon DEF Answered

(* A search that meets an empty slot, or has seen every slot, is right to   *)
(* say that the address is not in the table.                                *)
LEMMA NotStored ==
  ASSUME Inv, NEW c \in Clients, pc[c] \in Active,
         \/ addr[Slot(c)] = 0
         \/ i[c] + 1 = N /\ addr[Slot(c)] \notin {0, arg[c]}
  PROVE  arg[c] \notin Stored
<1> SUFFICES ASSUME arg[c] \in Stored PROVE FALSE
  BY Zenon
<1>1. PICK s \in Slots : addr[s] = arg[c]
  BY Zenon DEF Stored
<1>2. arg[c] # 0 /\ \A j \in 0 .. i[c] - 1 : addr[Probe(arg[c], j)] \notin {0, arg[c]}
  BY Zenon DEF Inv, Passed
<1>3. PICK k \in Slots : /\ Probe(arg[c], k) = s
                         /\ \A j \in 0 .. k - 1 : addr[Probe(arg[c], j)] \notin {0, arg[c]}
  BY <1>1, <1>2, Zenon DEF Inv, Reachable
<1>4. i[c] \in Nat /\ k \in 0 .. N - 1 /\ N \in Nat /\ i[c] \in 0 .. N - 1
  BY CallTypes, Zenon DEF Inv, Slots
<1>5. ~(k < i[c])
  BY <1>1, <1>2, <1>3, <1>4
<1>6. k # i[c]
  BY <1>1, <1>2, <1>3, Zenon DEF Slot
<1>7. ~(i[c] < k)
  <2> SUFFICES ASSUME i[c] < k PROVE FALSE
    BY Zenon
  <2>1. i[c] \in 0 .. k - 1
    BY <1>4
  <2>2. addr[Slot(c)] # 0
    BY <1>3, <2>1, Zenon DEF Slot
  <2> QED BY <1>4, <2>2
<1> QED BY <1>4, <1>5, <1>6, <1>7

(* The probe sequence of an address visits every slot. *)
LEMMA ProbeCovers ==
  ASSUME NEW a \in Nat, NEW s \in Slots
  PROVE  \E k \in Slots : Probe(a, k) = s
<1> DEFINE h == Hash(a)
<1>1. N \in Nat \ {0} /\ h \in Nat /\ h < N /\ s \in Nat /\ s < N
  BY RtldAssumption DEF Hash, Slots
<1>2. \A x \in Nat : x < N => x % N = x /\ (x + N) % N = x
  BY <1>1
<1> HIDE DEF h
<1>3. CASE h <= s
  <2>1. s - h \in 0 .. N - 1 /\ (h + (s - h)) % N = s
    BY <1>1, <1>2, <1>3
  <2> QED BY <2>1, Zenon DEF Probe, Slots, h
<1>4. CASE s < h
  <2>1. s - h + N \in 0 .. N - 1 /\ (h + (s - h + N)) % N = s
    <3>1. h + (s - h + N) = s + N
      BY <1>1
    <3> QED BY <1>1, <1>2, <1>4, <3>1
  <2> QED BY <2>1, Zenon DEF Probe, Slots, h
<1> QED BY <1>1, <1>3, <1>4

(* The table is full exactly when it holds N addresses. *)
LEMMA Fullness ==
  ASSUME Inv
  PROVE  /\ IsFiniteSet(Stored)
         /\ (\A s \in Slots : addr[s] # 0) => Cardinality(Stored) = N
         /\ (\E s \in Slots : addr[s] = 0) => Cardinality(Stored) < N
<1> DEFINE S == {s \in Slots : addr[s] # 0}
           f == [s \in S |-> addr[s]]
<1>1. N \in Nat \ {0}
  BY RtldAssumption, Zenon
<1>2. IsFiniteSet(Slots) /\ Cardinality(Slots) = N
  BY <1>1, FS_Interval DEF Slots
<1>3. /\ IsFiniteSet(S) /\ Cardinality(S) <= N
      /\ Cardinality(S) = N => S = Slots
      /\ Cardinality(S) \in Nat
  <2>1. S \in SUBSET Slots
    BY Zenon
  <2> HIDE DEF S
  <2>2. IsFiniteSet(S)
    BY <1>2, <2>1, FS_Subset, Zenon
  <2>3. Cardinality(S) \in Nat
    BY <2>2, FS_CardinalityType, Zenon
  <2> QED BY <1>2, <2>1, <2>2, <2>3, FS_Subset, Zenon
<1>4. f \in Bijection(S, Stored)
  <2>1. f \in [S -> Stored]
    BY Zenon DEF Stored
  <2>2. \A s, u \in S : f[s] = f[u] => s = u
    BY Unique, Zenon
  <2>3. \A a \in Stored : \E s \in S : f[s] = a
    BY Zenon DEF Stored
  <2> HIDE DEF f, S
  <2> QED BY <2>1, <2>2, <2>3, Zenon DEF Bijection, Injection, Surjection, IsInjective
<1>5. IsFiniteSet(Stored) /\ Cardinality(Stored) = Cardinality(S)
  <2> HIDE DEF f, S
  <2> QED BY <1>3, <1>4, FS_Bijection, Zenon DEF ExistsBijection
<1>6. (\A s \in Slots : addr[s] # 0) => S = Slots
  BY Zenon
<1>7. (\E s \in Slots : addr[s] = 0) => S # Slots
  BY Zenon
<1> HIDE DEF S
<1> QED BY <1>1, <1>2, <1>3, <1>5, <1>6, <1>7

Actor(c) ==
  \/ c \in Readers /\ (ResolveCall(c) \/ ReaderStep(c))
  \/ c = Writer /\ (SetCall \/ WriterStep)

(* The abstract map only changes when an address is published. *)
LEMMA TableStays ==
  ASSUME Inv, [Next]_vars, addr' = addr
  PROVE  Stored' = Stored /\ Table' = Table
<1>1. Stored' = Stored
  BY Zenon DEF Stored
<1>2. ASSUME NEW a \in Stored
      PROVE  SlotOf(a)' = SlotOf(a) /\ entry'[SlotOf(a)] = entry[SlotOf(a)]
  <2>1. SlotOf(a)' = SlotOf(a)
    BY Zenon DEF SlotOf
  <2>2. SlotOf(a) \in Slots /\ addr[SlotOf(a)] = a /\ a # 0
    BY Zenon DEF SlotOf, Stored
  <2> QED BY <2>1, <2>2, SlotsStay, Zenon
<1> QED BY <1>1, <1>2, Zenon DEF Table

(* The slot that holds an address is the one that rtld_resolve finds. *)
LEMMA TableAt ==
  ASSUME Inv, NEW s \in Slots, addr[s] # 0
  PROVE  addr[s] \in Stored /\ SlotOf(addr[s]) = s /\ Table[addr[s]] = entry[s]
<1>1. addr[s] \in Stored
  BY Zenon DEF Stored
<1>2. SlotOf(addr[s]) \in Slots /\ addr[SlotOf(addr[s])] = addr[s]
  BY Zenon DEF SlotOf
<1>3. SlotOf(addr[s]) = s
  BY <1>2, Unique, Zenon
<1> QED BY <1>1, <1>3, Zenon DEF Table

(* The abstract call of a client stays while it is being served. *)
LEMMA AskedStays ==
  ASSUME arg' = arg, new' = new,
         \A c \in Clients : ret'[c] = "idle" <=> ret[c] = "idle"
  PROVE  Asked' = Asked
<1>1. ASSUME NEW c \in Clients PROVE CallOf(c)' = CallOf(c)
  BY Zenon DEF CallOf
<1> QED BY <1>1, Zenon DEF Asked

(* A step changes the abstract answer of the client that takes it only. *)
LEMMA AnswersStep ==
  ASSUME Inv, [Next]_vars, NEW c \in Clients, Actor(c)
  PROVE  /\ Answers' = [Answers EXCEPT ![c] = AnswerOf(c)']
         /\ \A d \in Clients \ {c} : ret'[d] = ret[d]
<1>1. ASSUME NEW d \in Clients, d # c
      PROVE  pc'[d] = pc[d] /\ arg'[d] = arg[d] /\ i'[d] = i[d] /\ ret'[d] = ret[d]
  <2>1. CASE c \in Readers /\ (ResolveCall(c) \/ ReaderStep(c))
    BY <1>1, <2>1, Zenon DEF ResolveCall, ReaderStep, ResolveZero, ResolveProbe, ResolveEntry,
         Start, Advance, Return, Goto, Inv, TypeOK
  <2>2. CASE c = Writer /\ (SetCall \/ WriterStep)
    BY <1>1, <2>2, Zenon DEF SetCall, WriterStep, SetZero, SetProbe, SetFill, SetPublish,
         Start, Advance, Return, Goto, Inv, TypeOK
  <2> QED BY <2>1, <2>2, Zenon DEF Actor
<1>2. ASSUME NEW d \in Clients, d # c
      PROVE  AnswerOf(d)' = AnswerOf(d)
  <2>1. CASE pc[d] = "entry"
    <3>1. d \in Readers
      BY <2>1, Zenon DEF Inv, Roles, Clients
    <3>2. Slot(d) \in Slots /\ addr[Slot(d)] = arg[d] /\ arg[d] # 0
      BY <2>1, <3>1, CallTypes, Zenon DEF Inv, Passed, Active
    <3>3. entry'[Slot(d)] = entry[Slot(d)]
      BY <3>2, SlotsStay, Zenon
    <3> QED BY <1>1, <1>2, <2>1, <3>3, Zenon DEF AnswerOf, Slot
  <2>2. CASE pc[d] # "entry"
    BY <1>1, <1>2, <2>2, Zenon DEF AnswerOf
  <2> QED BY <2>1, <2>2, Zenon
<1>3. Answers' = [d \in Clients |-> AnswerOf(d)']
  BY Zenon DEF Answers
<1>4. Answers = [d \in Clients |-> AnswerOf(d)]
  BY Zenon DEF Answers
<1> QED BY <1>1, <1>2, <1>3, <1>4, Zenon

(* A call that starts asks the abstract map. *)
LEMMA StartAsks ==
  ASSUME Inv, Answered, [Next]_vars, NEW c \in Clients, Actor(c),
         NEW a \in Addrs, Start(c, a),
         IF c = Writer THEN new' \in Entries ELSE new' = new
  PROVE  \E q \in Map!Calls : Map!Ask(c, q)
<1>0. TypeOK
  BY Zenon DEF Inv
<1>1. pc[c] = "idle" /\ ret[c] # "pending" /\ AnswerOf(c) # "pending"
  BY Zenon DEF Start, Answered, AnswerOf
<1>2. arg' = [arg EXCEPT ![c] = a] /\ ret' = [ret EXCEPT ![c] = "pending"]
      /\ pc'[c] \in {"zero", "probe"} /\ addr' = addr
  BY <1>0, Zenon DEF Start, Goto, TypeOK
<1>3. AnswerOf(c)' = "pending"
  BY <1>0, <1>2, Zenon DEF AnswerOf, TypeOK
<1>4. Answers' = [Answers EXCEPT ![c] = "pending"] /\ Answers[c] # "pending"
  BY <1>1, <1>3, AnswersStep, Zenon DEF Answers
<1>5. CallOf(c)' \in Map!Calls
  BY <1>0, <1>2, Zenon DEF CallOf, Map!Calls, TypeOK
<1>6. ASSUME NEW d \in Clients, d # c PROVE CallOf(d)' = CallOf(d)
  BY <1>0, <1>2, <1>6, Zenon DEF CallOf, TypeOK
<1>7. Asked' = [Asked EXCEPT ![c] = CallOf(c)']
  <2>1. Asked' = [d \in Clients |-> CallOf(d)']
    BY Zenon DEF Asked
  <2>2. Asked = [d \in Clients |-> CallOf(d)]
    BY Zenon DEF Asked
  <2> QED BY <1>6, <2>1, <2>2, Zenon
<1>8. Table' = Table
  BY <1>2, TableStays, Zenon
<1> QED BY <1>4, <1>5, <1>7, <1>8, Zenon DEF Map!Ask

(* What a call in progress looks like to the abstract map, and what a step *)
(* that returns r or goes on does to the abstract answers.                 *)
LEMMA InProgress ==
  ASSUME Inv, Answered, NEW c \in Clients, pc[c] # "idle"
  PROVE  /\ Asked[c].addr = arg[c]
         /\ c \in Readers => Asked[c].op = "resolve"
         /\ c = Writer => Asked[c].op = "set" /\ Asked[c].entry = new
         /\ pc[c] # "entry" => Answers[c] = "pending"
<1>1. ret[c] = "pending" /\ ret[c] # "idle"
  BY Zenon DEF Answered
<1>2. Asked[c] = CallOf(c) /\ Answers[c] = AnswerOf(c)
  BY Zenon DEF Asked, Answers
<1>3. c \in Readers => c # Writer
  BY RtldAssumption, Zenon
<1> QED BY <1>1, <1>2, <1>3 DEF CallOf, AnswerOf

(* A step that returns r, the table apart, replies r in the abstract map. *)
LEMMA ReturnReplies ==
  ASSUME Inv, Answered, [Next]_vars, NEW c \in Clients, Actor(c), pc[c] # "idle",
         NEW r, r # "idle", Return(c, r), arg' = arg, new' = new
  PROVE  Answers' = [Answers EXCEPT ![c] = r] /\ Asked' = Asked
<1>0. TypeOK
  BY Zenon DEF Inv
<1>1. pc'[c] = "idle" /\ ret'[c] = r
  BY <1>0, Zenon DEF Return, Goto, TypeOK
<1>2. AnswerOf(c)' = r
  BY <1>1, Zenon DEF AnswerOf
<1>3. ret[c] # "idle"
  BY Zenon DEF Answered
<1>4. \A d \in Clients : ret'[d] = "idle" <=> ret[d] = "idle"
  BY <1>1, <1>3, AnswersStep, Zenon
<1> QED BY <1>2, <1>4, AskedStays, AnswersStep, Zenon

(* A step that goes on to the next slot is invisible to the abstract map. *)
LEMMA GoOnStutters ==
  ASSUME Inv, Answered, [Next]_vars, NEW c \in Clients, Actor(c), pc[c] # "idle",
         pc[c] # "entry", pc'[c] # "entry", ret' = ret, arg' = arg, new' = new, addr' = addr
  PROVE  UNCHANGED <<Table, Asked, Answers>>
<1>1. AnswerOf(c)' = AnswerOf(c)
  BY Zenon DEF AnswerOf
<1>2. Answers' = Answers
  BY <1>1, AnswersStep, ZenonT(30) DEF Answers
<1>3. Asked' = Asked
  BY AskedStays, Zenon
<1> QED BY <1>2, <1>3, TableStays, Zenon

MapStep == [Map!Next]_<<Table, Asked, Answers>>

(* rtld_resolve: the search answers as the map does when it meets its       *)
(* address, an empty slot or the end of the table.                          *)
LEMMA ReaderMaps ==
  ASSUME Inv, Answered, [Next]_vars, NEW c \in Readers, ResolveCall(c) \/ ReaderStep(c)
  PROVE  MapStep
<1>0. TypeOK /\ c \in Clients /\ c # Writer /\ Actor(c) /\ Slot(c) \in Slots
  BY CallTypes, RtldAssumption, Zenon DEF Inv, Clients, Actor
<1>1. DOMAIN Table = Stored /\ 0 \notin Stored
  BY Zenon DEF Table, Stored
<1>2. ASSUME pc[c] \in {"zero", "probe"}, Return(c, "ENOENT"), arg[c] \notin Stored,
             UNCHANGED <<addr, entry, arg, new>>
      PROVE  Map!Resolve(c)
  BY <1>0, <1>1, <1>2, InProgress, ReturnReplies, TableStays, Zenon DEF Map!Resolve, Map!Reply
<1>3. CASE ResolveCall(c)
  BY <1>0, <1>3, StartAsks, Zenon DEF ResolveCall, MapStep, Map!Next
<1>4. CASE ResolveZero(c)
  <2>1. arg[c] = 0
    BY <1>0, <1>4, Zenon DEF ResolveZero, Answered
  <2> QED BY <1>0, <1>1, <1>2, <1>4, <2>1, Zenon DEF ResolveZero, MapStep, Map!Next
<1>5. CASE ResolveProbe(c)
  <2>1. CASE addr[Slot(c)] = 0 /\ Return(c, "ENOENT")
    BY <1>0, <1>2, <1>5, <2>1, NotStored, Zenon DEF ResolveProbe, MapStep, Map!Next, Active
  <2>2. CASE addr[Slot(c)] = arg[c] /\ Goto(c, "entry") /\ UNCHANGED <<i, ret>>
    <3>1. arg[c] # 0 /\ pc[c] = "probe" /\ UNCHANGED <<addr, entry, arg, new>>
      BY <1>0, <1>5, Zenon DEF ResolveProbe, Inv, Passed, Active
    <3>2. arg[c] \in Stored /\ Table[arg[c]] = entry[Slot(c)]
      BY <1>0, <2>2, <3>1, TableAt, Zenon
    <3>3. AnswerOf(c)' = entry[Slot(c)]
      BY <1>0, <2>2, <3>1, Zenon DEF AnswerOf, Goto, Slot, TypeOK
    <3>4. Asked' = Asked /\ Table' = Table
      BY <2>2, <3>1, AskedStays, TableStays, Zenon
    <3>5. Map!Resolve(c)
      BY <1>0, <1>1, <3>1, <3>2, <3>3, <3>4, InProgress, AnswersStep
         DEF Map!Resolve, Map!Reply
    <3> QED BY <1>0, <3>5, Zenon DEF MapStep, Map!Next
  <2>3. CASE addr[Slot(c)] \notin {0, arg[c]} /\ Advance(c, "ENOENT")
    <3>1. CASE i[c] + 1 = N
      BY <1>0, <1>2, <1>5, <2>3, <3>1, NotStored, Zenon
         DEF ResolveProbe, Advance, MapStep, Map!Next, Active
    <3>2. CASE i[c] + 1 # N
      BY <1>0, <1>5, <2>3, <3>2, GoOnStutters, Zenon DEF ResolveProbe, Advance, MapStep
    <3> QED BY <3>1, <3>2, Zenon
  <2> QED BY <1>5, <2>1, <2>2, <2>3, Zenon DEF ResolveProbe
<1>6. CASE ResolveEntry(c)
  <2>1. entry[Slot(c)] \in Entries /\ entry[Slot(c)] # "idle"
    <3>1. addr[Slot(c)] # 0
      BY <1>0, <1>6, Zenon DEF ResolveEntry, Inv, Passed, Active
    <3> QED BY <1>0, <3>1, EntryAssumption, Zenon DEF Inv, Filled
  <2>2. Answers' = [Answers EXCEPT ![c] = entry[Slot(c)]] /\ Asked' = Asked
    BY <1>0, <1>6, <2>1, ReturnReplies, Zenon DEF ResolveEntry
  <2>3. Answers[c] = entry[Slot(c)]
    BY <1>0, <1>6, Zenon DEF ResolveEntry, Answers, AnswerOf
  <2>4. Answers' = Answers
    BY <2>2, <2>3, Zenon DEF Answers
  <2> QED BY <1>6, <2>2, <2>4, TableStays, Zenon DEF ResolveEntry, MapStep
<1> QED BY <1>3, <1>4, <1>5, <1>6, Zenon DEF ReaderStep

(* -ENOSPC: a search that has seen every slot has seen the table full. *)
LEMMA SeenFull ==
  ASSUME Inv, NEW c \in Clients, pc[c] \in Active, i[c] + 1 = N,
         addr[Slot(c)] \notin {0, arg[c]}
  PROVE  Cardinality(Stored) = N
<1>1. \A j \in 0 .. i[c] - 1 : addr[Probe(arg[c], j)] # 0
  BY Zenon DEF Inv, Passed
<1>2. arg[c] \in Nat /\ i[c] \in Nat /\ N \in Nat
  BY CallTypes, Zenon DEF Inv
<1>3. ASSUME NEW s \in Slots PROVE addr[s] # 0
  <2>1. PICK k \in Slots : Probe(arg[c], k) = s
    BY <1>2, ProbeCovers, Zenon
  <2>2. CASE k = i[c]
    BY <2>1, <2>2, Zenon DEF Slot
  <2>3. CASE k # i[c]
    <3>1. k \in 0 .. i[c] - 1
      BY <1>2, <2>3 DEF Slots
    <3> QED BY <1>1, <2>1, <3>1, Zenon
  <2> QED BY <2>2, <2>3, Zenon
<1> QED BY <1>3, Fullness, Zenon

(* Publishing an address adds it, with its entry, to the abstract map. *)
LEMMA PublishInserts ==
  ASSUME Inv, SetPublish
  PROVE  Table' = [a \in Stored \union {arg[Writer]} |->
                     IF a = arg[Writer] THEN new ELSE Table[a]]
<1> DEFINE s == Slot(Writer)
<1>1. /\ TypeOK /\ s \in Slots /\ addr[s] = 0 /\ entry[s] = new /\ arg[Writer] # 0
      /\ addr' = [addr EXCEPT ![s] = arg[Writer]] /\ entry' = entry
  BY CallTypes, Zenon DEF Inv, Filling, SetPublish, Clients, Passed, Active
<1> HIDE DEF s
<1>2. addr'[s] = arg[Writer] /\ \A u \in Slots \ {s} : addr'[u] = addr[u]
  BY <1>1, Zenon DEF TypeOK
<1>3. Stored' = Stored \union {arg[Writer]}
  <2>1. ASSUME NEW a \in Stored' PROVE a \in Stored \union {arg[Writer]}
    BY <1>2, Zenon DEF Stored
  <2>2. arg[Writer] \in Stored'
    BY <1>1, <1>2, Zenon DEF Stored
  <2>3. ASSUME NEW a \in Stored PROVE a \in Stored'
    <3>1. PICK u \in Slots : addr[u] = a
      BY Zenon DEF Stored
    <3> QED BY <1>1, <1>2, <3>1, Zenon DEF Stored
  <2> QED BY <2>1, <2>2, <2>3, Zenon
<1>4. \A a \in Stored' : SlotOf(a)' \in Slots /\ addr'[SlotOf(a)'] = a
  BY Zenon DEF Stored, SlotOf
<1>5. arg[Writer] \notin Stored
  BY <1>1, NotStored, Zenon DEF SetPublish, Clients, Active, s
<1>6. ASSUME NEW a \in Stored', a = arg[Writer] PROVE entry[SlotOf(a)'] = new
  <2>1. \A u \in Slots \ {s} : addr[u] # a
    BY <1>1, <1>5, <1>6, Zenon DEF Stored
  <2>2. SlotOf(a)' = s
    BY <1>2, <1>4, <2>1, Zenon
  <2> QED BY <1>1, <2>2, Zenon
<1>7. ASSUME NEW a \in Stored PROVE entry[SlotOf(a)'] = entry[SlotOf(a)]
  <2>1. a # arg[Writer] /\ a # 0 /\ a \in Stored'
    BY <1>3, <1>5, Zenon DEF Stored
  <2>2. SlotOf(a)' \in Slots /\ addr[SlotOf(a)'] = a
    BY <1>2, <1>4, <2>1, Zenon
  <2>3. SlotOf(a) \in Slots /\ addr[SlotOf(a)] = a
    BY Zenon DEF Stored, SlotOf
  <2> QED BY <2>1, <2>2, <2>3, Unique, Zenon
<1>8. Table' = [a \in Stored' |-> entry'[SlotOf(a)']]
  BY Zenon DEF Table
<1>9. Table = [a \in Stored |-> entry[SlotOf(a)]]
  BY Zenon DEF Table
<1> QED BY <1>1, <1>3, <1>5, <1>6, <1>7, <1>8, <1>9, Zenon

(* The abstract map counts as the table does. *)
LEMMA SameCardinality == \A S : Map!Cardinality(S) = Cardinality(S)
BY Zenon DEF Map!Cardinality, Cardinality, Map!IsFiniteSet, IsFiniteSet

(* rtld_set: it refuses what the map refuses, and takes effect when it     *)
(* publishes the address.                                                  *)
LEMMA WriterMaps ==
  ASSUME Inv, Answered, [Next]_vars, SetCall \/ WriterStep
  PROVE  MapStep
<1> DEFINE c == Writer
<1>0. TypeOK /\ c \in Clients /\ Actor(c) /\ Slot(c) \in Slots
  BY CallTypes, Zenon DEF Inv, Clients, Actor
<1>1. DOMAIN Table = Stored /\ 0 \notin Stored
  BY Zenon DEF Table, Stored
<1>2. ASSUME pc[c] \in {"zero", "probe"}, NEW r \in {"EINVAL", "EEXIST", "ENOSPC"}, Return(c, r),
             \/ arg[c] = 0 /\ r = "EINVAL"
             \/ arg[c] \in Stored /\ r = "EEXIST"
             \/ arg[c] \notin Stored \union {0} /\ Cardinality(Stored) = N /\ r = "ENOSPC",
             UNCHANGED <<addr, entry, arg, new>>
      PROVE  Map!Refuse(c)
  <2>1. /\ Answers[c] = "pending" /\ Asked[c].op = "set" /\ Asked[c].addr = arg[c]
        /\ Answers' = [Answers EXCEPT ![c] = r] /\ Asked' = Asked /\ Table' = Table
    BY <1>0, <1>2, InProgress, ReturnReplies, TableStays
  <2>2. CASE r = "EINVAL"
    BY <1>2, <2>1, <2>2, Zenon DEF Map!Refuse, Map!Reply
  <2>3. CASE r = "EEXIST"
    BY <1>1, <1>2, <2>1, <2>3, Zenon DEF Map!Refuse, Map!Reply
  <2>4. CASE r = "ENOSPC"
    BY <1>1, <1>2, <2>1, <2>4, SameCardinality, Zenon DEF Map!Refuse, Map!Reply
  <2> QED BY <2>2, <2>3, <2>4, Zenon
<1>3. CASE SetCall
  BY <1>0, <1>3, StartAsks, Zenon DEF SetCall, MapStep, Map!Next
<1>4. CASE SetZero
  BY <1>0, <1>2, <1>4, Zenon DEF SetZero, MapStep, Map!Next, Answered
<1>5. CASE SetProbe
  <2>0. /\ pc[c] = "probe" /\ pc[c] \in Active /\ arg[c] # 0
        /\ UNCHANGED <<addr, entry, arg, new>>
    BY <1>0, <1>5, Zenon DEF SetProbe, Active, Inv, Passed
  <2>1. CASE addr[Slot(c)] = arg[c] /\ Return(c, "EEXIST")
    BY <1>0, <1>2, <2>0, <2>1, TableAt, Zenon DEF MapStep, Map!Next
  <2>2. CASE addr[Slot(c)] = 0 /\ Goto(c, "fill") /\ UNCHANGED <<i, ret>>
    <3>1. pc'[c] = "fill"
      BY <1>0, <2>2, Zenon DEF Goto, TypeOK
    <3> QED BY <1>0, <2>0, <2>2, <3>1, GoOnStutters, Zenon DEF MapStep
  <2>3. CASE addr[Slot(c)] \notin {0, arg[c]} /\ Advance(c, "ENOSPC")
    <3>1. CASE i[c] + 1 = N
      BY <1>0, <1>2, <2>0, <2>3, <3>1, NotStored, SeenFull, Zenon DEF Advance, MapStep, Map!Next
    <3>2. CASE i[c] + 1 # N
      BY <1>0, <2>0, <2>3, <3>2, GoOnStutters, Zenon DEF Advance, MapStep
    <3> QED BY <3>1, <3>2, Zenon
  <2> QED BY <1>5, <2>1, <2>2, <2>3, Zenon DEF SetProbe
<1>6. CASE SetFill
  <2>1. pc'[c] = "publish"
    BY <1>0, <1>6, Zenon DEF SetFill, Goto, TypeOK
  <2> QED BY <1>0, <1>6, <2>1, GoOnStutters, Zenon DEF SetFill, MapStep
<1>7. CASE SetPublish
  <2>1. /\ pc[c] = "publish" /\ Return(c, "ok") /\ arg' = arg /\ new' = new
        /\ arg[c] # 0 /\ addr[Slot(c)] = 0
    BY <1>0, <1>7, Zenon DEF SetPublish, Inv, Passed, Active, Filling
  <2>2. arg[c] \notin Stored /\ Cardinality(Stored) < N
    BY <1>0, <2>1, NotStored, Fullness, Zenon DEF Active
  <2>3. /\ Answers[c] = "pending" /\ Asked[c].op = "set" /\ Asked[c].addr = arg[c]
        /\ Asked[c].entry = new
        /\ Answers' = [Answers EXCEPT ![c] = "ok"] /\ Asked' = Asked
    BY <1>0, <2>1, InProgress, ReturnReplies, Zenon
  <2>4. Map!Insert(c)
    <3>1. Table' = [a \in Stored \union {arg[c]} |-> IF a = arg[c] THEN new ELSE Table[a]]
      BY <1>7, PublishInserts, Zenon
    <3> QED BY <1>1, <2>1, <2>2, <2>3, <3>1, SameCardinality, Zenon DEF Map!Insert, Map!Reply
  <2> QED BY <1>0, <2>4, Zenon DEF MapStep, Map!Next
<1> QED BY <1>3, <1>4, <1>5, <1>6, <1>7, Zenon DEF WriterStep

(* rtld_set and rtld_resolve, interleaved access by access, implement the   *)
(* atomic partial map: every call answers as the map does at one moment of  *)
(* the call, whatever the size of the table and the number of readers.      *)
THEOREM Refinement == Spec => ImplementsMap
<1>1. Init => Map!Init /\ Answered
  <2> SUFFICES ASSUME Init PROVE Map!Init /\ Answered
    BY Zenon
  <2>1. Stored = {}
    BY Zenon DEF Init, Stored
  <2> QED BY <2>1, Zenon DEF Init, Answered, Map!Init, Map!NoCall, Table, Asked, Answers,
                      CallOf, AnswerOf, Clients
<1>2. Inv /\ Answered /\ [Next]_vars => MapStep
  <2> SUFFICES ASSUME Inv, Answered, [Next]_vars PROVE MapStep
    BY Zenon
  <2>1. CASE UNCHANGED vars
    BY <2>1 DEF vars, MapStep, Table, Asked, Answers, CallOf, AnswerOf, Stored, SlotOf, Slot
  <2> QED BY <2>1, ReaderMaps, WriterMaps, Zenon DEF Next
<1> QED BY <1>1, <1>2, Invariance, StepAnswered, PTL DEF Spec, ImplementsMap, Map!Spec, MapStep
==============================================================================
