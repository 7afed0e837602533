------------------------------ MODULE Dispatch -------------------------------
(***************************************************************************)
(* How one guest thread gets from block to block (client/dispatch.c, and   *)
(* rtld_add_object, rtld_patch of client/rtld.c): the loop with its quick  *)
(* TLB, the tail dispatcher that translated code calls with a computed     *)
(* target, and the call sites with a constant target, which start as stubs *)
(* and are patched to jump straight to the code.  The object table is the  *)
(* partial map that module Rtld implements.                                *)
(*                                                                         *)
(* Translated code is external.  A block may return, dispatch to any       *)
(* address, or jump to one of the constants in it; with -callret each of   *)
(* the last two may also be a host call, after which the block goes on if  *)
(* the guest came back to the return address, and returns otherwise.       *)
(***************************************************************************)
EXTENDS Integers, Sequences

CONSTANTS
  Pcs,          \* guest addresses with code
  Static,       \* per guest address: the constant targets of its block
  TlbSize,      \* 1 << QUICK_TLB_BITS
  Lp64,         \* the RISC-V dispatcher; otherwise hhvm, regcall, aapcsx, cdecl
  Trace,        \* tc_print_trace
  Pic,          \* -pic
  Contract,     \* the symbol of an object denotes the requested address
  MayFail,      \* translation, linking or patching may fail
  MaxFrames     \* bound: host calls of translated code in progress

ASSUME DispatchAssumption ==
  /\ Pcs \subseteq Nat \ {0}
  /\ Static \in [Pcs -> SUBSET Pcs]
  /\ TlbSize \in Nat \ {0}
  /\ {Lp64, Trace, Pic, Contract, MayFail} \subseteq BOOLEAN

VARIABLES
  table,    \* the object table: guest address -> code
  links,    \* per code and constant target: where the call site jumps, 0 = stub
  tlb,      \* cpu_state->quick_tlb: pairs <<address, code>>
  host,     \* where the host is
  rpc,      \* the guest pc in the register of the calling convention
  patch,    \* the call site <<code, target>> that a stub reports
  code,     \* the translated block that runs, named by its guest address
  at,       \* the guest address at which code is running
  goal,     \* the guest address the program branched to last
  frames,   \* host frames: caller (0: the loop), return address, sret slot
  asked,    \* per guest address: how often it was translated
  traced,   \* the branch to goal was printed
  printed   \* the addresses of the trace so far

vars == <<table, links, tlb, host, rpc, patch, code, at, goal, frames, asked, traced, printed>>

----------------------------------------------------------------------------

(* What a guest branch may yield; address 0 has no code. *)
Targets == Pcs \union {0}

(* QUICK_TLB_HASH *)
Hash(a) == (a \div 16) % TlbSize

NoPatch == <<0, 0>>

(* What a fresh sret slot holds; other dispatchers have none. *)
Garbage == IF Lp64 THEN Targets ELSE {0}

(* rtld_elf_decode_name: 'S' is relative to the skew, which resolve_func   *)
(* sets to the requested address, 'Z' is absolute.                         *)
Decode(name, skew) == IF name.kind = "S" THEN name.num + skew ELSE name.num

(* Translate names the function "S" and its address in octal. *)
ServerName(a) == [kind |-> "S", num |-> a]

ObjectName(a) == IF Contract THEN [kind |-> "Z", num |-> a] ELSE ServerName(a)

(* FuncConstName in the block of address a. *)
FuncConstName(a, t) ==
  IF Pic THEN [kind |-> "S", num |-> t - a] ELSE [kind |-> "Z", num |-> t]

Init ==
  /\ table = <<>>
  /\ links = [c \in Pcs |-> [t \in Static[c] |-> 0]]
  /\ tlb = [h \in 0 .. TlbSize - 1 |-> <<0, 0>>]
  /\ host = "loop"
  /\ rpc \in Pcs
  /\ patch = NoPatch
  /\ code = 0 /\ at = 0
  /\ goal = rpc
  /\ \E v \in Garbage : frames = <<[caller |-> 0, expect |-> 0, slot |-> v]>>
  /\ asked = [a \in Targets |-> 0]
  /\ traced = FALSE /\ printed = {}

Enter(f) ==
  /\ host' = IF f = 0 THEN "fault" ELSE "run"
  /\ code' = f /\ at' = f

(* The host frames once v is stored to the sret slot of the running code. *)
Stored(v) == IF Lp64 THEN [frames EXCEPT ![1].slot = v] ELSE frames

----------------------------------------------------------------------------
(* resolve_func *)

(* Mutant: only the quick TLB is asked. *)
KnownQuick(a) == a # 0 /\ tlb[Hash(a)][1] = a

(* rtld_resolve *)
Known(a) == a \in DOMAIN table

(* rtld_add_object: relocations are resolved before the object's own       *)
(* address is set; that fails if the address is 0 or taken.                *)
AddedAs(a) == Decode(ObjectName(a), a)
AddedTo(a) ==
  [x \in DOMAIN table \union {AddedAs(a)} |-> IF x = AddedAs(a) THEN a ELSE table[x]]

AddedLinks(a) ==
  LET Link(t) == LET s == Decode(FuncConstName(a, t), a)
                 IN  IF s \in DOMAIN table THEN table[s] ELSE 0
  IN  [links EXCEPT ![a] = [t \in Static[a] |-> Link(t)]]

(* Mutant: the patch data names the block and not the call site. *)
PatchedAll(l, p, f) ==
  {IF p = NoPatch THEN l ELSE [l EXCEPT ![p[1]] = [t \in Static[p[1]] |-> f]]}

(* rtld_patch, which ignores a relocation that does not fit. *)
Patched(l, p, f) == {IF p = NoPatch THEN l ELSE [l EXCEPT ![p[1]][p[2]] = f]}
                      \union (IF MayFail THEN {l} ELSE {})

Exit ==
  /\ host' = "exited"
  /\ UNCHANGED <<table, links, tlb, rpc, code, at, frames, traced, printed>>

(* loop_detect_check ends the client at its SAME_BB_THRESHOLD-th repeat of *)
(* the block it saw last, which with sampling need not be the block before *)
(* this one.  Module LoopDetect counts; here each repeat may end it.       *)
LoopStops(a) == Trace /\ a \in printed

(* The way to code f at the end of resolve_func: the RISC-V tail dispatcher *)
(* returns to the frame it was entered from.                               *)
Proceed(f) ==
  IF Lp64 /\ host # "loop"
  THEN host' = "ret" /\ rpc' = frames[1].slot /\ UNCHANGED <<code, at>>
  ELSE Enter(f) /\ UNCHANGED rpc

(* Mutant: the quick TLB is updated also with tracing. *)
ResolvedQuick(a, p, l, f) ==
  /\ traced' = Trace /\ UNCHANGED printed
  /\ links' \in IF Trace THEN {l} ELSE Patched(l, p, f)
  /\ tlb' = [tlb EXCEPT ![Hash(a)] = <<a, f>>]
  /\ Proceed(f)
  /\ UNCHANGED frames

(* The end of resolve_func with code f for address a. *)
Resolved(a, p, l, f) ==
  /\ IF Trace
     THEN traced' = TRUE /\ printed' = printed \union {a} /\ links' = l /\ UNCHANGED tlb
     ELSE /\ links' \in Patched(l, p, f)
          /\ tlb' = [tlb EXCEPT ![Hash(a)] = <<a, f>>]
          /\ UNCHANGED <<traced, printed>>
  /\ \/ Proceed(f)
     \/ LoopStops(a) /\ host' = "stopped" /\ UNCHANGED <<rpc, code, at>>
  /\ UNCHANGED frames

resolve_func(a, p) ==
  /\ patch' = NoPatch /\ UNCHANGED goal
  /\ \/ Known(a) /\ Resolved(a, p, links, table[a]) /\ UNCHANGED <<table, asked>>
     \/ /\ ~Known(a)
        /\ asked' = [asked EXCEPT ![a] = @ + 1]
        /\ \/ /\ a # 0 /\ AddedAs(a) \notin DOMAIN table \union {0} /\ a \in DOMAIN AddedTo(a)
              /\ table' = AddedTo(a)
              /\ Resolved(a, p, AddedLinks(a), AddedTo(a)[a])
           \/ /\ \/ MayFail \/ a = 0 \/ AddedAs(a) \in DOMAIN table \union {0}
                 \/ a \notin DOMAIN AddedTo(a)
              /\ Exit

----------------------------------------------------------------------------
(* The dispatchers *)

(* Mutant: the tag is not compared. *)
HitAny(a) == tlb[Hash(a)][1] # 0

Hit(a) == tlb[Hash(a)][1] = a

(* The hot loop. *)
LoopHit ==
  /\ host = "loop" /\ Hit(rpc)
  /\ Enter(tlb[Hash(rpc)][2])
  /\ UNCHANGED <<table, links, tlb, rpc, patch, goal, frames, asked, traced, printed>>

(* Mutant: after the resolver the loop starts over, as if it had filled   *)
(* the quick TLB.                                                         *)
LoopMissRetries ==
  /\ host = "loop" /\ ~Hit(rpc) /\ Known(rpc) /\ Trace
  /\ traced' = TRUE
  /\ UNCHANGED <<table, links, tlb, host, rpc, patch, code, at, goal, frames, asked>>

LoopMiss == host = "loop" /\ ~Hit(rpc) /\ resolve_func(rpc, NoPatch)

(* The tail dispatcher; on RISC-V it saves the registers to the sret slot  *)
(* first.                                                                  *)
QuickEntry ==
  /\ host = "tail"
  /\ host' = "quick" /\ frames' = Stored(rpc)
  /\ UNCHANGED <<table, links, tlb, rpc, patch, code, at, goal, asked, traced, printed>>

QuickHit ==
  /\ host = "quick" /\ Hit(rpc)
  /\ Enter(tlb[Hash(rpc)][2])
  /\ UNCHANGED <<table, links, tlb, rpc, patch, goal, frames, asked, traced, printed>>

QuickMiss == host = "quick" /\ ~Hit(rpc) /\ resolve_func(rpc, NoPatch)

(* A stub enters the full dispatcher with its patch data. *)
StubMiss == host = "stub" /\ resolve_func(Decode(FuncConstName(patch[1], patch[2]), patch[1]), patch)

(* A return of translated code arrives in the loop or in the calling block. *)
Unwind ==
  /\ host = "ret"
  /\ LET top == frames[1]
     IN  \/ top.caller = 0 /\ host' = "loop" /\ UNCHANGED <<code, at, frames>>
         \/ /\ top.caller # 0 /\ rpc = top.expect
            /\ host' = "cont" /\ code' = top.caller /\ at' = rpc
            /\ frames' = Tail(frames)
         \/ /\ top.caller # 0 /\ rpc # top.expect
            /\ frames' = IF Lp64 THEN [Tail(frames) EXCEPT ![1].slot = rpc] ELSE Tail(frames)
            /\ UNCHANGED <<host, code, at>>
  /\ UNCHANGED <<table, links, tlb, rpc, patch, goal, asked, traced, printed>>

----------------------------------------------------------------------------
(* Translated code (external) *)

Running == host \in {"run", "cont"}

(* A tail call keeps the host frames, a call adds one with a new slot. *)
Pushed(e, v) == <<[caller |-> code, expect |-> e, slot |-> v]>> \o frames
Calls ==
  {frames} \union {Pushed(e, v) : e \in {a \in Pcs : Len(frames) <= MaxFrames}, v \in Garbage}

BlockReturns(t) ==
  /\ Running
  /\ goal' = t /\ rpc' = t /\ traced' = FALSE
  /\ host' = "ret" /\ frames' = Stored(t)
  /\ UNCHANGED <<table, links, tlb, patch, code, at, asked, printed>>

(* instrew_quick_dispatch with a computed target. *)
BlockDispatches(t) ==
  /\ Running
  /\ goal' = t /\ rpc' = t /\ traced' = FALSE
  /\ host' = "tail" /\ frames' \in Calls
  /\ UNCHANGED <<table, links, tlb, patch, code, at, asked, printed>>

(* A call site with a constant target; the pc register is undefined. *)
BlockJumps(t) ==
  /\ Running /\ t \in Static[code]
  /\ goal' = t /\ traced' = FALSE
  /\ frames' \in Calls
  /\ IF links[code][t] = 0
     THEN host' = "stub" /\ patch' = <<code, t>> /\ UNCHANGED <<code, at>>
     ELSE Enter(links[code][t]) /\ UNCHANGED patch
  /\ UNCHANGED <<table, links, tlb, rpc, asked, printed>>

----------------------------------------------------------------------------

Dispatcher ==
  LoopHit \/ LoopMiss \/ QuickEntry \/ QuickHit \/ QuickMiss \/ StubMiss \/ Unwind

Next ==
  \/ Dispatcher
  \/ \E t \in Targets : BlockReturns(t) \/ BlockDispatches(t)
  \/ \E t \in Pcs : BlockJumps(t)

Spec == Init /\ [][Next]_vars

(* The dispatchers are straight-line code; the guest may run for ever. *)
FairSpec == Spec /\ WF_vars(Dispatcher)

----------------------------------------------------------------------------

Frames == [caller : Targets, expect : Targets, slot : Targets]

(* The variables have their types, and a block that runs has a host frame   *)
(* to return to.                                                            *)
TypeOK ==
  /\ DOMAIN table \subseteq Int /\ \A a \in DOMAIN table : table[a] \in Pcs
  /\ DOMAIN links = Pcs
  /\ \A c \in Pcs : links[c] \in [Static[c] -> Targets]
  /\ tlb \in [0 .. TlbSize - 1 -> Targets \X Targets]
  /\ host \in {"loop", "tail", "quick", "stub", "ret", "run", "cont", "exited", "stopped",
             "fault"}
  /\ rpc \in Targets /\ code \in Targets /\ at \in Targets /\ goal \in Targets
  /\ patch \in Targets \X Targets
  /\ host = "stub" => patch[1] \in Pcs /\ patch[2] \in Static[patch[1]]
  /\ Running => code \in Pcs
  /\ frames \in Seq(Frames) /\ Len(frames) >= 1
  /\ asked \in [Targets -> Nat]
  /\ traced \in BOOLEAN /\ printed \subseteq Targets

(* The code that runs is the code of the address the guest branched to,    *)
(* whether it was reached from the loop, the tail dispatcher, a stub or a  *)
(* patched call site, or by a return to its caller.                        *)
RunsRightCode == Running => at = goal

(* The quick TLB and the patched call sites only know what the object      *)
(* table knows.                                                            *)
CachesCoherent ==
  /\ \A h \in 0 .. TlbSize - 1 :
       tlb[h][1] # 0 => tlb[h][1] \in DOMAIN table /\ tlb[h][2] = table[tlb[h][1]]
  /\ \A c \in Pcs : \A t \in Static[c] :
       links[c][t] # 0 => t \in DOMAIN table /\ links[c][t] = table[t]

(* An address is translated at most once, however control gets there. *)
TranslatedOnce == \A a \in Pcs : asked[a] <= 1

(* resolve_func finds the code of every address that has some; the loop    *)
(* detector, which ends the client elsewhere, is another matter.           *)
ResolvesCode == host = "exited" => goal = 0

(* With tracing every dispatch to a block was printed. *)
TraceComplete == Trace /\ host = "run" => traced

(* Every branch gets to code, or ends the program: resolve_func gives up,   *)
(* the loop detector stops a block that repeats, or the code is at 0.      *)
BranchesArrive == ~Running ~> Running \/ host \in {"exited", "stopped", "fault"}
==============================================================================
