-------------------------------- MODULE Arena --------------------------------
(***************************************************************************)
(* The bump allocator of the client (client/memory.c) that hands out the   *)
(* memory of the JIT code arena and of the data arena.  All guest threads  *)
(* of a client process share both arenas: brk is claimed by a lock-free    *)
(* compare-and-swap, while brkp, the end of the part backed by the         *)
(* operating system, moves under the spin lock mprotect_lock.              *)
(*                                                                         *)
(* A thread is a program counter over the atomic accesses of arena_alloc   *)
(* and arena_ensure_backed.  Addresses are abstract units.                 *)
(***************************************************************************)
EXTENDS Integers, Sequences

CONSTANTS
  Threads,          \* guest threads of the process
  Start, End,       \* the mmap'ed range of the arena, End exclusive
  PageSize,         \* getpagesize()
  MinAlign,         \* 0x40, the least alignment arena_alloc uses
  Sizes,            \* sizes callers ask for
  Alignments        \* alignments callers ask for

Pow2 == {2^k : k \in 0..16}

ASSUME ArenaAssumption ==
  /\ Start \in Nat /\ End \in Nat /\ Start <= End
  /\ PageSize \in Nat \ {0}
  /\ Start % PageSize = 0 /\ End % PageSize = 0
  /\ MinAlign \in Nat \ {0}
  /\ Sizes \subseteq Nat /\ Alignments \subseteq Nat

VARIABLES
  brk,      \* next free unit
  brkp,     \* end of the part that counts as backed
  lock,     \* mprotect_lock
  pc,       \* per thread: the next atomic access
  req,      \* per thread: size and alignment of the call in progress
  old,      \* per thread: old_brk, then cur_brkp
  result,   \* per thread: the region the call in progress will return
  allocs,   \* history: the non-empty regions claimed, in the order of the CAS
  backed,   \* units the operating system has made accessible
  refused   \* history: units it refused to, which brkp counts all the same

vars == <<brk, brkp, lock, pc, req, old, result, allocs, backed, refused>>

----------------------------------------------------------------------------

(* ALIGN_UP(v, a) of common.h, for a power of two: v moved up to the next *)
(* multiple of a.                                                         *)
AlignUp(v, a) == v + ((-v) % a)

EffectiveAlign(a) == IF a < MinAlign THEN MinAlign ELSE a

NeedEnd(t) == result[t] + req[t].size

Goto(t, l) == pc' = [pc EXCEPT ![t] = l]

NoReq == [size |-> 0, align |-> MinAlign]

(* A call ends and its local variables with it. *)
Return(t) ==
  /\ pc' = [pc EXCEPT ![t] = "idle"]
  /\ req' = [req EXCEPT ![t] = NoReq]
  /\ old' = [old EXCEPT ![t] = Start]
  /\ result' = [result EXCEPT ![t] = Start]

Init ==
  /\ brk = Start
  /\ brkp = Start
  /\ lock = 0
  /\ pc = [t \in Threads |-> "idle"]
  /\ req = [t \in Threads |-> NoReq]
  /\ old = [t \in Threads |-> Start]
  /\ result = [t \in Threads |-> Start]
  /\ allocs = <<>>
  /\ backed = {} /\ refused = {}

----------------------------------------------------------------------------
(* arena_alloc *)

(* An alignment that is not a power of two is answered with -EINVAL. *)
Call(t) ==
  \E size \in Sizes, align \in Alignments :
    /\ pc[t] = "idle"
    /\ EffectiveAlign(align) \in Pow2
    /\ req' = [req EXCEPT ![t] = [size |-> size, align |-> EffectiveAlign(align)]]
    /\ Goto(t, "load")
    /\ UNCHANGED <<brk, brkp, lock, old, result, allocs, backed, refused>>

(* Mutant: a full arena sends the call round the loop once more. *)
LoadBrkRetries(t) ==
  /\ pc[t] = "load"
  /\ LET base == AlignUp(brk, req[t].align)
     IN  IF base + req[t].size > End
         THEN UNCHANGED <<old, result, pc, req>>
         ELSE /\ old' = [old EXCEPT ![t] = brk]
              /\ result' = [result EXCEPT ![t] = base]
              /\ Goto(t, "cas")
              /\ UNCHANGED req
  /\ UNCHANGED <<brk, brkp, lock, allocs, backed, refused>>

(* A region that would pass the end is answered with -ENOMEM. *)
LoadBrk(t) ==
  /\ pc[t] = "load"
  /\ LET base == AlignUp(brk, req[t].align)
     IN  IF base + req[t].size > End
         THEN Return(t)
         ELSE /\ old' = [old EXCEPT ![t] = brk]
              /\ result' = [result EXCEPT ![t] = base]
              /\ Goto(t, "cas")
              /\ UNCHANGED req
  /\ UNCHANGED <<brk, brkp, lock, allocs, backed, refused>>

(* Mutant: a plain store instead of the exchange. *)
CasSucceedsBlindly(t) ==
  /\ pc[t] = "cas"
  /\ brk' = NeedEnd(t)
  /\ allocs' = IF req[t].size = 0 THEN allocs
               ELSE Append(allocs, [base |-> result[t], size |-> req[t].size,
                                    align |-> req[t].align])
  /\ Goto(t, "check")
  /\ UNCHANGED <<brkp, lock, req, old, result, backed, refused>>

CasSucceeds(t) ==
  /\ pc[t] = "cas"
  /\ brk = old[t]
  /\ brk' = NeedEnd(t)
  /\ allocs' = IF req[t].size = 0 THEN allocs
               ELSE Append(allocs, [base |-> result[t], size |-> req[t].size,
                                    align |-> req[t].align])
  /\ Goto(t, "check")
  /\ UNCHANGED <<brkp, lock, req, old, result, backed, refused>>

(* The exchange is a weak one: it may fail even though brk = old_brk. *)
CasFails(t) ==
  /\ pc[t] = "cas"
  /\ Goto(t, "load")
  /\ UNCHANGED <<brk, brkp, lock, req, old, result, allocs, backed, refused>>

----------------------------------------------------------------------------
(* arena_ensure_backed *)

FastCheck(t) ==
  /\ pc[t] = "check"
  /\ IF NeedEnd(t) <= brkp THEN Return(t)
                           ELSE Goto(t, "lock") /\ UNCHANGED <<req, old, result>>
  /\ UNCHANGED <<brk, brkp, lock, allocs, backed, refused>>

Lock(t) ==
  /\ pc[t] = "lock"
  /\ lock = 0
  /\ lock' = 1
  /\ Goto(t, "recheck")
  /\ UNCHANGED <<brk, brkp, req, old, result, allocs, backed, refused>>

(* Mutant: brkp is published before the call of mprotect. *)
RecheckPublishes(t) ==
  /\ pc[t] = "recheck"
  /\ old' = [old EXCEPT ![t] = brkp]
  /\ Goto(t, IF NeedEnd(t) > brkp THEN "mprotect" ELSE "unlock")
  /\ brkp' = IF NeedEnd(t) > brkp THEN brkp + AlignUp(NeedEnd(t) - brkp, PageSize)
                                  ELSE brkp
  /\ UNCHANGED <<brk, lock, req, result, allocs, backed, refused>>

Recheck(t) ==
  /\ pc[t] = "recheck"
  /\ old' = [old EXCEPT ![t] = brkp]
  /\ Goto(t, IF NeedEnd(t) > brkp THEN "mprotect" ELSE "unlock")
  /\ UNCHANGED <<brk, brkp, lock, req, result, allocs, backed, refused>>

(* cur_brkp + newpgsz *)
NewBrkp(t) == old[t] + AlignUp(NeedEnd(t) - old[t], PageSize)

(* The result of mprotect is not looked at. *)
Mprotect(t) ==
  /\ pc[t] = "mprotect"
  /\ \/ backed' = backed \union (old[t] .. NewBrkp(t) - 1) /\ UNCHANGED refused
     \/ refused' = refused \union (old[t] .. NewBrkp(t) - 1) /\ UNCHANGED backed
  /\ Goto(t, "publish")
  /\ UNCHANGED <<brk, brkp, lock, req, old, result, allocs>>

PublishBrkp(t) ==
  /\ pc[t] = "publish"
  /\ brkp' = NewBrkp(t)
  /\ Goto(t, "unlock")
  /\ UNCHANGED <<brk, lock, req, old, result, allocs, backed, refused>>

(* Mutant: the lock is not released. *)
UnlockForgotten(t) ==
  /\ pc[t] = "unlock"
  /\ Return(t)
  /\ UNCHANGED <<brk, brkp, lock, allocs, backed, refused>>

Unlock(t) ==
  /\ pc[t] = "unlock"
  /\ lock' = 0
  /\ Return(t)
  /\ UNCHANGED <<brk, brkp, allocs, backed, refused>>

----------------------------------------------------------------------------
(* The fork path of handle_clone, seen from the child process: it has a    *)
(* copy of the whole address space, lock word included, and the calling    *)
(* thread only.                                                            *)

Fork(t) ==
  /\ pc[t] = "idle"
  /\ \E u \in Threads \ {t} : pc[u] # "gone"
  /\ pc' = [u \in Threads |-> IF u = t THEN "idle" ELSE "gone"]
  /\ UNCHANGED <<brk, brkp, lock, req, old, result, allocs, backed, refused>>

----------------------------------------------------------------------------

Step(t) ==
  \/ LoadBrk(t) \/ CasSucceeds(t) \/ CasFails(t)
  \/ FastCheck(t) \/ Lock(t) \/ Recheck(t)
  \/ Mprotect(t) \/ PublishBrkp(t) \/ Unlock(t)

Next == \E t \in Threads : Call(t) \/ Step(t) \/ Fork(t)

Spec == Init /\ [][Next]_vars

(* The hardware lets a running thread go on, and neither the weak exchange *)
(* nor the spin on the lock loses for ever.                               *)
Fairness(t) ==
  /\ WF_vars(Step(t))
  /\ SF_vars(CasSucceeds(t))
  /\ SF_vars(Lock(t))

FairSpec == Spec /\ \A t \in Threads : Fairness(t)

----------------------------------------------------------------------------
(* What the allocator promises: every claim is a fresh, aligned region of  *)
(* the arena.                                                              *)

Promise == INSTANCE Allocator WITH regions <- allocs

(* Under every interleaving of the CAS loops of arena_alloc the claims are *)
(* those of an allocator that hands out fresh aligned regions one at a     *)
(* time.                                                                   *)
ImplementsAllocator == Promise!Spec

Claiming == {"check", "lock", "recheck", "mprotect", "publish", "unlock"}
Critical == {"recheck", "mprotect", "publish", "unlock"}

(* The variables have their types: brk, brkp and every claim stay inside   *)
(* the mapped range.                                                       *)
TypeOK ==
  /\ brk \in Start .. End
  /\ brkp \in Start .. End
  /\ lock \in {0, 1}
  /\ pc \in [Threads -> {"idle", "load", "cas", "gone"} \union Claiming]
  /\ req \in [Threads -> [size : Sizes \union {0},
                           align : (Alignments \union {MinAlign}) \ {0}]]
  /\ old \in [Threads -> Start .. End]
  /\ result \in [Threads -> Start .. End]
  /\ allocs \in Seq([base : Start .. End, size : Sizes,
                     align : (Alignments \union {MinAlign}) \ {0}])
  /\ backed \subseteq Start .. End - 1 /\ refused \subseteq Start .. End - 1

(* Two regions that arena_alloc claimed never overlap, whatever the        *)
(* interleaving of the CAS loops.                                          *)
Disjoint ==
  \A i, j \in DOMAIN allocs :
    i < j => allocs[i].base + allocs[i].size <= allocs[j].base

(* A pointer that arena_alloc returned can be written: every unit of the   *)
(* region is backed, also when another thread moved brkp in between,       *)
(* unless the operating system refused a page of the region itself.        *)
BackedOnReturn ==
  [][\A t \in Threads : pc[t] \in {"check", "unlock"} /\ pc'[t] = "idle"
       => result[t] .. NeedEnd(t) - 1 \subseteq backed' \union refused']_vars

(* brkp never promises a page that no mprotect was asked to back.          *)
BrkpIsBacked == Start .. brkp - 1 \subseteq backed \union refused

(* At most one thread is between taking and releasing mprotect_lock.       *)
MutualExclusion ==
  \A t, u \in Threads : pc[t] \in Critical /\ pc[u] \in Critical => t = u

(* mprotect_lock is "only held during mprotect": a set lock word has a     *)
(* thread that will clear it (the comment on the field in memory.c), or    *)
(* was copied by a fork.                                                   *)
HeldOnlyDuringMprotect ==
  lock = 1 => \E t \in Threads : pc[t] \in Critical \union {"gone"}

(* The bump pointer and the backed part only grow, and a thread that does  *)
(* not hold the lock never moves brkp.                                     *)
OnlyGrows ==
  [][/\ brk <= brk' /\ brkp <= brkp' /\ backed \subseteq backed'
     /\ (brkp # brkp' => lock = 1)]_vars

(* Every call of arena_alloc returns, in a process that was not forked     *)
(* from one with several threads.                                          *)
EveryCallReturns ==
  \A t \in Threads : pc[t] # "idle" ~> pc[t] = "idle" \/ \E u \in Threads : pc[u] = "gone"
==============================================================================
