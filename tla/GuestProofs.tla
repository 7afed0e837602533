---------------------------- MODULE GuestProofs ------------------------------
(***************************************************************************)
(* Proofs about what runs the guest:                                       *)
(*   - Dispatch, for every guest program, size of the quick TLB and depth  *)
(*     of host calls;                                                      *)
(*   - Signals, for any number of threads and signals and whatever the     *)
(*     guest and the host do.                                              *)
(***************************************************************************)
EXTENDS Dispatch, Signals, TLAPS

------------------------------------------------------------------------------
(* Dispatch *)

(* The host frames end in the frame of the loop, and only there. *)
Good(fs) ==
  /\ fs \in Seq(Frames) /\ Len(fs) >= 1
  /\ \A k \in 1 .. Len(fs) : fs[k].caller = 0 <=> k = Len(fs)

(* Saving the registers to the sret slot keeps the frames. *)
LEMMA GoodStore ==
  ASSUME NEW fs, Good(fs), NEW v \in Targets
  PROVE  Good([fs EXCEPT ![1].slot = v]) /\ [fs EXCEPT ![1].slot = v][1].slot = v
<1> DEFINE gs == [fs EXCEPT ![1].slot = v]
<1>1. fs \in Seq(Frames) /\ Len(fs) \in Nat /\ Len(fs) >= 1 /\ DOMAIN fs = 1 .. Len(fs)
  BY DEF Good
<1>2. \A k \in 1 .. Len(fs) : fs[k] \in Frames
  BY <1>1
<1>3. [fs[1] EXCEPT !.slot = v] \in Frames /\ [fs[1] EXCEPT !.slot = v].caller = fs[1].caller
      /\ [fs[1] EXCEPT !.slot = v].slot = v
  BY <1>1, <1>2 DEF Frames
<1>4. gs = [fs EXCEPT ![1] = [fs[1] EXCEPT !.slot = v]]
  BY <1>1, Zenon
<1> HIDE DEF gs
<1>5. gs \in Seq(Frames) /\ Len(gs) = Len(fs)
  BY <1>1, <1>3, <1>4
<1>6. \A k \in 1 .. Len(gs) : gs[k].caller = fs[k].caller
  BY <1>1, <1>3, <1>4, <1>5, Zenon
<1> QED BY <1>1, <1>3, <1>4, <1>5, <1>6 DEF Good, gs

(* A return to a calling block leaves its frames. *)
LEMMA GoodTail ==
  ASSUME NEW fs, Good(fs), fs[1].caller # 0
  PROVE  Good(Tail(fs))
<1> DEFINE t == Tail(fs)
           n == Len(fs)
<1>1. fs \in Seq(Frames) /\ n \in Nat /\ n > 1
  BY DEF Good
<1>2. t \in Seq(Frames) /\ Len(t) = n - 1 /\ \A k \in 1 .. n - 1 : t[k] = fs[k + 1]
  BY <1>1
<1>3. \A k \in 1 .. n : fs[k].caller = 0 <=> k = n
  BY Zenon DEF Good
<1> HIDE DEF t, n
<1>4. ASSUME NEW k \in 1 .. n - 1 PROVE t[k].caller = 0 <=> k = n - 1
  <2>1. k + 1 \in 1 .. n /\ t[k] = fs[k + 1]
    BY <1>1, <1>2
  <2>2. fs[k + 1].caller = 0 <=> k + 1 = n
    BY <1>3, <2>1, Zenon
  <2>3. t[k].caller = 0 <=> k + 1 = n
    BY <2>1, <2>2, Zenon
  <2>4. k + 1 = n <=> k = n - 1
    BY <1>1
  <2> QED BY <2>3, <2>4, Zenon
<1>5. Good(t)
  BY <1>1, <1>2, <1>4 DEF Good
<1> QED BY <1>5, Zenon DEF t

(* A host call of translated code adds a frame of its own. *)
LEMMA GoodPush ==
  ASSUME NEW fs, Good(fs), NEW r \in Frames, r.caller # 0
  PROVE  Good(<<r>> \o fs)
<1>1. fs \in Seq(Frames) /\ Len(fs) \in Nat /\ Len(fs) >= 1 /\ <<r>> \in Seq(Frames)
  BY DEF Good
<1>2. <<r>> \o fs \in Seq(Frames) /\ Len(<<r>> \o fs) = Len(fs) + 1
      /\ (<<r>> \o fs)[1] = r
      /\ \A k \in 2 .. Len(fs) + 1 : (<<r>> \o fs)[k] = fs[k - 1]
  BY <1>1
<1> QED BY <1>1, <1>2 DEF Good

(* The symbol of a constant target denotes the target, with -pic or not. *)
LEMMA ConstTarget ==
  ASSUME NEW c \in Targets, NEW t \in Targets
  PROVE  Decode(FuncConstName(c, t), c) = t
<1>1. c \in Nat /\ t \in Nat
  BY DispatchAssumption DEF Targets
<1> QED BY <1>1 DEF Decode, FuncConstName

(* Every address has a slot of the quick TLB. *)
LEMMA HashInTlb ==
  ASSUME NEW a \in Targets
  PROVE  Hash(a) \in 0 .. TlbSize - 1
<1>1. a \in Nat /\ TlbSize \in Nat \ {0}
  BY DispatchAssumption DEF Targets
<1> QED BY <1>1 DEF Hash

----------------------------------------------------------------------------
(* Types *)

Typed == TypeOK /\ Good(frames)

Linkage(l) == DOMAIN l = Pcs /\ \A c \in Pcs : l[c] \in [Static[c] -> Targets]

Site(p) == p = NoPatch \/ (p[1] \in Pcs /\ p[2] \in Static[p[1]])

(* The first states are typed. *)
LEMMA InitTyped == Init => Typed
<1> SUFFICES ASSUME Init PROVE Typed
  BY Zenon
<1>1. PICK v \in Garbage : frames = <<[caller |-> 0, expect |-> 0, slot |-> v]>>
  BY Zenon DEF Init
<1>2. v \in Targets /\ 0 \in Targets /\ \A a \in Pcs : a \in Targets
  BY Zenon DEF Garbage, Targets
<1>3. [caller |-> 0, expect |-> 0, slot |-> v] \in Frames
  BY <1>2, Zenon DEF Frames
<1>4. Good(frames)
  BY <1>1, <1>3 DEF Good
<1>5. tlb \in [0 .. TlbSize - 1 -> Targets \X Targets] /\ patch \in Targets \X Targets
  BY <1>2, Zenon DEF Init, NoPatch
<1>6. DOMAIN table = {} /\ DOMAIN links = Pcs /\ \A c \in Pcs : links[c] \in [Static[c] -> Targets]
  BY <1>2 DEF Init
<1>7. TypeOK
  BY <1>2, <1>4, <1>5, <1>6, Zenon DEF Init, TypeOK, Running, Good
<1> QED BY <1>4, <1>7, Zenon DEF Typed

(* rtld_patch writes code to a call site. *)
LEMMA PatchedLinkage ==
  ASSUME NEW l, Linkage(l), NEW p, Site(p), NEW f \in Targets, NEW m \in Patched(l, p, f)
  PROVE  Linkage(m)
<1>1. CASE m = l
  BY <1>1, Zenon
<1>2. CASE m # l
  <2>1. p # NoPatch /\ m = [l EXCEPT ![p[1]][p[2]] = f]
    BY <1>2, Zenon DEF Patched
  <2>2. p[1] \in Pcs /\ p[2] \in Static[p[1]]
    BY <2>1, Zenon DEF Site
  <2> QED BY <2>1, <2>2, Zenon DEF Linkage
<1> QED BY <1>1, <1>2, Zenon

(* What the end of resolve_func does to the types. *)
LEMMA ResolvedTyped ==
  ASSUME Typed, NEW a \in Targets, NEW p, Site(p), NEW l, Linkage(l), NEW f \in Pcs,
         Resolved(a, p, l, f), patch' = NoPatch, goal' = goal,
         DOMAIN table' \subseteq Int, \A x \in DOMAIN table' : table'[x] \in Pcs,
         asked' \in [Targets -> Nat]
  PROVE  Typed'
<1>1. f \in Targets /\ 0 \in Targets /\ f # 0
  BY DispatchAssumption, Zenon DEF Targets
<1>2. Linkage(links')
  BY <1>1, PatchedLinkage, Zenon DEF Resolved
<1>3. /\ tlb' \in [0 .. TlbSize - 1 -> Targets \X Targets] /\ traced' \in BOOLEAN
      /\ printed' \subseteq Targets
  <2>1. /\ tlb \in [0 .. TlbSize - 1 -> Targets \X Targets] /\ traced \in BOOLEAN
        /\ printed \subseteq Targets
    BY Zenon DEF Typed, TypeOK
  <2>2. <<a, f>> \in Targets \X Targets
    BY <1>1, Zenon
  <2>3. CASE Trace
    BY <2>1, <2>3, Zenon DEF Resolved
  <2>4. CASE ~Trace
    BY <2>1, <2>2, <2>4, Zenon DEF Resolved
  <2> QED BY <2>3, <2>4, Zenon
<1>4. frames' = frames /\ frames[1].slot \in Targets
  <2>1. frames[1] \in Frames
    BY DEF Typed, Good
  <2> QED BY <2>1, Zenon DEF Resolved, Frames
<1>5. /\ rpc' \in Targets /\ code' \in Targets /\ at' \in Targets
      /\ host' \in {"ret", "run", "stopped"} /\ (host' = "run" => code' \in Pcs)
  <2>1. CASE Proceed(f)
    BY <1>1, <1>4, <2>1, Zenon DEF Proceed, Enter, Typed, TypeOK
  <2>2. CASE host' = "stopped" /\ UNCHANGED <<rpc, code, at>>
    BY <2>2, Zenon DEF Typed, TypeOK
  <2> QED BY <2>1, <2>2, Zenon DEF Resolved
<1>6. TypeOK'
  BY <1>1, <1>2, <1>3, <1>4, <1>5, Zenon DEF TypeOK, Typed, Linkage, Running, NoPatch
<1>7. Good(frames)'
  BY <1>4, Zenon DEF Typed, Good
<1> QED BY <1>6, <1>7, Zenon DEF Typed

(* Guest addresses are integers. *)
LEMMA PcsAreIntegers == ASSUME NEW a \in Pcs PROVE a \in Int
<1>1. a \in Nat
  BY DispatchAssumption, Zenon
<1> QED BY <1>1

(* resolve_func keeps the types. *)
LEMMA ResolveTyped ==
  ASSUME Typed, NEW a \in Targets, NEW p, Site(p), resolve_func(a, p)
  PROVE  Typed'
<1>0. Linkage(links)
  BY Zenon DEF Typed, TypeOK, Linkage
<1>1. asked' \in [Targets -> Nat]
  <2>1. asked \in [Targets -> Nat]
    BY Zenon DEF Typed, TypeOK
  <2>2. CASE asked' = asked
    BY <2>1, <2>2, Zenon
  <2>3. CASE asked' = [asked EXCEPT ![a] = @ + 1]
    BY <2>1, <2>3
  <2> QED BY <2>2, <2>3, Zenon DEF resolve_func
<1>2. CASE Known(a) /\ Resolved(a, p, links, table[a]) /\ UNCHANGED <<table, asked>>
  <2>1. table[a] \in Pcs
    BY <1>2, Zenon DEF Known, Typed, TypeOK
  <2> QED BY <1>0, <1>1, <1>2, <2>1, ResolvedTyped, Zenon DEF resolve_func, Typed, TypeOK
<1>3. CASE /\ a # 0 /\ a \in DOMAIN AddedTo(a) /\ table' = AddedTo(a)
           /\ Resolved(a, p, AddedLinks(a), AddedTo(a)[a]) /\ ~Known(a)
  <2>0. a \in Pcs
    BY <1>3, Zenon DEF Targets
  <2>1. a \in Pcs /\ a \in Int
    BY <2>0, PcsAreIntegers, Zenon
  <2>2. AddedAs(a) \in Int
    BY <2>1 DEF AddedAs, Decode, ObjectName, ServerName
  <2>3. /\ DOMAIN AddedTo(a) \subseteq Int
        /\ \A x \in DOMAIN AddedTo(a) : AddedTo(a)[x] \in Pcs
    BY <2>1, <2>2, Zenon DEF AddedTo, Typed, TypeOK
  <2>4. Linkage(AddedLinks(a))
    BY <1>0, <2>1, Zenon DEF AddedLinks, Linkage, Typed, TypeOK, Targets
  <2> QED BY <1>1, <1>3, <2>3, <2>4, ResolvedTyped, Zenon DEF resolve_func
<1>4. CASE Exit
  BY <1>1, <1>4, Zenon DEF Exit, resolve_func, Typed, TypeOK, Good, Running, NoPatch, Targets
<1> QED BY <1>2, <1>3, <1>4, Zenon DEF resolve_func

(* Every step of a dispatcher and of translated code keeps the types. *)
LEMMA StepTyped == Typed /\ [Next]_vars => Typed'
<1> SUFFICES ASSUME Typed, [Next]_vars PROVE Typed'
  BY Zenon
<1>0. /\ TypeOK /\ Good(frames) /\ 0 \in Targets
      /\ \A a \in Pcs : a \in Targets /\ a # 0
  BY DispatchAssumption, Zenon DEF Typed, Targets
<1>1. CASE UNCHANGED vars
  BY <1>0, <1>1, Zenon DEF vars, Typed, TypeOK, Good, Running
<1>2. CASE LoopHit \/ QuickHit
  <2>1. tlb[Hash(rpc)] \in Targets \X Targets
    BY <1>0, HashInTlb, Zenon DEF TypeOK
  <2>2. tlb[Hash(rpc)][2] \in Targets
    BY <2>1, Zenon
  <2>3. /\ UNCHANGED <<table, links, tlb, rpc, patch, goal, frames, asked, traced, printed>>
        /\ Enter(tlb[Hash(rpc)][2])
    BY <1>2, Zenon DEF LoopHit, QuickHit
  <2> QED BY <1>0, <2>2, <2>3, Zenon DEF Enter, Typed, TypeOK, Good, Running, Targets
<1>3. CASE LoopMiss \/ QuickMiss
  BY <1>0, <1>3, ResolveTyped, Zenon DEF LoopMiss, QuickMiss, TypeOK, Site
<1>4. CASE StubMiss
  <2>1. patch[1] \in Pcs /\ patch[2] \in Static[patch[1]]
    BY <1>4, Zenon DEF StubMiss, Typed, TypeOK
  <2>2. patch[2] \in Pcs
    BY <2>1, DispatchAssumption, Zenon
  <2>3. Decode(FuncConstName(patch[1], patch[2]), patch[1]) = patch[2]
    BY <1>0, <2>1, <2>2, ConstTarget, Zenon
  <2>4. resolve_func(patch[2], patch)
    BY <1>4, <2>3, Zenon DEF StubMiss
  <2> QED BY <1>0, <2>1, <2>2, <2>4, ResolveTyped, Zenon DEF Site
<1>5. CASE QuickEntry
  <2>1. Good(Stored(rpc))
    BY <1>0, GoodStore, Zenon DEF Stored, TypeOK
  <2>2. Good(frames)'
    BY <1>5, <2>1, Zenon DEF QuickEntry
  <2> QED BY <1>0, <1>5, <2>2, Zenon DEF QuickEntry, Typed, TypeOK, Good, Running
<1>6. CASE Unwind
  <2>a. frames \in Seq(Frames) /\ Len(frames) >= 1
    BY <1>0, Zenon DEF Good
  <2>b. frames[1] \in Frames
    BY <2>a
  <2>0. frames[1].caller \in Targets
    BY <2>b, Zenon DEF Frames
  <2>1. Good(frames')
    <3>1. CASE frames' = frames
      BY <1>0, <3>1, Zenon
    <3>2. CASE frames[1].caller # 0 /\ frames' = Tail(frames)
      BY <1>0, <3>2, GoodTail, Zenon
    <3>3. CASE frames[1].caller # 0 /\ frames' = [Tail(frames) EXCEPT ![1].slot = rpc]
      BY <1>0, <3>3, GoodTail, GoodStore, Zenon DEF TypeOK
    <3> QED BY <1>6, <3>1, <3>2, <3>3, Zenon DEF Unwind
  <2>2. Good(frames)'
    BY <2>1, Zenon
  <2>3. /\ host' \in {"loop", "cont", "ret"} /\ code' \in Targets /\ at' \in Targets
        /\ (host' = "cont" => code' \in Pcs)
    BY <1>0, <1>6, <2>0, Zenon DEF Unwind, TypeOK, Targets
  <2> QED BY <1>0, <1>6, <2>2, <2>3, Zenon DEF Unwind, Typed, TypeOK, Good, Running
<1>7. ASSUME Running, NEW fs \in Calls PROVE Good(fs)
  <2>1. CASE fs = frames
    BY <1>0, <2>1, Zenon
  <2>2. CASE fs # frames
    <3>1. PICK e \in Pcs, v \in Garbage :
            fs = Pushed(e, v)
      BY <1>7, <2>2 DEF Calls
    <3>2. [caller |-> code, expect |-> e, slot |-> v] \in Frames /\ code # 0
      BY <1>0, <1>7, <3>1, Zenon DEF Frames, TypeOK, Garbage
    <3> QED BY <1>0, <3>1, <3>2, GoodPush, Zenon DEF Pushed
  <2> QED BY <2>1, <2>2, Zenon
<1>8. ASSUME NEW t \in Targets, BlockReturns(t) PROVE Typed'
  <2>1. Good(Stored(t))
    BY <1>0, GoodStore, Zenon DEF Stored
  <2>2. Good(frames)'
    BY <1>8, <2>1, Zenon DEF BlockReturns
  <2> QED BY <1>0, <1>8, <2>2, Zenon DEF BlockReturns, Typed, TypeOK, Good, Running
<1>9. ASSUME NEW t \in Targets, BlockDispatches(t) PROVE Typed'
  <2>1. Good(frames)'
    BY <1>7, <1>9, Zenon DEF BlockDispatches
  <2> QED BY <1>0, <1>9, <2>1, Zenon DEF BlockDispatches, Typed, TypeOK, Good, Running
<1>10. ASSUME NEW t \in Pcs, BlockJumps(t) PROVE Typed'
  <2>1. Good(frames)' /\ code \in Pcs /\ t \in Static[code] /\ links[code][t] \in Targets
    BY <1>0, <1>7, <1>10, Zenon DEF BlockJumps, TypeOK
  <2>2. CASE links[code][t] = 0
    <3>1. /\ host' = "stub" /\ patch' = <<code, t>> /\ goal' = t /\ traced' = FALSE
          /\ UNCHANGED <<code, at, table, links, tlb, rpc, asked, printed>>
      BY <1>10, <2>2, Zenon DEF BlockJumps
    <3>2. patch' \in Targets \X Targets /\ patch'[1] \in Pcs /\ patch'[2] \in Static[patch'[1]]
      BY <1>0, <2>1, <3>1, Zenon
    <3>3. frames' \in Seq(Frames) /\ Len(frames') >= 1
      BY <2>1, Zenon DEF Good
    <3>4. TypeOK'
      BY <1>0, <3>1, <3>2, <3>3, Zenon DEF TypeOK, Running
    <3> QED BY <2>1, <3>4, Zenon DEF Typed
  <2>3. CASE links[code][t] # 0
    BY <1>0, <1>10, <2>1, <2>3, Zenon DEF BlockJumps, Enter, Typed, TypeOK, Good, Running, Targets
  <2> QED BY <2>2, <2>3, Zenon
<1> QED BY <1>1, <1>2, <1>3, <1>4, <1>5, <1>6, <1>8, <1>9, <1>10, Zenon DEF Next, Dispatcher

(* The variables keep their types in every dispatcher, and no return finds  *)
(* the host frames empty.                                                   *)
THEOREM TypeCorrect == Spec => []TypeOK
<1>1. Typed => TypeOK
  BY Zenon DEF Typed
<1> QED BY <1>1, InitTyped, StepTyped, PTL DEF Spec

----------------------------------------------------------------------------
(* The right code *)

(* Server and client agree on names, and the RISC-V dispatcher is not      *)
(* entered from a stub, as without -callret.                               *)
Sound == Contract /\ (Lp64 => \A c \in Pcs : Static[c] = {})

(* What the table, the quick TLB and the call sites know is the code of    *)
(* the address they know it for.                                           *)
Named(T) == \A a \in DOMAIN T : a \in Pcs /\ T[a] = a
Caching(T, q) ==
  \A h \in 0 .. TlbSize - 1 : q[h][1] = q[h][2] /\ (q[h][1] # 0 => q[h][1] \in DOMAIN T)
Linking(T, l) ==
  \A c \in Pcs : \A t \in Static[c] : l[c][t] # 0 => t \in DOMAIN T /\ l[c][t] = t

(* Where the guest goes next is where it branched to. *)
Heading ==
  /\ host \in {"loop", "tail", "quick", "ret"} => rpc = goal
  /\ host = "stub" => patch[2] = goal /\ ~Lp64
  /\ Running => at = goal
  /\ Lp64 /\ host = "quick" => frames[1].slot = rpc

(* What was translated is in the table, unless the program has ended. *)
Once ==
  \A a \in Pcs :
    asked[a] = 0 \/ (asked[a] = 1 /\ (a \in DOMAIN table \/ host = "exited"))

Inv ==
  /\ Typed
  /\ Named(table) /\ Caching(table, tlb) /\ Linking(table, links)
  /\ Heading
  /\ Once

(* Nothing is known at first. *)
LEMMA InitInv == Init => Inv
<1> SUFFICES ASSUME Init PROVE Inv
  BY Zenon
<1>1. Typed
  BY InitTyped, Zenon
<1>2. Named(table) /\ Caching(table, tlb) /\ Linking(table, links)
  BY DEF Init, Named, Caching, Linking
<1>3. Heading
  BY Zenon DEF Init, Heading, Running
<1>4. Once
  BY Zenon DEF Init, Once, Targets
<1> QED BY <1>1, <1>2, <1>3, <1>4, Zenon DEF Inv

(* A larger table, the entry of an address in the quick TLB and the patch  *)
(* of a call site, as at the end of resolve_func.                          *)
LEMMA ResolvedRight ==
  ASSUME Inv, NEW a \in Pcs, NEW p, Site(p), p = NoPatch \/ p[2] = a,
         NEW l, Linkage(l), Resolved(a, p, l, a), goal = a,
         host \in {"loop", "quick", "stub"},
         Named(table'), DOMAIN table \subseteq DOMAIN table', a \in DOMAIN table',
         Linking(table', l), goal' = goal
  PROVE  Caching(table', tlb') /\ Linking(table', links') /\ Heading'
<1>0. a \in Targets /\ a # 0
  BY DispatchAssumption, Zenon DEF Targets
<1>1. Caching(table', tlb')
  <2>1. Caching(table', tlb)
    BY Zenon DEF Inv, Caching
  <2>2. CASE Trace
    BY <2>1, <2>2, Zenon DEF Resolved
  <2>3. CASE ~Trace
    <3>1. tlb' = [tlb EXCEPT ![Hash(a)] = <<a, a>>] /\ DOMAIN tlb = 0 .. TlbSize - 1
      BY <2>3, Zenon DEF Resolved, Inv, Typed, TypeOK
    <3>2. ASSUME NEW h \in 0 .. TlbSize - 1
          PROVE  tlb'[h][1] = tlb'[h][2] /\ (tlb'[h][1] # 0 => tlb'[h][1] \in DOMAIN table')
      <4>1. CASE h = Hash(a)
        <5>1. tlb'[h] = <<a, a>>
          BY <3>1, <4>1, Zenon
        <5> QED BY <5>1
      <4>2. CASE h # Hash(a)
        <5>1. tlb'[h] = tlb[h]
          BY <3>1, <4>2, Zenon
        <5> QED BY <2>1, <5>1, Zenon DEF Caching
      <4> QED BY <4>1, <4>2, Zenon
    <3> QED BY <3>2, Zenon DEF Caching
  <2> QED BY <2>2, <2>3, Zenon
<1>2. Linking(table', links')
  <2>1. CASE links' = l
    BY <2>1, Zenon
  <2>2. CASE links' # l
    <3>1. p # NoPatch /\ links' = [l EXCEPT ![p[1]][p[2]] = a]
      BY <2>2, Zenon DEF Resolved, Patched
    <3>2. p[1] \in Pcs /\ p[2] \in Static[p[1]] /\ p[2] = a
      BY <3>1, Zenon DEF Site
    <3>3. ASSUME NEW c \in Pcs, NEW t \in Static[c], links'[c][t] # 0
          PROVE  t \in DOMAIN table' /\ links'[c][t] = t
      <4>1. CASE c = p[1] /\ t = p[2]
        BY <3>1, <3>2, <4>1, Zenon DEF Linkage
      <4>2. CASE ~(c = p[1] /\ t = p[2])
        <5>1. links'[c][t] = l[c][t]
          BY <3>1, <3>2, <4>2, Zenon DEF Linkage
        <5> QED BY <3>3, <5>1, Zenon DEF Linking
      <4> QED BY <4>1, <4>2, Zenon
    <3> QED BY <3>3, Zenon DEF Linking
  <2> QED BY <2>1, <2>2, Zenon
<1>3. Heading'
  <2>1. CASE Lp64 /\ host # "loop"
    <3>1. host = "quick" /\ frames[1].slot = goal
      BY <2>1, Zenon DEF Inv, Heading
    <3>2. \/ host' = "ret" /\ rpc' = goal'
          \/ host' = "stopped"
      BY <2>1, <3>1, Zenon DEF Resolved, Proceed
    <3> QED BY <3>2, Zenon DEF Heading, Running
  <2>2. CASE ~(Lp64 /\ host # "loop")
    <3>1. \/ host' = "run" /\ at' = goal'
          \/ host' = "stopped"
      BY <1>0, <2>2, Zenon DEF Resolved, Proceed, Enter
    <3> QED BY <3>1, Zenon DEF Heading, Running
  <2> QED BY <2>1, <2>2, Zenon
<1> QED BY <1>1, <1>2, <1>3, Zenon

(* resolve_func keeps the invariant when it is asked for the address the   *)
(* guest branched to.                                                      *)
LEMMA ResolveRight ==
  ASSUME Sound, Inv, NEW a \in Targets, NEW p, Site(p), p = NoPatch \/ p[2] = a,
         goal = a, host \in {"loop", "quick", "stub"}, resolve_func(a, p)
  PROVE  Inv'
<1>0. Typed' /\ Linkage(links) /\ patch' = NoPatch /\ goal' = goal
  BY ResolveTyped, ZenonT(30) DEF Inv, Typed, TypeOK, Linkage, resolve_func
<1>1. asked \in [Targets -> Nat] /\ \A x \in Pcs : x \in Targets
  BY Zenon DEF Inv, Typed, TypeOK, Targets
<1>2. CASE Known(a) /\ Resolved(a, p, links, table[a]) /\ UNCHANGED <<table, asked>>
  <2>1. a \in Pcs /\ table[a] = a /\ a \in DOMAIN table
    BY <1>2, Zenon DEF Known, Inv, Named
  <2>2. Caching(table', tlb') /\ Linking(table', links') /\ Heading'
    BY <1>0, <1>2, <2>1, ResolvedRight, Zenon DEF Inv
  <2>3. host' # "exited"
    BY <1>2, Zenon DEF Resolved, Proceed, Enter
  <2>4. Once'
    BY <1>2, <2>3, Zenon DEF Inv, Once
  <2> QED BY <1>0, <1>2, <2>2, <2>3, <2>4, Zenon DEF Inv, Named, Caching, Linking
<1>3. CASE /\ a # 0 /\ a \in DOMAIN AddedTo(a) /\ table' = AddedTo(a)
           /\ Resolved(a, p, AddedLinks(a), AddedTo(a)[a]) /\ ~Known(a)
           /\ asked' = [asked EXCEPT ![a] = @ + 1]
  <2>1. a \in Pcs
    BY <1>3, Zenon DEF Targets
  <2>2. AddedAs(a) = a
    BY Zenon DEF Sound, AddedAs, ObjectName, Decode
  <2>3. DOMAIN table' = DOMAIN table \union {a} /\ table'[a] = a /\ Named(table')
    BY <1>3, <2>1, <2>2, Zenon DEF AddedTo, Inv, Named
  <2>4. Linkage(AddedLinks(a)) /\ Linking(table', AddedLinks(a))
    <3>1. \A t \in Static[a] : Decode(FuncConstName(a, t), a) = t
      <4>1. a \in Targets /\ \A t \in Static[a] : t \in Targets
        BY <2>1, DispatchAssumption, Zenon DEF Targets
      <4> QED BY <4>1, ConstTarget, Zenon
    <3>2. AddedLinks(a) = [links EXCEPT ![a] =
            [t \in Static[a] |-> IF t \in DOMAIN table THEN table[t] ELSE 0]]
      BY <3>1, Zenon DEF AddedLinks
    <3>3. \A t \in DOMAIN table : t \in Targets /\ table[t] = t /\ t \in DOMAIN table'
      BY <1>1, <2>3, Zenon DEF Inv, Named
    <3>4. 0 \in Targets
      BY Zenon DEF Targets
    <3>5. Linking(table, links)
      BY Zenon DEF Inv
    <3>6. Linkage(AddedLinks(a))
      BY <1>0, <2>1, <3>2, <3>3, <3>4 DEF Linkage
    <3>7. ASSUME NEW c \in Pcs, NEW t \in Static[c], AddedLinks(a)[c][t] # 0
          PROVE  t \in DOMAIN table' /\ AddedLinks(a)[c][t] = t
      <4>1. CASE c = a
        BY <1>0, <2>1, <3>2, <3>3, <3>7, <4>1 DEF Linkage
      <4>2. CASE c # a
        BY <1>0, <2>1, <2>3, <3>2, <3>5, <3>7, <4>2 DEF Linkage, Linking
      <4> QED BY <4>1, <4>2, Zenon
    <3> QED BY <3>6, <3>7, Zenon DEF Linking
  <2>5. AddedTo(a)[a] = a
    BY <1>3, <2>3, Zenon
  <2>6. Caching(table', tlb') /\ Linking(table', links') /\ Heading'
    BY <1>0, <1>3, <2>1, <2>3, <2>4, <2>5, ResolvedRight, Zenon
  <2>7. host' # "exited"
    BY <1>3, Zenon DEF Resolved, Proceed, Enter
  <2>8. Once'
    BY <1>1, <1>3, <2>3, <2>7 DEF Inv, Once, Known
  <2> QED BY <1>0, <2>3, <2>6, <2>7, <2>8, Zenon DEF Inv, Named, Caching, Linking
<1>4. CASE /\ ~Known(a) /\ Exit /\ asked' = [asked EXCEPT ![a] = @ + 1]
           /\ \/ MayFail \/ a = 0 \/ AddedAs(a) \in DOMAIN table \union {0}
              \/ a \notin DOMAIN AddedTo(a)
  <2>1. Named(table') /\ Caching(table', tlb') /\ Linking(table', links')
    BY <1>4, Zenon DEF Exit, Inv, Named, Caching, Linking
  <2>2. host' = "exited" /\ Heading'
    BY <1>4, Zenon DEF Exit, Heading, Running
  <2>3. Once'
    BY <1>1, <1>4, <2>2 DEF Exit, Inv, Once, Known
  <2> QED BY <1>0, <2>1, <2>2, <2>3, Zenon DEF Inv, Named, Caching, Linking
<1> QED BY <1>2, <1>3, <1>4, Zenon DEF resolve_func

(* Every step keeps the invariant. *)
LEMMA StepInv == Sound /\ Inv /\ [Next]_vars => Inv'
<1> SUFFICES ASSUME Sound, Inv, [Next]_vars PROVE Inv'
  BY Zenon
<1>0. /\ TypeOK /\ Typed' /\ 0 \notin Pcs
      /\ Named(table) /\ Caching(table, tlb) /\ Linking(table, links)
      /\ Heading /\ Once
  BY StepTyped, DispatchAssumption, Zenon DEF Inv, Typed
<1>1. ASSUME UNCHANGED <<table, tlb, links, asked>>, Heading', host # "exited",
             host' # "exited"
      PROVE  Inv'
  BY <1>0, <1>1, Zenon DEF Inv, Named, Caching, Linking, Once
<1>2. CASE UNCHANGED vars
  BY <1>0, <1>2, Zenon DEF vars, Inv, Named, Caching, Linking, Heading, Running, Once
<1>3. CASE LoopHit \/ QuickHit
  <2>1. tlb[Hash(rpc)][1] = rpc /\ Hash(rpc) \in 0 .. TlbSize - 1 /\ rpc = goal
    BY <1>0, <1>3, HashInTlb, Zenon DEF LoopHit, QuickHit, Hit, Heading, TypeOK
  <2>2. tlb[Hash(rpc)][2] = goal
    BY <1>0, <2>1, Zenon DEF Caching
  <2>3. Enter(goal) /\ UNCHANGED <<table, tlb, links, asked, goal>> /\ host # "exited"
    BY <1>3, <2>2, Zenon DEF LoopHit, QuickHit
  <2>4. Heading' /\ host' # "exited"
    BY <2>3, Zenon DEF Enter, Heading, Running
  <2> QED BY <1>1, <2>3, <2>4, Zenon
<1>4. CASE LoopMiss \/ QuickMiss
  <2>1. rpc = goal /\ rpc \in Targets /\ host \in {"loop", "quick"} /\ resolve_func(rpc, NoPatch)
    BY <1>0, <1>4, Zenon DEF LoopMiss, QuickMiss, Heading, TypeOK
  <2> QED BY <2>1, ResolveRight, Zenon DEF Site
<1>5. CASE StubMiss
  <2>1. host = "stub" /\ patch[1] \in Pcs /\ patch[2] \in Static[patch[1]] /\ patch[2] = goal
    BY <1>0, <1>5, Zenon DEF StubMiss, TypeOK, Heading
  <2>2. patch[2] \in Pcs
    BY <2>1, DispatchAssumption, Zenon
  <2>3. Decode(FuncConstName(patch[1], patch[2]), patch[1]) = patch[2]
    BY <2>1, <2>2, ConstTarget, Zenon DEF Targets
  <2>4. resolve_func(patch[2], patch)
    BY <1>5, <2>3, Zenon DEF StubMiss
  <2> QED BY <2>1, <2>2, <2>4, ResolveRight, Zenon DEF Site, Targets
<1>6. CASE QuickEntry
  <2>1. Lp64 => frames'[1].slot = rpc
    BY <1>6, GoodStore, Zenon DEF QuickEntry, Stored, Inv, Typed, TypeOK
  <2>2. Heading'
    BY <1>0, <1>6, <2>1, Zenon DEF QuickEntry, Heading, Running
  <2> QED BY <1>1, <1>6, <2>2, Zenon DEF QuickEntry
<1>7. CASE Unwind
  <2>1. Heading' /\ host' # "exited"
    BY <1>0, <1>7, Zenon DEF Unwind, Heading, Running
  <2> QED BY <1>1, <1>7, <2>1, Zenon DEF Unwind
<1>8. ASSUME NEW t \in Targets, BlockReturns(t) \/ BlockDispatches(t) PROVE Inv'
  <2>1. Heading' /\ host' # "exited" /\ host # "exited"
    BY <1>8, Zenon DEF BlockReturns, BlockDispatches, Heading, Running
  <2> QED BY <1>1, <1>8, <2>1, Zenon DEF BlockReturns, BlockDispatches
<1>9. ASSUME NEW t \in Pcs, BlockJumps(t) PROVE Inv'
  <2>1. code \in Pcs /\ t \in Static[code] /\ ~Lp64 /\ host # "exited"
    BY <1>0, <1>9, Zenon DEF BlockJumps, TypeOK, Running, Sound
  <2>2. CASE links[code][t] = 0
    <3>1. host' = "stub" /\ patch' = <<code, t>> /\ goal' = t
      BY <1>9, <2>2, Zenon DEF BlockJumps
    <3>2. Heading'
      BY <2>1, <3>1, Zenon DEF Heading, Running
    <3> QED BY <1>1, <1>9, <2>1, <3>1, <3>2, Zenon DEF BlockJumps
  <2>3. CASE links[code][t] # 0
    <3>1. links[code][t] = t
      BY <1>0, <2>1, <2>3, Zenon DEF Linking
    <3>2. Enter(t) /\ goal' = t
      BY <1>9, <2>3, <3>1, Zenon DEF BlockJumps
    <3>3. Heading' /\ host' # "exited"
      BY <1>0, <3>2, Zenon DEF Enter, Heading, Running
    <3> QED BY <1>1, <1>9, <2>1, <3>3, Zenon DEF BlockJumps
  <2> QED BY <2>2, <2>3, Zenon
<1> QED BY <1>2, <1>3, <1>4, <1>5, <1>6, <1>7, <1>8, <1>9, Zenon DEF Next, Dispatcher

(* The invariant, under the two conditions of Sound. *)
LEMMA Invariance == Sound => (Spec => []Inv)
<1> SUFFICES ASSUME Sound PROVE Spec => []Inv
  BY Zenon
<1>1. Inv /\ [Next]_vars => Inv'
  BY StepInv, Zenon
<1> QED BY InitInv, <1>1, PTL DEF Spec

(* Whichever way the dispatchers of dispatch.c take, the block that runs    *)
(* is the one the guest branched to.                                        *)
THEOREM RightCode == Sound => (Spec => []RunsRightCode)
<1> SUFFICES ASSUME Sound PROVE Spec => []RunsRightCode
  BY Zenon
<1>1. Inv => RunsRightCode
  BY Zenon DEF Inv, Heading, RunsRightCode
<1> QED BY <1>1, Invariance, PTL

(* The quick TLB and the patched call sites agree with the object table.    *)
THEOREM Coherence == Sound => (Spec => []CachesCoherent)
<1> SUFFICES ASSUME Sound PROVE Spec => []CachesCoherent
  BY Zenon
<1>1. Inv => CachesCoherent
  BY Zenon DEF Inv, Named, Caching, Linking, CachesCoherent
<1> QED BY <1>1, Invariance, PTL

(* No address is sent to the server twice. *)
THEOREM NoRetranslation == Sound => (Spec => []TranslatedOnce)
<1> SUFFICES ASSUME Sound PROVE Spec => []TranslatedOnce
  BY Zenon
<1>1. Inv => TranslatedOnce
  <2> SUFFICES ASSUME Inv, NEW a \in Pcs PROVE asked[a] <= 1
    BY Zenon DEF TranslatedOnce
  <2>1. asked[a] = 0 \/ asked[a] = 1
    BY Zenon DEF Inv, Once
  <2> QED BY <2>1
<1> QED BY <1>1, Invariance, PTL

----------------------------------------------------------------------------
(* Tracing *)

(* With tracing the quick TLB stays empty, so that every branch goes        *)
(* through resolve_func, which prints it.                                   *)
Tracing ==
  /\ Typed
  /\ tlb = [h \in 0 .. TlbSize - 1 |-> <<0, 0>>]
  /\ host = "run" => traced

(* The resolver prints the branch and leaves the quick TLB alone. *)
LEMMA ResolveTraces ==
  ASSUME NEW a, NEW p, Trace, Tracing, Typed', resolve_func(a, p)
  PROVE  Tracing'
<1>1. ASSUME NEW l, NEW f, Resolved(a, p, l, f) PROVE Tracing'
  BY <1>1, Zenon DEF Resolved, Proceed, Tracing
<1>2. CASE Exit
  BY <1>2, Zenon DEF Exit, Tracing
<1> QED BY <1>1, <1>2, Zenon DEF resolve_func

(* Only address 0 is found in the empty TLB, and that has no code. *)
LEMMA HitTraces ==
  ASSUME Tracing, Typed', Hit(rpc), Enter(tlb[Hash(rpc)][2]), UNCHANGED <<tlb, traced>>
  PROVE  Tracing'
<1>1. Hash(rpc) \in 0 .. TlbSize - 1
  BY HashInTlb, Zenon DEF Tracing, Typed, TypeOK
<1>2. tlb[Hash(rpc)][2] = 0
  BY <1>1, Zenon DEF Tracing
<1> QED BY <1>2, Zenon DEF Enter, Tracing

(* The trace of print_trace is complete as long as no call site is patched  *)
(* to another block (without -callret, or with the C convention): every     *)
(* block that is entered was printed, in all the dispatchers.               *)
THEOREM TracesEveryBlock ==
  (\A c \in Pcs : Static[c] = {}) => (Spec => []TraceComplete)
<1> SUFFICES ASSUME \A c \in Pcs : Static[c] = {} PROVE Spec => []TraceComplete
  BY Zenon
<1>1. CASE ~Trace
  <2>1. TraceComplete
    BY <1>1, Zenon DEF TraceComplete
  <2> QED BY <2>1, PTL
<1>2. CASE Trace
  <2>1. Init => Tracing
    BY InitTyped, Zenon DEF Init, Tracing
  <2>2. Tracing /\ [Next]_vars => Tracing'
    <3> SUFFICES ASSUME Tracing, [Next]_vars PROVE Tracing'
      BY Zenon
    <3>1. Typed'
      BY StepTyped, Zenon DEF Tracing
    <3>2. CASE UNCHANGED vars
      BY <3>1, <3>2, Zenon DEF vars, Tracing
    <3>3. CASE LoopHit \/ QuickHit
      BY <3>1, <3>3, HitTraces, Zenon DEF LoopHit, QuickHit
    <3>4. CASE LoopMiss \/ QuickMiss \/ StubMiss
      BY <1>2, <3>1, <3>4, ResolveTraces, Zenon DEF LoopMiss, QuickMiss, StubMiss
    <3>5. CASE QuickEntry \/ Unwind
      BY <3>1, <3>5, Zenon DEF QuickEntry, Unwind, Tracing
    <3>6. ASSUME NEW t, BlockReturns(t) \/ BlockDispatches(t) PROVE Tracing'
      BY <3>1, <3>6, Zenon DEF BlockReturns, BlockDispatches, Tracing
    <3>7. ASSUME NEW t, BlockJumps(t) PROVE FALSE
      BY <3>7, Zenon DEF BlockJumps, Tracing, Typed, TypeOK
    <3> QED BY <3>2, <3>3, <3>4, <3>5, <3>6, <3>7, Zenon DEF Next, Dispatcher
  <2>3. Tracing => TraceComplete
    BY Zenon DEF Tracing, TraceComplete
  <2> QED BY <2>1, <2>2, <2>3, PTL DEF Spec
<1> QED BY <1>1, <1>2, Zenon

------------------------------------------------------------------------------
(* Signals *)

Places ==
  {"none", "new", "run", "end", "check", "update", "action", "wait", "clone", "clear", "act",
   "abort", "kill", "suspend", "unreachable"}

(* All of SIGSEGV can be blocked only by a fault that is being acted on.   *)
FaultBlocks(t) == Segv \in hmask[t] => pc[t] \in {"abort", "kill", "suspend"} /\ sig[t] = Segv

(* What abort_with_signal waits for has its default action: nobody gives   *)
(* SIGSEGV another one, and a thread that is alone knows its actions.      *)
Aborting(t) ==
  /\ pc[t] \in {"kill", "suspend"} /\ (sig[t] = Segv \/ Alone) => hact[AbortSig(sig[t])] = "dfl"
  /\ pc[t] = "suspend" => smask[t] = All \ {AbortSig(sig[t])}

(* A noted signal blocks the others, unless it was noted just before the   *)
(* host's mask is updated: then it came after the test.                    *)
Noted(t) ==
  /\ sigpending[t] # 0 => Sigs \subseteq hmask[t] \/ (late[t] /\ pc[t] \in {"end", "clear"})
  /\ sigpending[t] # 0 /\ pc[t] = "update" => late[t]
  /\ pc[t] \in {"none", "new"} => sigpending[t] = 0

(* The inductive invariant. *)
SignalInv ==
  /\ SignalTypeOK
  /\ pc \in [Threads -> Places]
  /\ \A t \in Threads : FaultBlocks(t) /\ Aborting(t) /\ Noted(t)
  /\ \A t \in Threads : pc[t] = "action" => sig[t] \in Sigs
  /\ NotReached

USE SignalsAssumption DEF All

(* abort_with_signal is given a signal, and asks for SIGSEGV only then. *)
LEMMA AbortSigType ==
  ASSUME NEW s \in All
  PROVE  AbortSig(s) \in All /\ (AbortSig(s) = Segv <=> s = Segv)
BY DEF AbortSig

(* The program starts with everything at its default. *)
LEMMA InitSignals == SignalInit => SignalInv
<1> SUFFICES ASSUME SignalInit PROVE SignalInv
  BY Zenon
<1>1. SignalTypeOK
  <2>1. dead \in BOOLEAN /\ ppend \subseteq All /\ dropped \subseteq All
    BY Zenon DEF SignalInit
  <2>5. hact \in [All -> {"dfl", "ign", "handler"}]
    BY Zenon DEF SignalInit
  <2>6. sigact \in [Threads -> [All -> {"dfl", "ign", "guest"}]]
    BY Zenon DEF SignalInit
  <2>7. hpend \in [Threads -> SUBSET All] /\ sends \in 0 .. MaxSends
    BY DEF SignalInit
  <2>2. hmask \in [Threads -> SUBSET All] /\ smask = hmask /\ sigmask = hmask
    BY Zenon DEF SignalInit
  <2>3. sigpending \in [Threads -> All \union {0}] /\ sig = sigpending
    BY Zenon DEF SignalInit
  <2>4. \A t \in Threads : pc[t] \in {"run", "none"}
    BY Zenon DEF SignalInit
  <2>8. late \in [Threads -> BOOLEAN]
    BY Zenon DEF SignalInit
  <2> QED BY <2>1, <2>2, <2>3, <2>4, <2>5, <2>6, <2>7, <2>8, Zenon DEF SignalTypeOK
<1>2. \A t \in Threads : FaultBlocks(t) /\ Aborting(t) /\ Noted(t)
  BY Zenon DEF SignalInit, FaultBlocks, Aborting, Noted
<1>3. NotReached
  BY Zenon DEF SignalInit, NotReached
<1> QED BY <1>1, <1>2, <1>3, Zenon DEF SignalInv, SignalInit, Places

----------------------------------------------------------------------------
(* Steps *)

(* Threads are never unmade. *)
LEMMA StaysAlone ==
  ASSUME pc \in [Threads -> Places], pc' \in [Threads -> Places],
         \A u \in Threads : pc[u] # "none" => pc'[u] # "none"
  PROVE  Alone' => Alone
BY Zenon DEF Alone

(* What is known of a thread stays known while others move. *)
LEMMA Bystander ==
  ASSUME SignalInv, Alone' => Alone, NEW u \in Threads,
         UNCHANGED <<pc[u], sig[u], hmask[u], smask[u], sigpending[u], late[u]>>,
         \/ hact' = hact
         \/ pc[u] \in {"kill", "suspend"} /\ (sig[u] = Segv \/ Alone)
              => hact'[AbortSig(sig[u])] = "dfl"
  PROVE  (FaultBlocks(u) /\ Aborting(u) /\ Noted(u))' /\ (pc'[u] = "action" => sig'[u] \in Sigs)
<1>1. FaultBlocks(u) /\ Aborting(u) /\ Noted(u) /\ (pc[u] = "action" => sig[u] \in Sigs)
  BY Zenon DEF SignalInv
<1>2. FaultBlocks(u)' /\ Noted(u)'
  BY <1>1, Zenon DEF FaultBlocks, Noted
<1>3. AbortSig(sig[u])' = AbortSig(sig[u])
  BY Zenon DEF AbortSig
<1>4. Aborting(u)'
  BY <1>1, <1>3, Zenon DEF Aborting
<1> QED BY <1>1, <1>2, <1>4, Zenon

(* A thread moves on and changes variables of its own only. *)
LEMMA Moves ==
  ASSUME SignalInv, SignalTypeOK', NEW t \in Threads, NEW next \in Places \ {"none", "unreachable"},
         Goto(t, next), pc[t] \notin {"none", "unreachable"},
         \A u \in Threads \ {t} : UNCHANGED <<sig[u], hmask[u], smask[u], sigpending[u], late[u]>>,
         hact' = hact \/ \A u \in Threads \ {t} :
           pc[u] \in {"kill", "suspend"} /\ (sig[u] = Segv \/ Alone)
              => hact'[AbortSig(sig[u])] = "dfl",
         (FaultBlocks(t) /\ Aborting(t) /\ Noted(t))', next = "action" => sig'[t] \in Sigs
  PROVE  SignalInv'
<1>1. pc' \in [Threads -> Places] /\ pc'[t] = next /\ \A u \in Threads \ {t} : pc'[u] = pc[u]
  BY Zenon DEF SignalInv, Goto
<1>2. Alone' => Alone
  BY <1>1, StaysAlone, Zenon DEF SignalInv
<1>3. ASSUME NEW u \in Threads \ {t}
      PROVE  (FaultBlocks(u) /\ Aborting(u) /\ Noted(u))' /\ (pc'[u] = "action" => sig'[u] \in Sigs)
  BY <1>1, <1>2, Bystander, Zenon
<1>4. NotReached'
  BY <1>1, <1>2, Zenon DEF NotReached, SignalInv
<1> QED BY <1>1, <1>3, <1>4, Zenon DEF SignalInv

(* The variables as functions, for the steps that change them. *)
LEMMA Types ==
  ASSUME SignalTypeOK
  PROVE  /\ hmask \in [Threads -> SUBSET All] /\ smask \in [Threads -> SUBSET All]
         /\ sigmask \in [Threads -> SUBSET All] /\ sigpending \in [Threads -> All \union {0}]
         /\ sig \in [Threads -> All \union {0}] /\ late \in [Threads -> BOOLEAN]
BY Zenon DEF SignalTypeOK

(* A system call that has nothing to do with signals. *)
LEMMA OtherStep == ASSUME SignalInv, NEW t \in Threads, Other(t) PROVE SignalInv'
<1>1. SignalTypeOK'
  BY Zenon DEF SignalInv, SignalTypeOK, Other, In, Goto, sets, queues, masks
<1>2. (FaultBlocks(t) /\ Aborting(t) /\ Noted(t))'
  BY Zenon DEF SignalInv, FaultBlocks, Aborting, Noted, Other, In, Goto, sets, queues, masks
<1> QED BY <1>1, <1>2, Moves, Zenon DEF Other, In, Places, sets, queues, masks

(* The guest sets its mask. *)
LEMMA SigprocmaskStep ==
  ASSUME SignalInv, NEW t \in Threads, NEW set \in Masks, Sigprocmask(t, set) PROVE SignalInv'
<1>1. SignalTypeOK'
  <2>1. sigmask' \in [Threads -> SUBSET All]
    BY Types, Zenon DEF SignalInv, Sigprocmask
  <2> QED BY <2>1, Types DEF SignalInv, SignalTypeOK, Sigprocmask, In, Goto, sets, queues
<1>2. (FaultBlocks(t) /\ Aborting(t) /\ Noted(t))'
  BY Zenon DEF SignalInv, FaultBlocks, Aborting, Noted, Sigprocmask, In, Goto, sets, queues
<1> QED BY <1>1, <1>2, Moves, Zenon DEF Sigprocmask, In, Places, sets, queues

(* The test between the two masks. *)
LEMMA CheckPendingStep == ASSUME SignalInv, NEW t \in Threads, CheckPending(t) PROVE SignalInv'
<1>1. SignalTypeOK'
  BY Zenon DEF SignalInv, SignalTypeOK, CheckPending, In, Goto, sets, queues, masks
<1>2. (FaultBlocks(t) /\ Aborting(t) /\ Noted(t))'
  BY Zenon DEF SignalInv, FaultBlocks, Aborting, Noted, CheckPending, In, Goto, sets, queues, masks
<1> QED BY <1>1, <1>2, Moves, Zenon DEF CheckPending, In, Places, sets, queues, masks

(* The host gets the mask of the guest, without SIGSEGV. *)
LEMMA UpdateHostmaskStep == ASSUME SignalInv, NEW t \in Threads, UpdateHostmask(t) PROVE SignalInv'
<1>1. hmask' \in [Threads -> SUBSET All]
  BY Types, Zenon DEF SignalInv, UpdateHostmask, HostMask
<1>2. SignalTypeOK'
  BY <1>1, Types DEF SignalInv, SignalTypeOK, UpdateHostmask, In, Goto, sets, queues
<1>3. (FaultBlocks(t) /\ Aborting(t) /\ Noted(t))'
  BY Types, Zenon DEF SignalInv, FaultBlocks, Aborting, Noted, UpdateHostmask, HostMask, In, Goto, sets, queues
<1>4. \A u \in Threads \ {t} : hmask'[u] = hmask[u]
  BY Types, Zenon DEF SignalInv, UpdateHostmask
<1> QED BY <1>2, <1>3, <1>4, Moves, Zenon DEF UpdateHostmask, In, Places, sets, queues

(* The guest sets an action; SIGSEGV does not go to the host. *)
LEMMA SigactionStep ==
  ASSUME SignalInv, NEW t \in Threads, NEW s \in Caught, NEW act \in Acts, Sigaction(t, s, act)
  PROVE  SignalInv'
<1>1. sigact' \in [Threads -> [All -> {"dfl", "ign", "guest"}]]
  BY Zenon DEF SignalInv, SignalTypeOK, Sigaction
<1>2. sig' \in [Threads -> All \union {0}] /\ sig'[t] = s
      /\ \A u \in Threads \ {t} : sig'[u] = sig[u]
  BY Types, Zenon DEF SignalInv, Sigaction
<1>3. SignalTypeOK'
  BY <1>1, <1>2, Types DEF SignalInv, SignalTypeOK, Sigaction, In, Goto, queues, masks
<1>4. (FaultBlocks(t) /\ Aborting(t) /\ Noted(t))'
  BY Zenon DEF SignalInv, FaultBlocks, Aborting, Noted, Sigaction, In, Goto, queues, masks
<1> QED BY <1>2, <1>3, <1>4, Moves, Zenon DEF Sigaction, In, Places, queues, masks

(* The guest waits for a signal. *)
LEMMA SigsuspendStep ==
  ASSUME SignalInv, NEW t \in Threads, NEW set \in Waits, Sigsuspend(t, set) PROVE SignalInv'
<1>1. smask' \in [Threads -> SUBSET All] /\ \A u \in Threads \ {t} : smask'[u] = smask[u]
  BY Types, Zenon DEF SignalInv, Sigsuspend
<1>2. SignalTypeOK'
  BY <1>1, Types DEF SignalInv, SignalTypeOK, Sigsuspend, In, Goto, sets, queues
<1>3. (FaultBlocks(t) /\ Aborting(t) /\ Noted(t))'
  BY Zenon DEF SignalInv, FaultBlocks, Aborting, Noted, Sigsuspend, In, Goto, sets, queues
<1> QED BY <1>1, <1>2, <1>3, Moves, Zenon DEF Sigsuspend, In, Places, sets, queues

(* The host's action for a signal other than SIGSEGV. *)
LEMMA SetActionStep == ASSUME SignalInv, NEW t \in Threads, SetAction(t) PROVE SignalInv'
<1> DEFINE action == IF sigact[t][sig[t]] = "guest" THEN "handler" ELSE sigact[t][sig[t]]
<1>1. sig[t] \in Sigs /\ action \in {"dfl", "ign", "handler"}
  BY DEF SignalInv, SignalTypeOK, SetAction, In
<1>2. hact' = [hact EXCEPT ![sig[t]] = action]
  BY Zenon DEF SetAction, HostAction
<1>3. hact' \in [All -> {"dfl", "ign", "handler"}] /\ hact'[Segv] = hact[Segv]
  BY <1>1, <1>2, Zenon DEF SignalInv, SignalTypeOK
<1>4. ppend' \subseteq All /\ hpend' \in [Threads -> SUBSET All]
  BY Zenon DEF SignalInv, SignalTypeOK, SetAction, HostAction
<1>5. SignalTypeOK'
  BY <1>3, <1>4, Types, Zenon DEF SignalInv, SignalTypeOK, SetAction, In, Goto, masks
<1>6. (FaultBlocks(t) /\ Aborting(t) /\ Noted(t))'
  BY Zenon DEF SignalInv, FaultBlocks, Aborting, Noted, SetAction, In, Goto, masks
<1>7. ASSUME NEW u \in Threads \ {t}, pc[u] \in {"kill", "suspend"}, sig[u] = Segv \/ Alone
      PROVE  hact'[AbortSig(sig[u])] = "dfl"
  <2>1. ~Alone
    BY <1>7, Zenon DEF Alone, SetAction, In
  <2>2. AbortSig(sig[u]) = Segv
    BY <1>7, <2>1, AbortSigType, Zenon
  <2>3. hact[AbortSig(sig[u])] = "dfl"
    BY <1>7, Zenon DEF SignalInv, Aborting
  <2> QED BY <1>3, <2>2, <2>3, Zenon
<1> QED BY <1>5, <1>6, <1>7, Moves, Zenon DEF SetAction, In, Places, masks

(* The end of a system call, with the signal it found. *)
LEMMA EndStep == ASSUME SignalInv, NEW t \in Threads, End(t) PROVE SignalInv'
<1>1. sig' \in [Threads -> All \union {0}] /\ sig'[t] = sigpending[t]
      /\ \A u \in Threads \ {t} : sig'[u] = sig[u]
  BY Types, Zenon DEF SignalInv, End
<1>2. SignalTypeOK'
  BY <1>1, Types DEF SignalInv, SignalTypeOK, End, Pending, In, Goto, sets, queues, masks
<1>3. (FaultBlocks(t) /\ Aborting(t) /\ Noted(t))'
  BY Zenon DEF SignalInv, FaultBlocks, Aborting, Noted, End, Pending, In, Goto, sets, queues, masks
<1> QED BY <1>1, <1>2, <1>3, Moves, Zenon DEF End, In, Places, sets, queues, masks

(* The note is taken. *)
LEMMA ClearStep == ASSUME SignalInv, NEW t \in Threads, Clear(t) PROVE SignalInv'
<1>1. sigpending' \in [Threads -> All \union {0}] /\ sigpending'[t] = 0
      /\ late' \in [Threads -> BOOLEAN]
      /\ \A u \in Threads \ {t} : sigpending'[u] = sigpending[u] /\ late'[u] = late[u]
  BY Types, Zenon DEF SignalInv, Clear
<1>2. SignalTypeOK'
  BY <1>1, Types DEF SignalInv, SignalTypeOK, Clear, In, Goto, sets, queues, masks
<1>3. (FaultBlocks(t) /\ Aborting(t) /\ Noted(t))'
  BY <1>1, Zenon DEF SignalInv, FaultBlocks, Aborting, Noted, Clear, In, Goto, sets, queues, masks
<1> QED BY <1>1, <1>2, <1>3, Moves, Zenon DEF Clear, In, Places, sets, queues, masks

(* The guest's action is looked up. *)
LEMMA ActStep == ASSUME SignalInv, NEW t \in Threads, Act(t) PROVE SignalInv'
<1>1. SignalTypeOK'
  BY Zenon DEF SignalInv, SignalTypeOK, Act, In, Goto, sets, queues, masks
<1>2. (FaultBlocks(t) /\ Aborting(t) /\ Noted(t))'
  BY Zenon DEF SignalInv, FaultBlocks, Aborting, Noted, Act, In, Goto, sets, queues, masks
<1> QED BY <1>1, <1>2, Moves, Zenon DEF Act, In, Places, sets, queues, masks

(* A fault blocks all signals, and is acted on at once. *)
LEMMA FaultStep == ASSUME SignalInv, NEW t \in Threads, Fault(t) PROVE SignalInv'
<1>1. sig' \in [Threads -> All \union {0}] /\ sig'[t] = Segv
      /\ \A u \in Threads \ {t} : sig'[u] = sig[u]
  BY Types, Zenon DEF SignalInv, Fault
<1>2. hmask' \in [Threads -> SUBSET All] /\ hmask'[t] = All
      /\ \A u \in Threads \ {t} : hmask'[u] = hmask[u]
  BY Types, Zenon DEF SignalInv, Fault
<1>3. SignalTypeOK'
  BY <1>1, <1>2, Types DEF SignalInv, SignalTypeOK, Fault, In, Goto, sets, queues
<1>4. (FaultBlocks(t) /\ Aborting(t) /\ Noted(t))'
  BY <1>1, <1>2, Zenon DEF SignalInv, FaultBlocks, Aborting, Noted, Fault, In, Goto, sets, queues
<1> QED BY <1>1, <1>2, <1>3, <1>4, Moves, Zenon DEF Fault, In, Places, sets, queues

(* sigreturn ends the program. *)
LEMMA SigreturnStep == ASSUME SignalInv, NEW t \in Threads, Sigreturn(t) PROVE SignalInv'
<1>1. sig' \in [Threads -> All \union {0}] /\ sig'[t] = Abrt
      /\ \A u \in Threads \ {t} : sig'[u] = sig[u]
  BY Types, Zenon DEF SignalInv, Sigreturn
<1>2. SignalTypeOK'
  BY <1>1, Types, Zenon DEF SignalInv, SignalTypeOK, Sigreturn, In, Goto, sets, queues, masks
<1>3. (FaultBlocks(t) /\ Aborting(t) /\ Noted(t))'
  BY Zenon DEF SignalInv, FaultBlocks, Aborting, Noted, Sigreturn, In, Goto, sets, queues, masks
<1> QED BY <1>1, <1>2, <1>3, Moves, Zenon DEF Sigreturn, In, Places, sets, queues, masks

(* abort_with_signal installs the default action ... *)
LEMMA AbortActionStep == ASSUME SignalInv, NEW t \in Threads, AbortAction(t) PROVE SignalInv'
<1>1. sig[t] \in All /\ AbortSig(sig[t]) \in All
  BY Types, AbortSigType, Zenon DEF SignalInv, SignalTypeOK, AbortAction, In
<1>2. hact' = [hact EXCEPT ![AbortSig(sig[t])] = "dfl"]
  BY Zenon DEF AbortAction, HostAction
<1>3. hact' \in [All -> {"dfl", "ign", "handler"}] /\ hact'[AbortSig(sig[t])] = "dfl"
      /\ \A s \in All : hact[s] = "dfl" => hact'[s] = "dfl"
  BY <1>1, <1>2, Zenon DEF SignalInv, SignalTypeOK
<1>4. ppend' \subseteq All /\ hpend' \in [Threads -> SUBSET All]
  BY Zenon DEF SignalInv, SignalTypeOK, AbortAction, HostAction
<1>5. SignalTypeOK'
  BY <1>3, <1>4, Types, Zenon DEF SignalInv, SignalTypeOK, AbortAction, In, Goto, masks
<1>6. AbortSig(sig[t])' = AbortSig(sig[t])
  BY Zenon DEF AbortAction, AbortSig
<1>7. (FaultBlocks(t) /\ Aborting(t) /\ Noted(t))'
  BY <1>3, <1>6, Zenon DEF SignalInv, FaultBlocks, Aborting, Noted, AbortAction, In, Goto, masks
<1>8. ASSUME NEW u \in Threads \ {t}, pc[u] \in {"kill", "suspend"}, sig[u] = Segv \/ Alone
      PROVE  hact'[AbortSig(sig[u])] = "dfl"
  <2>1. sig[u] \in All /\ AbortSig(sig[u]) \in All
    BY <1>8, Types, AbortSigType, Zenon DEF SignalInv, SignalTypeOK
  <2>2. hact[AbortSig(sig[u])] = "dfl"
    BY <1>8, Zenon DEF SignalInv, Aborting
  <2> QED BY <1>3, <2>1, <2>2, Zenon
<1> QED BY <1>5, <1>7, <1>8, Moves, Zenon DEF AbortAction, In, Places, masks

(* ... sends the signal, and waits for it alone. *)
LEMMA AbortKillStep == ASSUME SignalInv, NEW t \in Threads, AbortKill(t) PROVE SignalInv'
<1>1. sig[t] \in All /\ AbortSig(sig[t]) \in All
  BY Types, AbortSigType, Zenon DEF SignalInv, SignalTypeOK, AbortKill, In
<1>2. smask' \in [Threads -> SUBSET All] /\ smask'[t] = All \ {AbortSig(sig[t])}
      /\ \A u \in Threads \ {t} : smask'[u] = smask[u]
  BY Types, Zenon DEF SignalInv, AbortKill
<1>3. ppend' \subseteq All
  BY <1>1, Zenon DEF SignalInv, SignalTypeOK, AbortKill
<1>4. SignalTypeOK'
  BY <1>2, <1>3, Types DEF SignalInv, SignalTypeOK, AbortKill, In, Goto, sets
<1>5. AbortSig(sig[t])' = AbortSig(sig[t])
  BY Zenon DEF AbortKill, AbortSig
<1>6. Alone' => Alone
  BY StaysAlone, Zenon DEF SignalInv, AbortKill, In, Goto, Places
<1>7. (FaultBlocks(t) /\ Aborting(t) /\ Noted(t))'
  BY <1>2, <1>5, <1>6, Zenon DEF SignalInv, FaultBlocks, Aborting, Noted, AbortKill, In, Goto, sets
<1> QED BY <1>2, <1>4, <1>7, Moves, Zenon DEF AbortKill, In, Places, sets

(* A signal is sent. *)
LEMMA SendStep == ASSUME SignalInv, NEW s \in Sent, Send(s) PROVE SignalInv'
<1>1. ppend' \subseteq All /\ hpend' \in [Threads -> SUBSET All] /\ sends' \in 0 .. MaxSends
  BY DEF SignalInv, SignalTypeOK, Send
<1>2. SignalTypeOK'
  BY <1>1, Types, Zenon DEF SignalInv, SignalTypeOK, Send, sets, masks
<1>3. Alone' => Alone
  BY Zenon DEF Alone, Send
<1>4. ASSUME NEW u \in Threads
      PROVE  (FaultBlocks(u) /\ Aborting(u) /\ Noted(u))' /\ (pc'[u] = "action" => sig'[u] \in Sigs)
  BY <1>3, Bystander, Zenon DEF Send, sets, masks
<1> QED BY <1>2, <1>3, <1>4, Zenon DEF SignalInv, NotReached, Send

(* A new thread has the guest's mask and actions, and nothing noted. *)
LEMMA CloneStep == ASSUME SignalInv, NEW t \in Threads, NEW u \in Threads, Clone(t, u) PROVE SignalInv'
<1>1. t # u /\ pc' \in [Threads -> Places] /\ pc'[t] = "clone" /\ pc'[u] = "new"
      /\ \A v \in Threads \ {t, u} : pc'[v] = pc[v]
  BY Zenon DEF SignalInv, Clone, In, Places
<1>2. sigmask' \in [Threads -> SUBSET All]
      /\ sigact' \in [Threads -> [All -> {"dfl", "ign", "guest"}]]
  BY Types, Zenon DEF SignalInv, SignalTypeOK, Clone
<1>3. SignalTypeOK'
  BY <1>1, <1>2, Types, Zenon DEF SignalInv, SignalTypeOK, Clone, queues
<1>4. Alone' => Alone
  BY <1>1, StaysAlone, Zenon DEF SignalInv, Clone, In
<1>5. ASSUME NEW v \in Threads
      PROVE  (FaultBlocks(v) /\ Aborting(v) /\ Noted(v))' /\ (pc'[v] = "action" => sig'[v] \in Sigs)
  <2>1. CASE v \in {t, u}
    BY <1>1, <2>1, Zenon DEF SignalInv, Clone, In, FaultBlocks, Aborting, Noted, queues
  <2>2. CASE v \notin {t, u}
    BY <1>1, <1>4, <2>2, Bystander, Zenon DEF Clone, queues
  <2> QED BY <2>1, <2>2, Zenon
<1> QED BY <1>1, <1>3, <1>4, <1>5, Zenon DEF SignalInv, NotReached

(* It starts with the host's mask of its parent. *)
LEMMA HostCloneStep == ASSUME SignalInv, NEW t \in Threads, NEW u \in Threads, HostClone(t, u) PROVE SignalInv'
<1>1. t # u /\ pc' \in [Threads -> Places] /\ pc'[t] = "end" /\ pc'[u] = "run"
      /\ \A v \in Threads \ {t, u} : pc'[v] = pc[v]
  BY Zenon DEF SignalInv, HostClone, In, Places
<1>2. hmask' \in [Threads -> SUBSET All] /\ hmask'[u] = hmask[t]
      /\ \A v \in Threads \ {u} : hmask'[v] = hmask[v]
  BY Types, Zenon DEF SignalInv, HostClone
<1>3. SignalTypeOK'
  BY <1>1, <1>2, Types DEF SignalInv, SignalTypeOK, HostClone, sets, queues
<1>4. Alone' => Alone
  BY <1>1, StaysAlone, Zenon DEF SignalInv, HostClone, In
<1>5. ASSUME NEW v \in Threads
      PROVE  (FaultBlocks(v) /\ Aborting(v) /\ Noted(v))' /\ (pc'[v] = "action" => sig'[v] \in Sigs)
  <2>1. CASE v \in {t, u}
    BY <1>1, <1>2, <2>1, Zenon DEF SignalInv, HostClone, In, FaultBlocks, Aborting, Noted, sets, queues
  <2>2. CASE v \notin {t, u}
    BY <1>1, <1>2, <1>4, <2>2, Bystander, Zenon DEF HostClone, sets, queues
  <2> QED BY <2>1, <2>2, Zenon
<1> QED BY <1>1, <1>3, <1>4, <1>5, Zenon DEF SignalInv, NotReached

(* The host delivers a signal.  A handler can end the sigsuspend of        *)
(* abort_with_signal only if another thread installed it.                  *)
LEMMA DeliverStep == ASSUME SignalInv, NEW t \in Threads, NEW s \in All, Deliver(t, s) PROVE SignalInv'
<1>1. /\ ppend' \subseteq All /\ hpend' \in [Threads -> SUBSET All]
      /\ UNCHANGED <<sig, hact, sigact, sends, smask, sigmask>> /\ Started(t)
  <2>1. UNCHANGED <<sig, hact, sigact, sends, smask, sigmask>> /\ Started(t)
    BY Zenon DEF Deliver, sets
  <2>2. ppend \subseteq All /\ hpend \in [Threads -> SUBSET All]
    BY Types, Zenon DEF SignalInv, SignalTypeOK
  <2>3. CASE ppend' = ppend \ {s} /\ UNCHANGED hpend
    BY <2>1, <2>2, <2>3, Zenon
  <2>4. CASE hpend' = [hpend EXCEPT ![t] = @ \ {s}] /\ UNCHANGED ppend
    <3>1. hpend[t] \ {s} \in SUBSET All
      BY <2>2, Zenon
    <3> QED BY <2>1, <2>2, <2>4, <3>1, Zenon
  <2> QED BY <2>3, <2>4, Zenon DEF Deliver
<1>2. CASE hact[s] # "handler"
  <2>1. UNCHANGED <<pc, sigpending, late, hmask, dropped>> /\ dead' = ~Discards(hact[s], s)
    BY <1>2, Zenon DEF Deliver
  <2>2. dead' \in BOOLEAN
    BY <2>1, Zenon DEF Discards
  <2>3. SignalTypeOK'
    BY <1>1, <2>1, <2>2, Types, Zenon DEF SignalInv, SignalTypeOK
  <2>4. Alone' => Alone
    BY <2>1, Zenon DEF Alone
  <2>5. ASSUME NEW u \in Threads
        PROVE  (FaultBlocks(u) /\ Aborting(u) /\ Noted(u))' /\ (pc'[u] = "action" => sig'[u] \in Sigs)
    BY <1>1, <2>1, <2>4, Bystander, Zenon
  <2> QED BY <2>1, <2>3, <2>4, <2>5, Zenon DEF SignalInv, NotReached
<1>3. CASE hact[s] = "handler"
  <2>1. /\ dead' = dead
        /\ pc' \in [Threads -> Places] /\ \A u \in Threads \ {t} : pc'[u] = pc[u]
        /\ pc'[t] = CASE pc[t] = "wait" -> "end" [] pc[t] = "suspend" -> "unreachable" [] OTHER -> pc[t]
    BY <1>3 DEF Deliver, SignalInv, Places
  <2>2. \/ UNCHANGED <<sigpending, late, hmask>> /\ dropped' = dropped \union {s}
        \/ /\ sigpending' = [sigpending EXCEPT ![t] = s] /\ UNCHANGED dropped
           /\ late' = [late EXCEPT ![t] = (pc[t] = "update")]
           /\ hmask' = [hmask EXCEPT ![t] = All \ {Segv}]
    BY <1>3, Zenon DEF Deliver, HandlerMask
  <2>3. /\ hmask' \in [Threads -> SUBSET All] /\ sigpending' \in [Threads -> All \union {0}]
        /\ dropped' \subseteq All /\ late' \in [Threads -> BOOLEAN]
        /\ \A u \in Threads \ {t} :
             hmask'[u] = hmask[u] /\ sigpending'[u] = sigpending[u] /\ late'[u] = late[u]
        /\ \/ hmask'[t] = hmask[t] /\ sigpending'[t] = sigpending[t] /\ late'[t] = late[t]
           \/ hmask'[t] = All \ {Segv} /\ (pc[t] = "update" => late'[t])
    <3>1. CASE UNCHANGED <<sigpending, late, hmask>> /\ dropped' = dropped \union {s}
      BY <3>1, Types, Zenon DEF SignalInv, SignalTypeOK
    <3>2. CASE /\ sigpending' = [sigpending EXCEPT ![t] = s] /\ UNCHANGED dropped
               /\ late' = [late EXCEPT ![t] = (pc[t] = "update")]
               /\ hmask' = [hmask EXCEPT ![t] = All \ {Segv}]
      <4>1. hmask' \in [Threads -> SUBSET All] /\ hmask'[t] = All \ {Segv}
            /\ \A u \in Threads \ {t} : hmask'[u] = hmask[u]
        BY <3>2, Types, Zenon DEF SignalInv
      <4>2. sigpending' \in [Threads -> All \union {0}]
            /\ \A u \in Threads \ {t} : sigpending'[u] = sigpending[u]
        BY <3>2, Types, Zenon DEF SignalInv
      <4>3. /\ late' \in [Threads -> BOOLEAN] /\ (pc[t] = "update" => late'[t])
            /\ \A u \in Threads \ {t} : late'[u] = late[u]
        BY <3>2, Types, Zenon DEF SignalInv
      <4> QED BY <3>2, <4>1, <4>2, <4>3, Zenon DEF SignalInv, SignalTypeOK
    <3> QED BY <2>2, <3>1, <3>2, Zenon
  <2>4. SignalTypeOK'
    BY <1>1, <2>1, <2>3, Types DEF SignalInv, SignalTypeOK
  <2>5. Alone' => Alone
    BY <2>1, StaysAlone, Zenon DEF SignalInv, Started
  <2>6. pc[t] = "suspend" => sig[t] # Segv /\ ~Alone
    <3> SUFFICES ASSUME pc[t] = "suspend", sig[t] = Segv \/ Alone PROVE FALSE
      BY Zenon
    <3>1. smask[t] = All \ {AbortSig(sig[t])} /\ hact[AbortSig(sig[t])] = "dfl"
      BY Zenon DEF SignalInv, Aborting
    <3>2. s \notin smask[t]
      BY Zenon DEF Deliver, Blocked
    <3> QED BY <1>3, <3>1, <3>2, Zenon
  <2>7. (FaultBlocks(t) /\ Noted(t))'
    <3>1. pc[t] \notin {"none", "new"} /\ FaultBlocks(t) /\ Noted(t)
      BY <1>1, Zenon DEF SignalInv, Started
    <3>2. pc'[t] \notin {"none", "new"}
      BY <2>1, <3>1, Zenon
    <3>3. FaultBlocks(t)'
      BY <1>1, <2>1, <2>3, <2>6, <3>1, Zenon DEF FaultBlocks
    <3>4. pc'[t] = "update" => pc[t] = "update"
      BY <2>1, Zenon
    <3>5. pc[t] \in {"end", "clear"} => pc'[t] = pc[t]
      BY <2>1, Zenon
    <3> QED BY <2>3, <3>1, <3>2, <3>3, <3>4, <3>5, Zenon DEF Noted
  <2>8. Aborting(t)'
    <3>1. AbortSig(sig[t])' = AbortSig(sig[t])
      BY <1>1, Zenon DEF AbortSig
    <3> QED BY <1>1, <2>1, <2>5, <3>1, Zenon DEF SignalInv, Aborting
  <2>9. ASSUME NEW u \in Threads
        PROVE  (FaultBlocks(u) /\ Aborting(u) /\ Noted(u))' /\ (pc'[u] = "action" => sig'[u] \in Sigs)
    <3>1. CASE u = t
      BY <1>1, <2>1, <2>7, <2>8, <3>1, Zenon DEF SignalInv
    <3>2. CASE u # t
      BY <1>1, <2>1, <2>3, <2>5, <3>2, Bystander, Zenon
    <3> QED BY <3>1, <3>2, Zenon
  <2>10. NotReached'
    BY <2>1, <2>5, <2>6, Zenon DEF SignalInv, NotReached
  <2> QED BY <2>1, <2>4, <2>9, <2>10, Zenon DEF SignalInv
<1> QED BY <1>2, <1>3, Zenon

(* Nothing moves. *)
LEMMA Stutter == ASSUME SignalInv, UNCHANGED signalVars PROVE SignalInv'
<1>1. UNCHANGED <<dead, pc, sig, sigpending, late, hact, sigact, ppend, hpend, dropped, sends, hmask, smask, sigmask>>
  BY Zenon DEF signalVars, sets, queues, masks
<1>2. SignalTypeOK'
  BY <1>1, Zenon DEF SignalInv, SignalTypeOK
<1>3. Alone' <=> Alone
  BY <1>1, Zenon DEF Alone
<1>4. ASSUME NEW u \in Threads
      PROVE  (FaultBlocks(u) /\ Aborting(u) /\ Noted(u))' /\ (pc'[u] = "action" => sig'[u] \in Sigs)
  BY <1>1, <1>3, Bystander, Zenon
<1> QED BY <1>1, <1>2, <1>3, <1>4, Zenon DEF SignalInv, NotReached

(* Every step keeps the invariant. *)
LEMMA StepSignals == SignalInv /\ [SignalNext]_signalVars => SignalInv'
<1> SUFFICES ASSUME SignalInv, [SignalNext]_signalVars PROVE SignalInv'
  BY Zenon
<1>1. ASSUME NEW t \in Threads, Guest(t) PROVE SignalInv'
  BY <1>1, OtherStep, FaultStep, SigreturnStep, SigprocmaskStep, SigsuspendStep, SigactionStep,
     CloneStep, Zenon DEF Guest
<1>2. ASSUME NEW t \in Threads, Emulation(t) PROVE SignalInv'
  BY <1>2, CheckPendingStep, UpdateHostmaskStep, SetActionStep, HostCloneStep, EndStep, ClearStep,
     ActStep, AbortActionStep, AbortKillStep, Zenon DEF Emulation
<1> QED BY <1>1, <1>2, DeliverStep, SendStep, Stutter, Zenon DEF SignalNext

----------------------------------------------------------------------------

(* The inductive invariant holds throughout. *)
THEOREM SignalInvariance == SignalSpec => []SignalInv
<1> QED BY InitSignals, StepSignals, PTL DEF SignalSpec

(* The variables of signals and threads keep their types; whoever acts on  *)
(* a signal has one.                                                       *)
THEOREM SignalTypes == SignalSpec => []SignalTypeOK
<1>1. SignalInv => SignalTypeOK
  BY Zenon DEF SignalInv
<1> QED BY <1>1, SignalInvariance, PTL

(* SIGSEGV and SIGBUS are never masked in a thread that runs: the guest's  *)
(* mask is passed on without them, signal_handler returns with them        *)
(* unmasked, and a new thread copies the mask of one that runs.            *)
THEOREM NeverMasked == SignalSpec => []SegvUnmasked
<1>1. SignalInv => SegvUnmasked
  BY Zenon DEF SignalInv, FaultBlocks, SegvUnmasked
<1> QED BY <1>1, SignalInvariance, PTL

(* A noted signal keeps all others but SIGSEGV and SIGBUS blocked until it *)
(* is taken, but for the signal noted between sigprocmask's test and its   *)
(* update of the host's mask, and for the masks of the two sigsuspends.    *)
THEOREM NotedKeepsOthersOut == SignalSpec => []NotedBlocksOthers
<1>1. SignalInv => NotedBlocksOthers
  <2> SUFFICES ASSUME SignalInv, NEW t \in Threads, sigpending[t] # 0
               PROVE  \/ Sigs \subseteq Blocked(t)
                      \/ late[t] /\ pc[t] \in {"end", "clear"}
                      \/ pc[t] = "wait" /\ Sigs \subseteq hmask[t]
                      \/ pc[t] = "suspend" /\ Sigs \ {AbortSig(sig[t])} \subseteq Blocked(t)
    BY Zenon DEF NotedBlocksOthers
  <2>1. Noted(t) /\ Aborting(t)
    BY Zenon DEF SignalInv
  <2>2. CASE pc[t] = "suspend"
    <3>1. Blocked(t) = All \ {AbortSig(sig[t])}
      BY <2>1, <2>2, Zenon DEF Aborting, Blocked
    <3> QED BY <2>2, <3>1, Zenon
  <2>3. CASE pc[t] # "suspend"
    BY <2>1, <2>3, Zenon DEF Noted, Blocked
  <2> QED BY <2>2, <2>3, Zenon
<1> QED BY <1>1, SignalInvariance, PTL

(* With one thread the line behind abort_with_signal's sigsuspend is not   *)
(* reached.                                                                *)
THEOREM AbortStays == SignalSpec => []NotReached
<1>1. SignalInv => NotReached
  BY Zenon DEF SignalInv
<1> QED BY <1>1, SignalInvariance, PTL
==============================================================================
