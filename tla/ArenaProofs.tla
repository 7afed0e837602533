----------------------------- MODULE ArenaProofs -----------------------------
(* Proofs about the arena allocator, for every number of threads and every *)
(* arena, page and request size.                                           *)
EXTENDS Arena, TLAPS

(* Integer division, as the provers need it spelled out. *)
LEMMA DivMod ==
  ASSUME NEW v \in Int, NEW a \in Nat \ {0}
  PROVE  /\ v \div a \in Int
         /\ v % a \in 0 .. a - 1
         /\ v = a * (v \div a) + (v % a)
OBVIOUS

(* A multiple of a leaves no remainder. *)
LEMMA MultipleMod ==
  ASSUME NEW q \in Int, NEW a \in Nat \ {0}
  PROVE  (a * q) % a = 0
OBVIOUS

(* ALIGN_UP moves up by less than the alignment. *)
LEMMA AlignUpBounds ==
  ASSUME NEW v \in Int, NEW a \in Nat \ {0}
  PROVE  /\ AlignUp(v, a) \in Int
         /\ v <= AlignUp(v, a)
         /\ AlignUp(v, a) < v + a
BY DEF AlignUp

(* ALIGN_UP yields a multiple of the alignment. *)
LEMMA AlignUpMultiple ==
  ASSUME NEW v \in Int, NEW a \in Nat \ {0}
  PROVE  /\ AlignUp(v, a) = a * (-((-v) \div a))
         /\ AlignUp(v, a) % a = 0
<1>1. -v \in Int OBVIOUS
<1>2. -v = a * ((-v) \div a) + ((-v) % a)
  BY <1>1, DivMod, Zenon
<1>3. AlignUp(v, a) = a * (-((-v) \div a))
  BY <1>1, <1>2, DivMod DEF AlignUp
<1>4. -((-v) \div a) \in Int
  BY <1>1, DivMod
<1>5. (a * (-((-v) \div a))) % a = 0
  BY <1>4, MultipleMod, Zenon
<1> QED BY <1>3, <1>5, Zenon

(* ALIGN_UP yields the least such multiple. *)
LEMMA AlignUpLeast ==
  ASSUME NEW v \in Int, NEW a \in Nat \ {0}, NEW d \in Int, d % a = 0, v <= d
  PROVE  AlignUp(v, a) <= d
<1> DEFINE p == d \div a
           q == -((-v) \div a)
<1>1. p \in Int /\ q \in Int /\ d = a * p /\ AlignUp(v, a) = a * q
  BY DivMod, AlignUpMultiple
<1>2. a * q < a * p + a
  <2>1. AlignUp(v, a) < v + a
    BY AlignUpBounds, Zenon
  <2> HIDE DEF p, q
  <2> QED BY <1>1, <2>1
<1>3. q <= p
  <2> HIDE DEF p, q
  <2> QED BY <1>1, <1>2
<1> QED
  <2> HIDE DEF p, q
  <2> QED BY <1>1, <1>3

----------------------------------------------------------------------------
(* The inductive invariant.  Beside the properties themselves it records   *)
(* what a thread knows between two of its steps: the claim it is about to  *)
(* make lies above the brk it read, and under the lock its cur_brkp is     *)
(* still brkp.                                                             *)

ClaimedBelowBrk ==
  \A i \in DOMAIN allocs : allocs[i].base + allocs[i].size <= brk

AboutToClaim(t) ==
  pc[t] = "cas" => /\ old[t] <= result[t]
                   /\ result[t] % req[t].align = 0
                   /\ NeedEnd(t) <= End

Extending(t) ==
  pc[t] \in {"mprotect", "publish"} => old[t] = brkp /\ old[t] < NeedEnd(t)

LocalKnowledge ==
  \A t \in Threads :
    /\ AboutToClaim(t)
    /\ pc[t] \in Claiming => NeedEnd(t) <= End
    /\ Extending(t)
    /\ pc[t] \in Critical => lock = 1

Inv ==
  /\ TypeOK
  /\ brkp % PageSize = 0
  /\ ClaimedBelowBrk
  /\ Disjoint
  /\ LocalKnowledge
  /\ MutualExclusion

(* What the threads know about pages that were backed, or refused. *)
BackedInv ==
  /\ BrkpIsBacked
  /\ \A t \in Threads :
       /\ pc[t] = "publish" => old[t] .. NewBrkp(t) - 1 \subseteq backed \union refused
       /\ pc[t] = "unlock" => NeedEnd(t) <= brkp


(* The inductive invariant holds when arena_init is done. *)
LEMMA InitInv == Init => Inv
BY ArenaAssumption DEF Init, Inv, TypeOK, ClaimedBelowBrk, Disjoint, LocalKnowledge, AboutToClaim, Extending, Claiming, Critical, NeedEnd, NoReq, MutualExclusion

(* The types of the local variables of a call. *)
LEMMA LocalTypes ==
  ASSUME TypeOK, NEW t \in Threads
  PROVE  /\ req[t].size \in Nat /\ req[t].align \in Nat \ {0}
         /\ old[t] \in Start .. End /\ result[t] \in Start .. End
         /\ NeedEnd(t) \in Int /\ result[t] <= NeedEnd(t)
         /\ Start \in Int /\ End \in Int
<1>1. /\ req[t] \in [size : Sizes \union {0},
                     align : (Alignments \union {MinAlign}) \ {0}]
      /\ old[t] \in Start .. End /\ result[t] \in Start .. End
  BY Zenon DEF TypeOK
<1>2. req[t].size \in Sizes \union {0} /\ req[t].align \in (Alignments \union {MinAlign}) \ {0}
  BY <1>1, Zenon
<1>3. req[t].size \in Nat /\ req[t].align \in Nat \ {0}
  <2>1. /\ \A s \in Sizes \union {0} : s \in Nat
        /\ \A a \in (Alignments \union {MinAlign}) \ {0} : a \in Nat \ {0}
    BY ArenaAssumption
  <2> QED BY <1>2, <2>1, Zenon
<1>4. Start \in Int /\ End \in Int
  BY ArenaAssumption
<1> QED BY <1>1, <1>3, <1>4 DEF NeedEnd

(* The types of a claim. *)
LEMMA ClaimTypes ==
  ASSUME TypeOK, NEW i \in DOMAIN allocs
  PROVE  allocs[i].base \in Int /\ allocs[i].size \in Int
<1> DEFINE R == [base : Start .. End, size : Sizes,
                 align : (Alignments \union {MinAlign}) \ {0}]
<1>1. allocs[i] \in R
  <2>1. allocs \in Seq(R)
    BY Zenon DEF TypeOK
  <2> HIDE DEF R
  <2> QED BY <2>1
<1>2. \A s \in Sizes : s \in Int
  BY ArenaAssumption
<1>3. \A b \in Start .. End : b \in Int
  BY ArenaAssumption
<1>4. allocs[i].base \in Start .. End /\ allocs[i].size \in Sizes
  BY <1>1, Zenon
<1> QED BY <1>2, <1>3, <1>4, Zenon

(* The new end of the backed part covers the request, and the round-up to  *)
(* whole pages never passes the end of the arena.                          *)
LEMMA NewBrkpFits ==
  ASSUME Inv, NEW t \in Threads, pc[t] \in {"mprotect", "publish"}
  PROVE  /\ NewBrkp(t) \in Start .. End
         /\ NewBrkp(t) % PageSize = 0
         /\ NeedEnd(t) <= NewBrkp(t)
         /\ brkp < NewBrkp(t)
<1> USE ArenaAssumption
<1> DEFINE x == NeedEnd(t) - old[t]
           d == End - old[t]
<1>1. /\ old[t] \in Start .. End /\ old[t] % PageSize = 0 /\ old[t] = brkp
      /\ NeedEnd(t) \in Int /\ old[t] < NeedEnd(t) /\ NeedEnd(t) <= End
  <2>1. old[t] = brkp /\ old[t] < NeedEnd(t) /\ NeedEnd(t) <= End
    BY Zenon DEF Inv, LocalKnowledge, Extending, Claiming
  <2>2. brkp % PageSize = 0 /\ TypeOK
    BY Zenon DEF Inv
  <2> QED BY <2>1, <2>2, LocalTypes, Zenon
<1>2. x \in Int /\ d \in Int /\ x <= d /\ 0 < x
  BY <1>1
<1>3. d % PageSize = 0
  <2>1. /\ End = PageSize * (End \div PageSize) /\ End \div PageSize \in Int
        /\ old[t] = PageSize * (old[t] \div PageSize) /\ old[t] \div PageSize \in Int
    <3>1. \A v \in Int : v % PageSize = 0 =>
            v = PageSize * (v \div PageSize) /\ v \div PageSize \in Int
      BY DivMod
    <3> QED BY <1>1, <3>1
  <2>2. d = PageSize * ((End \div PageSize) - (old[t] \div PageSize))
    BY <2>1
  <2>3. (End \div PageSize) - (old[t] \div PageSize) \in Int
    BY <2>1
  <2> QED BY <2>2, <2>3, MultipleMod, Zenon
<1>4. /\ AlignUp(x, PageSize) \in Int
      /\ x <= AlignUp(x, PageSize)
      /\ AlignUp(x, PageSize) <= d
      /\ AlignUp(x, PageSize) % PageSize = 0
  <2> HIDE DEF x, d
  <2> QED BY <1>2, <1>3, AlignUpBounds, AlignUpLeast, AlignUpMultiple, Zenon
<1>5. NewBrkp(t) = old[t] + AlignUp(x, PageSize)
  BY Zenon DEF NewBrkp
<1>6. (old[t] + AlignUp(x, PageSize)) % PageSize = 0
  <2> DEFINE y == AlignUp(x, PageSize)
  <2>1. /\ y = PageSize * (y \div PageSize) /\ y \div PageSize \in Int
        /\ old[t] = PageSize * (old[t] \div PageSize) /\ old[t] \div PageSize \in Int
    <3> HIDE DEF y
    <3>1. \A v \in Int : v % PageSize = 0 =>
            v = PageSize * (v \div PageSize) /\ v \div PageSize \in Int
      BY DivMod
    <3>2. y \in Int /\ y % PageSize = 0
      BY <1>4, Zenon DEF y
    <3> QED BY <1>1, <3>1, <3>2
  <2>2. old[t] + y = PageSize * ((old[t] \div PageSize) + (y \div PageSize))
    <3> HIDE DEF y
    <3> QED BY <2>1
  <2>3. (old[t] \div PageSize) + (y \div PageSize) \in Int
    BY <2>1
  <2> QED
    <3> HIDE DEF y
    <3> QED BY <2>2, <2>3, MultipleMod, Zenon DEF y
<1> QED BY <1>1, <1>4, <1>5, <1>6

(* A call that ends leaves what the threads know as it was. *)
LEMMA ReturnKnowledge ==
  ASSUME Inv, NEW t \in Threads, Return(t), UNCHANGED <<lock, brkp>>
  PROVE  LocalKnowledge'
<1>1. ASSUME NEW u \in Threads, u # t
      PROVE  UNCHANGED <<pc[u], req[u], old[u], result[u]>>
  BY <1>1, Zenon DEF Inv, TypeOK, Return
<1>2. pc'[t] = "idle"
  BY Zenon DEF Inv, TypeOK, Return
<1>3. ASSUME NEW u \in Threads
      PROVE  (/\ AboutToClaim(u)
              /\ pc[u] \in Claiming => NeedEnd(u) <= End
              /\ Extending(u)
              /\ pc[u] \in Critical => lock = 1)'
  <2>1. CASE u = t
    BY <1>2, <2>1, Zenon DEF AboutToClaim, Extending, Claiming, Critical
  <2>2. CASE u # t
    BY <1>1, <2>2 DEF Inv, LocalKnowledge, AboutToClaim, Extending, NeedEnd
  <2> QED BY <2>1, <2>2, Zenon
<1> QED BY <1>3, Zenon DEF LocalKnowledge

(* The local variables keep their types: what a call may assign to them. *)
LEMMA ReturnTypes ==
  ASSUME TypeOK, NEW t \in Threads, Return(t)
  PROVE  /\ pc' \in [Threads -> {"idle", "load", "cas", "gone"} \union Claiming]
         /\ req' \in [Threads -> [size : Sizes \union {0},
                                  align : (Alignments \union {MinAlign}) \ {0}]]
         /\ old' \in [Threads -> Start .. End]
         /\ result' \in [Threads -> Start .. End]
<1>1. Start \in Start .. End /\ MinAlign # 0
  BY ArenaAssumption
<1> QED BY <1>1, Zenon DEF Return, NoReq, TypeOK, Claiming

(* A step that appends the claim above brk keeps the claims ordered. *)
LEMMA AppendClaim ==
  ASSUME Inv, NEW t \in Threads, CasSucceeds(t), req[t].size # 0
  PROVE  /\ allocs' \in Seq([base : Start .. End, size : Sizes,
                             align : (Alignments \union {MinAlign}) \ {0}])
         /\ DOMAIN allocs' = 1 .. Len(allocs) + 1
         /\ Len(allocs) \in Nat
         /\ DOMAIN allocs = 1 .. Len(allocs)
         /\ \A i \in DOMAIN allocs : allocs'[i] = allocs[i]
         /\ allocs'[Len(allocs) + 1].base = result[t]
         /\ allocs'[Len(allocs) + 1].size = req[t].size
<1> DEFINE R == [base : Start .. End, size : Sizes,
                 align : (Alignments \union {MinAlign}) \ {0}]
           r == [base |-> result[t], size |-> req[t].size, align |-> req[t].align]
<1>1. r \in R
  <2>1. req[t] \in [size : Sizes \union {0}, align : (Alignments \union {MinAlign}) \ {0}]
    BY Zenon DEF Inv, TypeOK
  <2>2. result[t] \in Start .. End
    BY Zenon DEF Inv, TypeOK
  <2> QED BY <2>1, <2>2, Zenon
<1>2. allocs \in Seq(R) /\ allocs' = Append(allocs, r)
  BY Zenon DEF Inv, TypeOK, CasSucceeds
<1> HIDE DEF R, r
<1>3. /\ allocs' \in Seq(R)
      /\ DOMAIN allocs' = 1 .. Len(allocs) + 1
      /\ Len(allocs) \in Nat
      /\ DOMAIN allocs = 1 .. Len(allocs)
      /\ \A i \in DOMAIN allocs : allocs'[i] = allocs[i]
      /\ allocs'[Len(allocs) + 1] = r
  BY <1>1, <1>2
<1> QED BY <1>3 DEF R, r

(* Every step preserves the inductive invariant. *)
LEMMA StepInv == Inv /\ [Next]_vars => Inv'
<1> SUFFICES ASSUME Inv, [Next]_vars PROVE Inv'
  BY Zenon
<1> USE ArenaAssumption
<1>1. ASSUME NEW t \in Threads, Call(t) PROVE Inv'
  <2>1. TypeOK'
    BY <1>1 DEF Inv, Call, Goto, NoReq, EffectiveAlign, TypeOK, Claiming
  <2>2. (brkp % PageSize = 0)'
    BY <1>1, Zenon DEF Inv, Call
  <2>3. ClaimedBelowBrk' /\ Disjoint'
    BY <1>1, Zenon DEF Inv, Call, ClaimedBelowBrk, Disjoint
  <2>4. LocalKnowledge'
    BY <1>1 DEF Inv, Call, Goto, LocalKnowledge, AboutToClaim, Extending,
         Claiming, Critical, NeedEnd, TypeOK, MutualExclusion
  <2>5. MutualExclusion'
    BY <1>1, ZenonT(30) DEF Inv, Call, Goto, MutualExclusion, Critical, LocalKnowledge, TypeOK
  <2> QED BY <2>1, <2>2, <2>3, <2>4, <2>5, Zenon DEF Inv
<1>2. ASSUME NEW t \in Threads, LoadBrk(t) PROVE Inv'
  <2>1. TypeOK'
    <3>1. CASE AlignUp(brk, req[t].align) + req[t].size > End
      BY <1>2, <3>1, ReturnTypes, Zenon DEF Inv, LoadBrk, TypeOK
    <3>2. CASE ~(AlignUp(brk, req[t].align) + req[t].size > End)
      <4>1. brk \in Start .. End /\ req[t].align \in Nat \ {0} /\ req[t].size \in Nat
        BY LocalTypes, Zenon DEF Inv, TypeOK
      <4>2. AlignUp(brk, req[t].align) \in Start .. End
        <5>1. AlignUp(brk, req[t].align) \in Int /\ brk <= AlignUp(brk, req[t].align)
          <6>1. brk \in Int /\ req[t].align \in Nat \ {0}
            BY LocalTypes DEF Inv, TypeOK
          <6> QED BY <6>1, AlignUpBounds, Zenon
        <5> HIDE DEF AlignUp
        <5> QED BY <3>2, <4>1, <5>1
      <4>3. /\ old' = [old EXCEPT ![t] = brk]
            /\ result' = [result EXCEPT ![t] = AlignUp(brk, req[t].align)]
            /\ pc' = [pc EXCEPT ![t] = "cas"]
            /\ UNCHANGED <<req, brk, brkp, lock, allocs, backed, refused>>
        BY <1>2, <3>2, Zenon DEF LoadBrk, Goto
      <4> QED BY <4>1, <4>2, <4>3, Zenon DEF Inv, TypeOK, Claiming
    <3> QED BY <3>1, <3>2, Zenon
  <2>2. (brkp % PageSize = 0)'
    BY <1>2, Zenon DEF Inv, LoadBrk
  <2>3. ClaimedBelowBrk' /\ Disjoint'
    BY <1>2, Zenon DEF Inv, LoadBrk, ClaimedBelowBrk, Disjoint
  <2>4. LocalKnowledge'
    <3>1. /\ AlignUp(brk, req[t].align) \in Int
          /\ brk <= AlignUp(brk, req[t].align)
          /\ AlignUp(brk, req[t].align) % req[t].align = 0
      <4>1. brk \in Int /\ req[t].align \in Nat \ {0}
        BY LocalTypes DEF Inv, TypeOK
      <4> QED BY <4>1, AlignUpBounds, AlignUpMultiple, Zenon
    <3>2. CASE AlignUp(brk, req[t].align) + req[t].size > End
      BY <1>2, <3>2, ReturnKnowledge, Zenon DEF LoadBrk
    <3>3. CASE ~(AlignUp(brk, req[t].align) + req[t].size > End)
      <4>1. req[t].size \in Nat /\ End \in Int
        BY LocalTypes, Zenon DEF Inv
      <4>2. AlignUp(brk, req[t].align) + req[t].size <= End
        BY <3>1, <3>3, <4>1
      <4> QED BY <1>2, <3>1, <3>3, <4>2 DEF Inv, LoadBrk, Goto, TypeOK, LocalKnowledge,
                AboutToClaim, Extending, Claiming, Critical, NeedEnd
    <3> QED BY <3>2, <3>3, Zenon
  <2>5. MutualExclusion'
    BY <1>2 DEF Inv, LoadBrk, Goto, Return, MutualExclusion, Critical, LocalKnowledge, TypeOK
  <2> QED BY <2>1, <2>2, <2>3, <2>4, <2>5, Zenon DEF Inv
<1>3. ASSUME NEW t \in Threads, CasSucceeds(t) PROVE Inv'
  <2>1. TypeOK'
    <3>1. NeedEnd(t) \in Start .. End
      BY <1>3, LocalTypes DEF Inv, CasSucceeds, LocalKnowledge, AboutToClaim
    <3>2. allocs' \in Seq([base : Start .. End, size : Sizes,
                          align : (Alignments \union {MinAlign}) \ {0}])
      BY <1>3, AppendClaim, Zenon DEF Inv, TypeOK, CasSucceeds
    <3> QED BY <1>3, <3>1, <3>2, Zenon DEF Inv, CasSucceeds, Goto, TypeOK, Claiming
  <2>2. (brkp % PageSize = 0)'
    BY <1>3, Zenon DEF Inv, CasSucceeds
  <2>3. ClaimedBelowBrk' /\ Disjoint'
    <3>1. /\ brk = old[t] /\ brk' = NeedEnd(t)
          /\ old[t] <= result[t] /\ result[t] <= NeedEnd(t)
          /\ NeedEnd(t) \in Int /\ result[t] \in Int /\ old[t] \in Int
      BY <1>3, LocalTypes DEF Inv, CasSucceeds, LocalKnowledge, AboutToClaim
    <3>2. CASE req[t].size = 0
      <4>1. \A i \in DOMAIN allocs : allocs[i].base \in Int /\ allocs[i].size \in Int
        BY ClaimTypes, Zenon DEF Inv
      <4> QED BY <1>3, <3>1, <3>2, <4>1
                DEF Inv, CasSucceeds, ClaimedBelowBrk, Disjoint
    <3>3. CASE req[t].size # 0
      <4>1. /\ DOMAIN allocs' = 1 .. Len(allocs) + 1
            /\ Len(allocs) \in Nat
            /\ DOMAIN allocs = 1 .. Len(allocs)
            /\ \A i \in DOMAIN allocs :
                 /\ allocs'[i] = allocs[i]
                 /\ allocs[i].base \in Int /\ allocs[i].size \in Int
            /\ allocs'[Len(allocs) + 1].base = result[t]
            /\ allocs'[Len(allocs) + 1].size = req[t].size
        <5>1. /\ DOMAIN allocs' = 1 .. Len(allocs) + 1
              /\ Len(allocs) \in Nat
              /\ DOMAIN allocs = 1 .. Len(allocs)
              /\ \A i \in DOMAIN allocs : allocs'[i] = allocs[i]
              /\ allocs'[Len(allocs) + 1].base = result[t]
              /\ allocs'[Len(allocs) + 1].size = req[t].size
          BY <1>3, <3>3, AppendClaim, Zenon
        <5> QED BY <5>1, ClaimTypes, Zenon DEF Inv
      <4>2. \A i \in DOMAIN allocs : allocs[i].base + allocs[i].size <= result[t]
        BY <3>1, <4>1 DEF Inv, ClaimedBelowBrk
      <4>3. ClaimedBelowBrk'
        BY <3>1, <4>1, <4>2 DEF ClaimedBelowBrk, NeedEnd
      <4>4. Disjoint'
        BY <4>1, <4>2 DEF Inv, Disjoint
      <4> QED BY <4>3, <4>4, Zenon
    <3> QED BY <3>2, <3>3, Zenon
  <2>4. LocalKnowledge'
    BY <1>3, Zenon DEF Inv, CasSucceeds, Goto, LocalKnowledge, AboutToClaim, Extending,
         Claiming, Critical, NeedEnd, TypeOK, MutualExclusion
  <2>5. MutualExclusion'
    BY <1>3, Zenon DEF Inv, CasSucceeds, Goto, MutualExclusion, Critical, LocalKnowledge, TypeOK
  <2> QED BY <2>1, <2>2, <2>3, <2>4, <2>5, Zenon DEF Inv
<1>4. ASSUME NEW t \in Threads, CasFails(t) PROVE Inv'
  <2>1. TypeOK'
    BY <1>4, Zenon DEF Inv, CasFails, Goto, TypeOK, Claiming
  <2>2. (brkp % PageSize = 0)'
    BY <1>4, Zenon DEF Inv, CasFails
  <2>3. ClaimedBelowBrk' /\ Disjoint'
    BY <1>4, Zenon DEF Inv, CasFails, ClaimedBelowBrk, Disjoint
  <2>4. LocalKnowledge'
    BY <1>4, Zenon DEF Inv, CasFails, Goto, LocalKnowledge, AboutToClaim, Extending,
         Claiming, Critical, NeedEnd, TypeOK, MutualExclusion
  <2>5. MutualExclusion'
    BY <1>4, Zenon DEF Inv, CasFails, Goto, MutualExclusion, Critical, LocalKnowledge, TypeOK
  <2> QED BY <2>1, <2>2, <2>3, <2>4, <2>5, Zenon DEF Inv
<1>5. ASSUME NEW t \in Threads, FastCheck(t) PROVE Inv'
  <2>1. TypeOK'
    <3>1. CASE NeedEnd(t) <= brkp
      BY <1>5, <3>1, ReturnTypes, Zenon DEF Inv, FastCheck, TypeOK
    <3>2. CASE ~(NeedEnd(t) <= brkp)
      BY <1>5, <3>2, Zenon DEF Inv, FastCheck, Goto, TypeOK, Claiming
    <3> QED BY <3>1, <3>2, Zenon
  <2>2. (brkp % PageSize = 0)'
    BY <1>5, Zenon DEF Inv, FastCheck
  <2>3. ClaimedBelowBrk' /\ Disjoint'
    BY <1>5, Zenon DEF Inv, FastCheck, ClaimedBelowBrk, Disjoint
  <2>4. LocalKnowledge'
    <3>1. CASE NeedEnd(t) <= brkp
      BY <1>5, <3>1, ReturnKnowledge, Zenon DEF FastCheck
    <3>2. CASE ~(NeedEnd(t) <= brkp)
      BY <1>5, <3>2 DEF Inv, FastCheck, Goto, LocalKnowledge, AboutToClaim, Extending,
           Claiming, Critical, NeedEnd, TypeOK, MutualExclusion
    <3> QED BY <3>1, <3>2, Zenon
  <2>5. MutualExclusion'
    BY <1>5 DEF Inv, FastCheck, Goto, Return, MutualExclusion, Critical, LocalKnowledge, TypeOK
  <2> QED BY <2>1, <2>2, <2>3, <2>4, <2>5, Zenon DEF Inv
<1>6. ASSUME NEW t \in Threads, Lock(t) PROVE Inv'
  <2>1. TypeOK'
    BY <1>6, Zenon DEF Inv, Lock, Goto, TypeOK, Claiming
  <2>2. (brkp % PageSize = 0)'
    BY <1>6, Zenon DEF Inv, Lock
  <2>3. ClaimedBelowBrk' /\ Disjoint'
    BY <1>6, Zenon DEF Inv, Lock, ClaimedBelowBrk, Disjoint
  <2>4. LocalKnowledge'
    BY <1>6, Zenon DEF Inv, Lock, Goto, LocalKnowledge, AboutToClaim, Extending,
         Claiming, Critical, NeedEnd, TypeOK, MutualExclusion
  <2>5. MutualExclusion'
    BY <1>6 DEF Inv, Lock, Goto, MutualExclusion, Critical, LocalKnowledge, TypeOK
  <2> QED BY <2>1, <2>2, <2>3, <2>4, <2>5, Zenon DEF Inv
<1>7. ASSUME NEW t \in Threads, Recheck(t) PROVE Inv'
  <2>1. TypeOK'
    BY <1>7, Zenon DEF Inv, Recheck, Goto, TypeOK, Claiming
  <2>2. (brkp % PageSize = 0)'
    BY <1>7, Zenon DEF Inv, Recheck
  <2>3. ClaimedBelowBrk' /\ Disjoint'
    BY <1>7, Zenon DEF Inv, Recheck, ClaimedBelowBrk, Disjoint
  <2>4. LocalKnowledge'
    BY <1>7, Zenon DEF Inv, Recheck, Goto, LocalKnowledge, AboutToClaim, Extending,
         Claiming, Critical, NeedEnd, TypeOK, MutualExclusion
  <2>5. MutualExclusion'
    BY <1>7, Zenon DEF Inv, Recheck, Goto, MutualExclusion, Critical, LocalKnowledge, TypeOK
  <2> QED BY <2>1, <2>2, <2>3, <2>4, <2>5, Zenon DEF Inv
<1>8. ASSUME NEW t \in Threads, Mprotect(t) PROVE Inv'
  <2>1. TypeOK'
    <3>1. backed' \subseteq Start .. End - 1 /\ refused' \subseteq Start .. End - 1
      <4>1. old[t] \in Start .. End /\ NewBrkp(t) \in Start .. End
        BY <1>8, NewBrkpFits, LocalTypes, Zenon DEF Inv, Mprotect
      <4>2. old[t] .. NewBrkp(t) - 1 \subseteq Start .. End - 1
        BY <4>1
      <4> QED BY <1>8, <4>2, Zenon DEF Inv, TypeOK, Mprotect
    <3> QED BY <1>8, <3>1, Zenon DEF Inv, Mprotect, Goto, TypeOK, Claiming
  <2>2. (brkp % PageSize = 0)'
    BY <1>8, Zenon DEF Inv, Mprotect
  <2>3. ClaimedBelowBrk' /\ Disjoint'
    BY <1>8, Zenon DEF Inv, Mprotect, ClaimedBelowBrk, Disjoint
  <2>4. LocalKnowledge'
    BY <1>8, Zenon DEF Inv, Mprotect, Goto, LocalKnowledge, AboutToClaim, Extending,
         Claiming, Critical, NeedEnd, TypeOK, MutualExclusion
  <2>5. MutualExclusion'
    BY <1>8, Zenon DEF Inv, Mprotect, Goto, MutualExclusion, Critical, LocalKnowledge, TypeOK
  <2> QED BY <2>1, <2>2, <2>3, <2>4, <2>5, Zenon DEF Inv
<1>9. ASSUME NEW t \in Threads, PublishBrkp(t) PROVE Inv'
  <2>1. TypeOK'
    BY <1>9, NewBrkpFits, Zenon DEF Inv, PublishBrkp, Goto, TypeOK, Claiming
  <2>2. (brkp % PageSize = 0)'
    BY <1>9, NewBrkpFits, Zenon DEF Inv, PublishBrkp
  <2>3. ClaimedBelowBrk' /\ Disjoint'
    BY <1>9, Zenon DEF Inv, PublishBrkp, ClaimedBelowBrk, Disjoint
  <2>4. LocalKnowledge'
    BY <1>9, Zenon DEF Inv, PublishBrkp, Goto, LocalKnowledge, AboutToClaim, Extending,
         Claiming, Critical, NeedEnd, TypeOK, MutualExclusion
  <2>5. MutualExclusion'
    BY <1>9, Zenon DEF Inv, PublishBrkp, Goto, MutualExclusion, Critical, LocalKnowledge, TypeOK
  <2> QED BY <2>1, <2>2, <2>3, <2>4, <2>5, Zenon DEF Inv
<1>10. ASSUME NEW t \in Threads, Unlock(t) PROVE Inv'
  <2>1. TypeOK'
    BY <1>10 DEF Inv, Unlock, Return, NoReq, TypeOK, Claiming
  <2>2. (brkp % PageSize = 0)'
    BY <1>10, Zenon DEF Inv, Unlock
  <2>3. ClaimedBelowBrk' /\ Disjoint'
    BY <1>10, Zenon DEF Inv, Unlock, ClaimedBelowBrk, Disjoint
  <2>4. LocalKnowledge'
    BY <1>10, Zenon DEF Inv, Unlock, Return, LocalKnowledge, AboutToClaim, Extending,
         Claiming, Critical, NeedEnd, TypeOK, MutualExclusion
  <2>5. MutualExclusion'
    BY <1>10, Zenon DEF Inv, Unlock, Return, MutualExclusion, Critical, LocalKnowledge, TypeOK
  <2> QED BY <2>1, <2>2, <2>3, <2>4, <2>5, Zenon DEF Inv
<1>11. ASSUME NEW t \in Threads, Fork(t) PROVE Inv'
  <2>1. TypeOK'
    BY <1>11, Zenon DEF Inv, Fork, TypeOK, Claiming
  <2>2. (brkp % PageSize = 0)'
    BY <1>11, Zenon DEF Inv, Fork
  <2>3. ClaimedBelowBrk' /\ Disjoint'
    BY <1>11, Zenon DEF Inv, Fork, ClaimedBelowBrk, Disjoint
  <2>4. LocalKnowledge'
    BY <1>11, Zenon DEF Inv, Fork, LocalKnowledge, AboutToClaim, Extending,
         Claiming, Critical, NeedEnd, TypeOK, MutualExclusion
  <2>5. MutualExclusion'
    BY <1>11, Zenon DEF Inv, Fork, MutualExclusion, Critical, LocalKnowledge, TypeOK
  <2> QED BY <2>1, <2>2, <2>3, <2>4, <2>5, Zenon DEF Inv
<1>12. CASE UNCHANGED vars
  BY <1>12, Zenon DEF vars, Inv, TypeOK, ClaimedBelowBrk, Disjoint, LocalKnowledge,
       AboutToClaim, Extending, Claiming, Critical, NeedEnd, MutualExclusion
<1> QED
  BY <1>1, <1>2, <1>3, <1>4, <1>5, <1>6, <1>7, <1>8, <1>9, <1>10, <1>11, <1>12, Zenon DEF Next, Step

(* The strengthened invariant holds in every behaviour of the allocator. *)
THEOREM Invariance == Spec => []Inv
<1> QED BY InitInv, StepInv, PTL DEF Spec

(* The claims and counters of the arena keep their types: brk and brkp stay *)
(* inside the mapped range although every thread moves them.                *)
THEOREM TypeCorrect == Spec => []TypeOK
<1>1. Inv => TypeOK BY Zenon DEF Inv
<1> QED BY <1>1, Invariance, PTL

(* Whatever the interleaving of the CAS loops of arena_alloc, and also when *)
(* mprotect fails or the process forks, no two claims overlap.              *)
THEOREM ClaimsDisjoint == Spec => []Disjoint
<1>1. Inv => Disjoint BY Zenon DEF Inv
<1> QED BY <1>1, Invariance, PTL

(* The spin lock of arena_ensure_backed excludes. *)
THEOREM LockExcludes == Spec => []MutualExclusion
<1>1. Inv => MutualExclusion BY Zenon DEF Inv
<1> QED BY <1>1, Invariance, PTL

----------------------------------------------------------------------------
(* Refinement *)

(* A step of arena_alloc claims one fresh region or leaves the claims alone. *)
LEMMA StepClaims == Inv /\ [Next]_vars => [Promise!Next]_allocs
<1> SUFFICES ASSUME Inv, [Next]_vars, allocs' # allocs PROVE Promise!Next
  BY Zenon DEF Promise!Next
<1>1. PICK t \in Threads : CasSucceeds(t)
  BY Zenon DEF Next, Step, Call, LoadBrk, CasFails, FastCheck, Lock, Recheck,
         Mprotect, PublishBrkp, Unlock, Fork, vars
<1> DEFINE r == [base |-> result[t], size |-> req[t].size, align |-> req[t].align]
<1>2. req[t].size # 0 /\ allocs' = Append(allocs, r)
  BY <1>1, Zenon DEF CasSucceeds
<1>3. /\ result[t] \in Start .. End
      /\ req[t].size \in Sizes
      /\ req[t].align \in Alignments \union {MinAlign}
  <2>1. req[t] \in [size : Sizes \union {0}, align : (Alignments \union {MinAlign}) \ {0}]
    BY Zenon DEF Inv, TypeOK
  <2>2. result[t] \in Start .. End
    BY Zenon DEF Inv, TypeOK
  <2> QED BY <1>2, <2>1, <2>2, Zenon
<1>4. /\ result[t] + req[t].size <= End
      /\ result[t] % req[t].align = 0
      /\ brk <= result[t]
  BY <1>1, Zenon DEF Inv, LocalKnowledge, AboutToClaim, CasSucceeds, NeedEnd
<1>5. \A i \in DOMAIN allocs : ~ Promise!Overlap(r, allocs[i])
  <2> SUFFICES ASSUME NEW i \in DOMAIN allocs PROVE ~ Promise!Overlap(r, allocs[i])
    BY Zenon
  <2>1. allocs[i].base + allocs[i].size <= brk
    BY Zenon DEF Inv, ClaimedBelowBrk
  <2>2. allocs[i].base \in Int /\ allocs[i].size \in Int /\ brk \in Int /\ result[t] \in Int
    <3>1. TypeOK /\ brk \in Int
      BY ArenaAssumption DEF Inv, TypeOK
    <3>2. result[t] \in Int
      BY <1>3, ArenaAssumption
    <3> QED BY <3>1, <3>2, ClaimTypes, Zenon
  <2> QED BY <1>4, <2>1, <2>2 DEF Promise!Overlap
<1>6. Promise!Alloc(result[t], req[t].size, req[t].align)
  BY <1>2, <1>4, <1>5, Zenon DEF Promise!Alloc
<1> QED BY <1>3, <1>6, Zenon DEF Promise!Next

(* The arena implements the abstract allocator: concurrent CAS loops hand   *)
(* out fresh, aligned regions one at a time.                                *)
THEOREM Refinement == Spec => ImplementsAllocator
<1>1. Init => Promise!Init
  BY Zenon DEF Init, Promise!Init
<1> QED BY <1>1, StepClaims, Invariance, PTL DEF Spec, ImplementsAllocator, Promise!Spec

----------------------------------------------------------------------------
(* The backed part *)

(* A step moves brkp under the lock only, and never back. *)
LEMMA StepGrows ==
  Inv /\ [Next]_vars =>
    /\ brk <= brk' /\ brkp <= brkp'
    /\ backed \subseteq backed' /\ refused \subseteq refused'
    /\ (brkp # brkp' => lock = 1)
<1> SUFFICES ASSUME Inv, [Next]_vars
             PROVE  /\ brk <= brk' /\ brkp <= brkp'
                    /\ backed \subseteq backed' /\ refused \subseteq refused'
                    /\ (brkp # brkp' => lock = 1)
  BY Zenon
<1>1. brk \in Int /\ brkp \in Int
  BY ArenaAssumption DEF Inv, TypeOK
<1>2. ASSUME NEW t \in Threads, CasSucceeds(t) PROVE brk <= brk'
  <2>1. /\ brk = old[t] /\ brk' = NeedEnd(t) /\ old[t] <= result[t]
    BY <1>2, Zenon DEF CasSucceeds, Inv, LocalKnowledge, AboutToClaim
  <2>2. /\ old[t] \in Int /\ result[t] \in Int /\ NeedEnd(t) \in Int
        /\ result[t] <= NeedEnd(t)
    BY LocalTypes DEF Inv
  <2> QED BY <2>1, <2>2
<1>3. ASSUME NEW t \in Threads, PublishBrkp(t) PROVE brkp <= brkp' /\ lock = 1
  <2>1. NewBrkp(t) \in Start .. End /\ brkp < NewBrkp(t) /\ brkp' = NewBrkp(t)
    BY <1>3, NewBrkpFits, Zenon DEF PublishBrkp
  <2>2. NewBrkp(t) \in Int
    BY <2>1, ArenaAssumption
  <2>3. lock = 1
    BY <1>3, Zenon DEF PublishBrkp, Inv, LocalKnowledge, Critical
  <2> QED BY <1>1, <2>1, <2>2, <2>3
<1>4. brk <= brk'
  BY <1>1, <1>2 DEF Next, Step, Call, LoadBrk, CasFails, FastCheck,
       Lock, Recheck, Mprotect, PublishBrkp, Unlock, Fork, vars
<1>5. brkp <= brkp' /\ (brkp # brkp' => lock = 1)
  <2>1. brkp' = brkp \/ \E t \in Threads : PublishBrkp(t)
    BY Zenon DEF Next, Step, Call, LoadBrk, CasSucceeds, CasFails, FastCheck,
         Lock, Recheck, Mprotect, Unlock, Fork, vars
  <2> QED BY <1>1, <1>3, <2>1
<1>6. backed \subseteq backed' /\ refused \subseteq refused'
  BY ZenonT(30) DEF Next, Step, Call, LoadBrk, CasSucceeds, CasFails, FastCheck,
       Lock, Recheck, Mprotect, PublishBrkp, Unlock, Fork, vars
<1> QED BY <1>4, <1>5, <1>6, Zenon

(* The bump pointer and the backed part only grow, and brkp moves under     *)
(* mprotect_lock only.                                                      *)
THEOREM Growth == Spec => OnlyGrows
<1> QED BY StepGrows, Invariance, PTL DEF Spec, OnlyGrows

(* A thread that is about to publish brkp or to release the lock got there  *)
(* by its own step, or was there before.                                    *)
LEMMA Arrives ==
  ASSUME TypeOK, [Next]_vars, NEW u \in Threads, pc'[u] \in {"publish", "unlock"}
  PROVE  \/ Mprotect(u) /\ pc'[u] = "publish"
         \/ Recheck(u) /\ pc'[u] = "unlock"
         \/ PublishBrkp(u) /\ pc'[u] = "unlock"
         \/ pc[u] = pc'[u] /\ UNCHANGED <<req[u], old[u], result[u]>>
<1> DEFINE Stays == pc[u] = pc'[u] /\ UNCHANGED <<req[u], old[u], result[u]>>
<1> USE DEF TypeOK, Goto, Return
<1>1. CASE UNCHANGED vars
  BY <1>1, Zenon DEF vars
<1>2. ASSUME NEW t \in Threads, Call(t) PROVE Stays
  BY <1>2, Zenon DEF Call
<1>3. ASSUME NEW t \in Threads, LoadBrk(t) PROVE Stays
  BY <1>3, Zenon DEF LoadBrk
<1>4. ASSUME NEW t \in Threads, CasSucceeds(t) \/ CasFails(t) PROVE Stays
  BY <1>4, Zenon DEF CasSucceeds, CasFails
<1>5. ASSUME NEW t \in Threads, FastCheck(t) PROVE Stays
  BY <1>5, Zenon DEF FastCheck
<1>6. ASSUME NEW t \in Threads, Lock(t) PROVE Stays
  BY <1>6, Zenon DEF Lock
<1>7. ASSUME NEW t \in Threads, Recheck(t) PROVE Stays \/ (t = u /\ pc'[u] = "unlock")
  BY <1>7, Zenon DEF Recheck
<1>8. ASSUME NEW t \in Threads, Mprotect(t) PROVE Stays \/ (t = u /\ pc'[u] = "publish")
  BY <1>8, Zenon DEF Mprotect
<1>9. ASSUME NEW t \in Threads, PublishBrkp(t) PROVE Stays \/ (t = u /\ pc'[u] = "unlock")
  BY <1>9, Zenon DEF PublishBrkp
<1>10. ASSUME NEW t \in Threads, Unlock(t) PROVE Stays
  BY <1>10, Zenon DEF Unlock
<1>11. ASSUME NEW t \in Threads, Fork(t) PROVE Stays
  BY <1>11, Zenon DEF Fork
<1> QED
  <2> HIDE DEF Stays, TypeOK, Goto, Return
  <2>1. Stays \/ \E t \in Threads :
          \/ Recheck(t) /\ t = u /\ pc'[u] = "unlock"
          \/ Mprotect(t) /\ t = u /\ pc'[u] = "publish"
          \/ PublishBrkp(t) /\ t = u /\ pc'[u] = "unlock"
    BY <1>1, <1>2, <1>3, <1>4, <1>5, <1>6, <1>7, <1>8, <1>9, <1>10, <1>11, Zenon DEF Next, Step, Stays
  <2> QED BY <2>1, Zenon DEF Stays

(* Every step keeps what the threads know about the backed part.            *)
LEMMA BackedStep == Inv /\ BackedInv /\ [Next]_vars => BackedInv'
<1> SUFFICES ASSUME Inv, BackedInv, [Next]_vars PROVE BackedInv'
  BY Zenon
<1>1. /\ brkp \in Int /\ brkp' \in Int /\ Start \in Int
      /\ brkp <= brkp' /\ backed \subseteq backed' /\ refused \subseteq refused' /\ TypeOK
  <2>1. Inv' BY StepInv, Zenon
  <2> QED BY <2>1, StepGrows, ArenaAssumption DEF Inv, TypeOK
<1>2. BrkpIsBacked'
  <2>1. ASSUME NEW t \in Threads, PublishBrkp(t) PROVE BrkpIsBacked'
    <3>1. /\ old[t] .. NewBrkp(t) - 1 \subseteq backed \union refused
          /\ Start .. brkp - 1 \subseteq backed \union refused
      BY <2>1, Zenon DEF PublishBrkp, BackedInv, BrkpIsBacked
    <3>2. old[t] = brkp /\ brkp' = NewBrkp(t) /\ backed' = backed /\ refused' = refused
      BY <2>1, Zenon DEF PublishBrkp, Inv, LocalKnowledge, Extending
    <3> QED BY <1>1, <3>1, <3>2 DEF BrkpIsBacked
  <2>2. CASE brkp' = brkp
    BY <1>1, <2>2, Zenon DEF BackedInv, BrkpIsBacked
  <2> QED
    BY <2>1, <2>2, Zenon DEF Next, Step, Call, LoadBrk, CasSucceeds, CasFails, FastCheck,
         Lock, Recheck, Mprotect, Unlock, Fork, vars
<1>3. ASSUME NEW u \in Threads, pc'[u] = "publish"
      PROVE  (old[u] .. NewBrkp(u) - 1 \subseteq backed \union refused)'
  <2>1. CASE Mprotect(u)
    BY <2>1, Zenon DEF Mprotect, NewBrkp, NeedEnd
  <2>2. CASE pc[u] = "publish" /\ UNCHANGED <<old[u], result[u], req[u]>>
    BY <1>1, <2>2, Zenon DEF BackedInv, NewBrkp, NeedEnd
  <2> QED BY <1>1, <1>3, <2>1, <2>2, Arrives, Zenon
<1>4. ASSUME NEW u \in Threads, pc'[u] = "unlock"
      PROVE  (NeedEnd(u) <= brkp)'
  <2>1. NeedEnd(u) \in Int
    BY <1>1, LocalTypes, Zenon
  <2>2. CASE Recheck(u)
    BY <1>1, <1>4, <2>1, <2>2 DEF Recheck, Goto, NeedEnd, TypeOK
  <2>3. CASE PublishBrkp(u)
    <3>1. NeedEnd(u) <= NewBrkp(u)
      BY <2>3, NewBrkpFits, Zenon DEF PublishBrkp
    <3> QED BY <2>3, <3>1, Zenon DEF PublishBrkp, NeedEnd
  <2>4. CASE pc[u] = "unlock" /\ UNCHANGED <<result[u], req[u]>>
    <3>1. NeedEnd(u) <= brkp
      BY <2>4, Zenon DEF BackedInv
    <3>2. NeedEnd(u)' = NeedEnd(u)
      BY <2>4, Zenon DEF NeedEnd
    <3> QED BY <1>1, <2>1, <3>1, <3>2
  <2> QED BY <1>1, <1>4, <2>2, <2>3, <2>4, Arrives, Zenon
<1> QED BY <1>2, <1>3, <1>4, Zenon DEF BackedInv

(* brkp never promises a page that no mprotect was asked to back: brkp is   *)
(* published after the call, under the lock.                                *)
THEOREM BrkpHonest == Spec => []BrkpIsBacked
<1>1. Init => BackedInv
  BY ArenaAssumption DEF Init, BackedInv, BrkpIsBacked
<1>2. Inv /\ BackedInv /\ [Next]_vars => BackedInv'
  BY BackedStep, Zenon
<1>3. BackedInv => BrkpIsBacked
  BY Zenon DEF BackedInv
<1> QED BY <1>1, <1>2, <1>3, Invariance, PTL DEF Spec

(* The memory behind each pointer that arena_alloc returns is accessible at *)
(* that moment, through the fast path and through the lock alike, except    *)
(* for pages whose own mprotect was refused.                                *)
THEOREM ReturnedIsBacked == Spec => BackedOnReturn
<1> DEFINE Granted == \A t \in Threads : pc[t] \in {"check", "unlock"} /\ pc'[t] = "idle"
                        => result[t] .. NeedEnd(t) - 1 \subseteq backed' \union refused'
<1>1. Init => BackedInv
  BY ArenaAssumption DEF Init, BackedInv, BrkpIsBacked
<1>2. Inv /\ BackedInv /\ [Next]_vars => BackedInv'
  BY BackedStep, Zenon
<1>3. Inv /\ BackedInv /\ Next => Granted
  <2> SUFFICES ASSUME Inv, BackedInv, Next, NEW t \in Threads,
                      pc[t] \in {"check", "unlock"}, pc'[t] = "idle"
               PROVE  result[t] .. NeedEnd(t) - 1 \subseteq backed' \union refused'
    BY Zenon
  <2>1. /\ TypeOK /\ brkp \in Int /\ Start \in Int /\ NeedEnd(t) \in Int
        /\ result[t] \in Start .. End
    BY LocalTypes, ArenaAssumption, SMTT(30) DEF Inv, TypeOK
  <2>2. NeedEnd(t) <= brkp
    BY <2>1, ZenonT(30) DEF BackedInv, Next, Step, Call, LoadBrk, CasSucceeds, CasFails, FastCheck,
         Lock, Recheck, Mprotect, PublishBrkp, Unlock, Fork, Goto, Return, TypeOK
  <2>3. Start .. brkp - 1 \subseteq backed' \union refused'
    BY StepGrows, Zenon DEF BackedInv, BrkpIsBacked
  <2> QED BY <2>1, <2>2, <2>3, ArenaAssumption
<1>4. Inv /\ BackedInv /\ [Next]_vars => [Granted]_vars
  BY <1>3, Zenon
<1> QED BY <1>1, <1>2, <1>4, Invariance, PTL DEF Spec, BackedOnReturn

(* A set lock word always has a thread that will clear it, unless a fork    *)
(* left that thread behind.                                                 *)
THEOREM HeldByAThread == Spec => []HeldOnlyDuringMprotect
<1> DEFINE Held == Critical \union {"gone"}
<1>1. Init => HeldOnlyDuringMprotect
  BY DEF Init, HeldOnlyDuringMprotect
<1>2. Inv /\ HeldOnlyDuringMprotect /\ [Next]_vars => HeldOnlyDuringMprotect'
  <2> SUFFICES ASSUME Inv, HeldOnlyDuringMprotect, [Next]_vars, lock' = 1
               PROVE  \E t \in Threads : pc'[t] \in Held
    BY Zenon DEF HeldOnlyDuringMprotect
  <2>1. ASSUME NEW t \in Threads, Lock(t) PROVE pc'[t] \in Critical
    BY <2>1, Zenon DEF Lock, Goto, Critical, Inv, TypeOK
  <2>2. ASSUME NEW u \in Threads, pc[u] \in Held, Call(u) \/ Step(u), lock' = 1
        PROVE  pc'[u] \in Held
    BY <2>2 DEF Step, Call, LoadBrk, CasSucceeds, CasFails, FastCheck,
         Lock, Recheck, Mprotect, PublishBrkp, Unlock, Goto, Critical, Inv, TypeOK
  <2>3. ASSUME NEW t \in Threads, NEW u \in Threads, u # t, Call(t) \/ Step(t)
        PROVE  pc'[u] = pc[u]
    BY <2>3, Zenon DEF Step, Call, LoadBrk, CasSucceeds, CasFails, FastCheck, Return,
         Lock, Recheck, Mprotect, PublishBrkp, Unlock, Goto, Inv, TypeOK
  <2>4. CASE lock = 1
    <3>1. PICK u \in Threads : pc[u] \in Held
      BY <2>4, Zenon DEF HeldOnlyDuringMprotect
    <3>2. ASSUME NEW t \in Threads, Fork(t) PROVE pc'[u] \in Held
      BY <3>1, <3>2, Zenon DEF Fork, Critical, Inv, TypeOK
    <3> QED BY <2>2, <2>3, <3>1, <3>2, Zenon DEF Next, vars
  <2>5. CASE lock # 1
    <3>1. lock' # lock /\ lock' # 0
      BY <2>5
    <3>2. PICK t \in Threads : Call(t) \/ Step(t) \/ Fork(t)
      BY <3>1, Zenon DEF Next, vars
    <3>3. Lock(t)
      BY <3>1, <3>2, Zenon DEF Step, Call, LoadBrk, CasSucceeds, CasFails, FastCheck,
           Recheck, Mprotect, PublishBrkp, Unlock, Fork
    <3> QED BY <2>1, <3>3, Zenon
  <2> QED BY <2>4, <2>5, Zenon
<1> QED BY <1>1, <1>2, Invariance, PTL DEF Spec
==============================================================================
