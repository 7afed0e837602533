---------------------------- MODULE ObjectProofs -----------------------------
(***************************************************************************)
(* Proofs about the code of an object:                                     *)
(*   - Reloc, for all addresses: instructions keep opcode and registers,   *)
(*     and a branch is refused only if its target is out of reach;         *)
(*   - CallConv, for every lifted function: the passes of server/          *)
(*     callconv.cc, which take the loads and stores of the CPU struct out  *)
(*     of the function, lose no value of a guest register.                 *)
(***************************************************************************)
EXTENDS Reloc, CallConv, FiniteSetTheorems, TLAPS

------------------------------------------------------------------------------
(* Relocations *)

(* The masks of rtld_reloc_at lie inside the immediates of the             *)
(* instructions.                                                           *)
LEMMA MaskInField ==
  ASSUME NEW t \in AllTypes \ Templates
  PROVE  Mask(t) \subseteq Field(t)
<1> USE DEF Words, Branches, Pairs, Created, Templates, LowBits
<1>1. CASE t \in Words
  BY <1>1 DEF Mask, Field
<1>2. CASE t \in Branches
  BY <1>2 DEF Mask, Field
<1>3. CASE t \in Pairs
  BY <1>3 DEF Mask, Field
<1>4. CASE t \in LowBits
  <2>1. Mask(t) = 10 .. 21 - Scale(t) /\ Field(t) = 10 .. 21
    BY <1>4 DEF Mask, Field
  <2>2. Scale(t) \in 0 .. 4
    BY <1>4 DEF Scale
  <2> QED BY <2>1, <2>2
<1>5. CASE t \in {"AARCH64_ADR_PREL_PG_HI21", "AARCH64_MOVW_UABS_G0_NC", "AARCH64_MOVW_UABS_G1_NC"}
  BY <1>5 DEF Mask, Field
<1>6. CASE t \in {"RISCV_BRANCH", "RISCV_JAL", "RISCV_PCREL_HI20", "RISCV_PCREL_LO12_I",
                  "RISCV_PCREL_LO12_S"}
  BY <1>6 DEF Mask, Field
<1> QED BY <1>1, <1>2, <1>3, <1>4, <1>5, <1>6 DEF AllTypes

(* A field of the value lands in the field of the instruction. *)
LEMMA ShiftedIn ==
  ASSUME NEW v, NEW from \in Int, NEW to \in Int, NEW by \in Int
  PROVE  Shifted(v, from, to, by) \subseteq from + by .. to + by
<1> SUFFICES ASSUME NEW x \in Shifted(v, from, to, by) PROVE x \in from + by .. to + by
  OBVIOUS
<1>1. PICK i \in {j \in from .. to : Bit(v, j)} : x = i + by
  BY DEF Shifted
<1>2. i \in from .. to
  BY <1>1
<1> QED BY <1>1, <1>2

(* Stubs (rtld_patch_create_stub) and PLT entries (plt_create) are         *)
(* templates with 0 in the immediate, to which the distance is added; for  *)
(* an AArch64 PLT entry see LiteralInField.                                *)
LEMMA TemplateInField ==
  ASSUME NEW t \in Templates \ {"AARCH64_PLT"}, NEW v
  PROVE  Encode(t, v) \subseteq Field(t)
<1> USE DEF Words, Branches, Pairs, Created, Templates, LowBits
<1>1. CASE t = "X86_64_STUB"
  <2>1. Encode(t, v) = Shifted(v, 0, 31, 0) /\ Field(t) = 0 .. 31
    BY <1>1 DEF Encode, Field
  <2> QED BY <2>1, ShiftedIn
<1>2. CASE t = "X86_64_PLT"
  <2>1. Encode(t, v) = Shifted(v, 0, 31, 16) /\ Field(t) = 16 .. 47
    BY <1>2 DEF Encode, Field
  <2> QED BY <2>1, ShiftedIn
<1>3. CASE t \in {"RISCV_STUB", "RISCV_PLT"}
  <2>1. /\ Encode(t, v) = Shifted(Hi(v), 0, 19, 12) \union Shifted(Lo(v), 0, 11, 52)
        /\ Field(t) = (12 .. 31) \union (52 .. 63)
    BY <1>3 DEF Encode, Field
  <2>2. Shifted(Hi(v), 0, 19, 12) \subseteq 12 .. 31
    BY ShiftedIn
  <2>3. Shifted(Lo(v), 0, 11, 52) \subseteq 52 .. 63
    <3>1. Shifted(Lo(v), 0, 11, 52) \subseteq 0 + 52 .. 11 + 52
      BY ShiftedIn
    <3> QED BY <3>1
  <2> QED BY <2>1, <2>2, <2>3
<1> QED BY <1>1, <1>2, <1>3

(* The data of a PLT entry is a multiple of 8 behind its code, less than   *)
(* the 2^20 that the load of an AArch64 entry reaches.                     *)
LEMMA PltOffset ==
  ASSUME NEW i \in 0 .. PltCount - 1
  PROVE  PltData(i, 8) \in Nat /\ PltData(i, 8) < 1048576 /\ PltData(i, 8) % 4 = 0
<1>1. PltCount \in Nat /\ 8 * PltCount + 64 <= 1048576
  BY RelocAssumption
<1> DEFINE q == (PltCount * 8 + 63) \div 64
<1>2. q \in Nat /\ q * 64 <= PltCount * 8 + 63
  BY <1>1
<1>3. PltData(i, 8) = q * 64
  BY <1>1, <1>2 DEF PltData
<1> HIDE DEF q
<1> QED BY <1>1, <1>2, <1>3

(* So its bits, moved by 3, fall into the field of the instruction.        *)
LEMMA LiteralInField ==
  ASSUME NEW v \in Nat, v < 1048576, v % 4 = 0
  PROVE  Encode("AARCH64_PLT", v) \subseteq Field("AARCH64_PLT")
<1>1. ASSUME NEW j \in 0 .. 31, Bit(v, j) PROVE j \in 2 .. 20
  <2>1. CASE j = 0
    <3>1. v % 2 = 1
      BY <1>1, <2>1 DEF Bit
    <3> QED BY <3>1
  <2>2. CASE j = 1
    <3>1. (v \div 2) % 2 = 1
      BY <1>1, <2>2 DEF Bit
    <3> QED BY <3>1
  <2>3. CASE j \in 21 .. 30
    <3>1. ~((v \div 2^j) % 2 = 1)
      <4>1. CASE j = 21
        BY <4>1
      <4>2. CASE j = 22
        BY <4>2
      <4>3. CASE j = 23
        BY <4>3
      <4>4. CASE j = 24
        BY <4>4
      <4>5. CASE j = 25
        BY <4>5
      <4>6. CASE j = 26
        BY <4>6
      <4>7. CASE j = 27
        BY <4>7
      <4>8. CASE j = 28
        BY <4>8
      <4>9. CASE j = 29
        BY <4>9
      <4>10. CASE j = 30
        BY <4>10
      <4> QED BY <2>3, <4>1, <4>2, <4>3, <4>4, <4>5, <4>6, <4>7, <4>8, <4>9, <4>10
    <3>2. (v \div 2^j) % 2 = 1
      BY <1>1, <2>3 DEF Bit
    <3> QED BY <3>1, <3>2
  <2>4. CASE j = 31
    BY <1>1, <2>4 DEF Bit
  <2> QED BY <2>1, <2>2, <2>3, <2>4
<1>2. ASSUME NEW x \in Shifted(v, 0, 31, 3) PROVE x \in 5 .. 23
  <2>1. PICK i \in {j \in 0 .. 31 : Bit(v, j)} : x = i + 3
    BY DEF Shifted
  <2>2. i \in 2 .. 20
    BY <1>1, <2>1
  <2> QED BY <2>1, <2>2
<1>3. Encode("AARCH64_PLT", v) = Shifted(v, 0, 31, 3)
  BY DEF Encode, Words, Branches, LowBits, Pairs
<1>4. Field("AARCH64_PLT") = 5 .. 23
  BY DEF Field, Words, Branches, LowBits, Pairs
<1> QED BY <1>2, <1>3, <1>4

(* What rtld_reloc_at writes differs from what was there in the immediate  *)
(* only, whether the relocation is the first one or a patch of rtld_patch. *)
LEMMA RelocStep ==
  ASSUME type \in AllTypes, RelocKeepsOpcode, NEW s \in Allowed(type), RelocAt(s)
  PROVE  type' \in AllTypes /\ RelocKeepsOpcode'
<1> SUFFICES word' \ Field(type) = orig \ Field(type)
  BY Zenon DEF RelocAt, RelocKeepsOpcode, Field, Words, Branches, LowBits, Pairs
<1>1. word \ Field(type) = orig \ Field(type)
  BY DEF RelocKeepsOpcode
<1> DEFINE direct == Operand(type, s)
           far == type \in {"AARCH64_CALL26", "AARCH64_JUMP26"} /\ ~Accepts(type, direct)
           v == IF far THEN Operand(type, StubAddr) ELSE direct
<1>2. CASE ~Accepts(type, v)
  BY <1>1, <1>2 DEF RelocAt
<1>3. CASE Accepts(type, v) /\ type \in Templates
  <2>1. word' = word \union Encode(type, v)
    BY <1>3 DEF RelocAt
  <2>2. Encode(type, v) \subseteq Field(type)
    <3>1. CASE type # "AARCH64_PLT"
      <4> HIDE DEF v
      <4> QED BY <1>3, <3>1, TemplateInField
    <3>2. CASE type = "AARCH64_PLT"
      <4>1. PICK i \in 0 .. PltCount - 1 : s = Site + PltData(i, 8)
        BY <3>2 DEF Allowed
      <4>2. v = s - Site
        BY <3>2, <4>1, PltOffset, RelocAssumption DEF Operand, Disp, LowBits
      <4>3. v = PltData(i, 8)
        BY <4>1, <4>2, PltOffset, RelocAssumption
      <4> HIDE DEF v
      <4> QED BY <3>2, <4>3, PltOffset, LiteralInField
    <3> QED BY <3>1, <3>2
  <2> HIDE DEF v
  <2> QED BY <1>1, <2>1, <2>2
<1>4. CASE Accepts(type, v) /\ type \notin Templates
  <2>1. word' = Blend(word, Mask(type), Encode(type, v))
    BY <1>4 DEF RelocAt
  <2>2. Mask(type) \subseteq Field(type)
    BY <1>4, MaskInField
  <2> HIDE DEF v
  <2> QED BY <1>1, <2>1, <2>2 DEF Blend
<1>5. Accepts(type, v) \in BOOLEAN
  BY DEF Accepts, CheckSignedBits
<1> HIDE DEF v
<1> QED BY <1>2, <1>3, <1>4, <1>5

(* Opcode and registers of an instruction outlive every relocation of      *)
(* rtld_reloc_at, every later patch and the creation of stubs and PLT      *)
(* entries, for all addresses.                                             *)
THEOREM OpcodesKept == RelocSpec => []RelocKeepsOpcode
<1> DEFINE Inv == type \in AllTypes /\ RelocKeepsOpcode
<1>1. RelocInit => Inv
  BY RelocAssumption DEF RelocInit, RelocKeepsOpcode
<1>2. Inv /\ [RelocNext]_relocVars => Inv'
  <2> SUFFICES ASSUME Inv, [RelocNext]_relocVars PROVE Inv'
    OBVIOUS
  <2>1. ASSUME NEW s \in Allowed(type), RelocAt(s) PROVE Inv'
    BY <2>1, RelocStep
  <2>2. CASE UNCHANGED relocVars
    BY <2>2, Zenon DEF relocVars, RelocKeepsOpcode, Field, Words, Branches, LowBits, Pairs
  <2> QED BY <2>1, <2>2 DEF RelocNext
<1> QED BY <1>1, <1>2, PTL DEF RelocSpec

(* What was refused or sent over a stub last did not pass the check of     *)
(* CHECK_SIGNED_BITS with its own distance.                                *)
Refused ==
  asked # sym \/ stub # 0 => asked \in Allowed(type) /\ ~Accepts(type, Operand(type, asked))

(* The distance between two even addresses is even. *)
LEMMA EvenDistance ==
  ASSUME Site % 2 = 0, NEW t \in {"RISCV_BRANCH", "RISCV_JAL"} \union Branches,
         NEW s \in Allowed(t)
  PROVE  Operand(t, s) \in Int /\ Operand(t, s) % 2 = 0
<1>1. s \in Int /\ Site \in Int
  BY RelocAssumption DEF Allowed, Branches
<1>2. s % 2 = 0
  <2>1. CASE t \in Branches
    <3>1. s % 4 = 0
      BY <2>1 DEF Allowed, Branches, LowBits
    <3> QED BY <1>1, <3>1
  <2>2. CASE t \in {"RISCV_BRANCH", "RISCV_JAL"}
    BY <2>2 DEF Allowed, Branches, LowBits
  <2> QED BY <2>1, <2>2
<1>3. Disp(t) \in {0, 4}
  BY DEF Disp, Branches
<1>4. Operand(t, s) = s - Site - Disp(t)
  BY DEF Operand, Branches, LowBits
<1> QED BY <1>1, <1>2, <1>3, <1>4

(* An even distance that the check refuses does not fit the instruction:   *)
(* the check ends one too early, but at an odd distance.                   *)
LEMMA OutOfReach ==
  ASSUME NEW t \in {"RISCV_BRANCH", "RISCV_JAL"} \union Branches,
         NEW v \in Int, v % 2 = 0, ~Accepts(t, v)
  PROVE  v \notin -(2^(Checked(t) - 1)) .. 2^(Checked(t) - 1) - 1
<1> DEFINE n == 2^(Checked(t) - 1)
<1>1. Checked(t) \in {13, 21, 28}
  BY DEF Checked, Words, Branches
<1>2. n \in Int /\ n % 2 = 0
  <2>1. CASE Checked(t) = 13
    BY <2>1
  <2>2. CASE Checked(t) = 21
    BY <2>2
  <2>3. CASE Checked(t) = 28
    BY <2>3
  <2> QED BY <1>1, <2>1, <2>2, <2>3
<1>3. ~(v >= -n /\ v < n - 1)
  BY <1>1 DEF Accepts, CheckSignedBits
<1> HIDE DEF n
<1>4. v \notin -n .. n - 1
  BY <1>2, <1>3
<1> QED BY <1>4 DEF n

(* A branch between instructions, which are at even addresses on RISC-V    *)
(* and AArch64, is never refused or sent over a stub by rtld_reloc_at if   *)
(* the instruction reaches its target, for all addresses.                  *)
THEOREM RefusalsJustified == Site % 2 = 0 => (RelocSpec => []RefusesOnlyUnreachable)
<1> SUFFICES ASSUME Site % 2 = 0 PROVE RelocSpec => []RefusesOnlyUnreachable
  OBVIOUS
<1>1. RelocInit => Refused
  BY DEF RelocInit, Refused
<1>2. Refused /\ [RelocNext]_relocVars => Refused'
  <2> SUFFICES ASSUME Refused, [RelocNext]_relocVars PROVE Refused'
    OBVIOUS
  <2>1. CASE UNCHANGED relocVars
    BY <2>1 DEF relocVars, Refused
  <2>2. ASSUME NEW s \in Allowed(type), RelocAt(s) PROVE Refused'
    <3>1. asked' = s /\ type' = type
      BY <2>2 DEF RelocAt
    <3>2. Accepts(type, Operand(type, s)) => sym' = s /\ stub' = 0
      BY <2>2 DEF RelocAt
    <3> QED BY <3>1, <3>2 DEF Refused
  <2> QED BY <2>1, <2>2 DEF RelocNext
<1>3. Refused => RefusesOnlyUnreachable
  BY EvenDistance, OutOfReach DEF Refused, RefusesOnlyUnreachable
<1> QED BY <1>1, <1>2, <1>3, PTL DEF RelocSpec

------------------------------------------------------------------------------
(* The calling convention *)

(* The positions of block b at which control leaves the function. *)
Exits(f, b) == CallsOf(f, b) \union Ends(f, b)

(* A value of r that was stored in this block waits in a register for the  *)
(* site at which it is handed over; memory does not have it.               *)
Pending(r) ==
  \E i \in Exits(fn, bb) :
    pos <= i /\ \E j \in FoldStores(fn, <<bb, i>>) : j < pos /\ Body[j].f = r

(* The call of the block returned. *)
Passed == \E i \in CallsOf(fn, bb) : i < pos

Calling == callret_calls(fn) # {}

(* Where the pass finds the value of r that no store of the block changed. *)
Held(r) ==
  IF Escapes(fn) THEN mem[r]
  ELSE IF ~Calling \/ bb = Entry THEN Arg(r)
  ELSE IF Passed THEN ret[bb][r] ELSE phi[bb][r]

Unwired(r) ==
  ~Escapes(fn) /\ Calling /\ bb # Entry /\ ~Passed /\ <<bb, r>> \notin Phis(fn)

Shape ==
  /\ fn \in Funcs /\ Lifted(fn) /\ nfn = ChangeCallConv(fn)
  /\ bb \in DOMAIN fn /\ pos \in Nat /\ pos <= Len(Body) + 1
  /\ cpu = [x \in Fields |-> cpu[x]] /\ mem = [x \in Fields |-> mem[x]]
  /\ ret = [b \in DOMAIN fn |-> ret[b]] /\ phi = [b \in DOMAIN fn |-> phi[b]]

(* No instruction between two positions overwrites what a store left. *)
Kept(j) ==
  \A k \in j + 1 .. pos - 1 :
    Body[k].op \notin {"helper", "call"} /\ ~(IsStore(Body[k]) /\ Body[k].f = Body[j].f)

(* A field has the value of the last store. *)
Latest ==
  \A j \in 1 .. pos - 1 : IsStore(Body[j]) /\ Kept(j) => cpu[Body[j].f] = Stored(Body[j], j)

OnlyLoads(i) == \A k \in i + 1 .. pos - 1 : Body[k].op = "load"

(* Until the first write the fields have the values of the arguments, and  *)
(* until the first write after a call those it returned.                   *)
ArgsKept == bb = Entry /\ OnlyLoads(0) => \A x \in Fields : cpu[x] = Arg(x)
RetsKept ==
  \A i \in CallsOf(fn, bb) : i < pos /\ OnlyLoads(i) => \A r \in Regs : cpu[r] = ret[bb][r]

OthersInMemory == \A x \in Others : mem[x] = cpu[x]

RegsHeld == \A r \in Regs : cpu[r] = Held(r) \/ Pending(r) \/ Unwired(r)

PassInv ==
  /\ Shape
  /\ Running => Latest /\ ArgsKept /\ RetsKept /\ OthersInMemory /\ RegsHeld

----------------------------------------------------------------------------
(* The lifted function *)

(* A block of a lifted function: its body is a sequence of instructions,   *)
(* and no block branches to the entry.                                     *)
LEMMA BlockShape ==
  ASSUME NEW f \in Funcs, NEW b \in DOMAIN f
  PROVE  /\ f[b].body \in Seq(Instructions) /\ Len(f[b].body) \in Nat
         /\ DOMAIN f[b].body = 1 .. Len(f[b].body)
         /\ \A i \in 1 .. Len(f[b].body) :
              /\ f[b].body[i].op \in {"load", "store", "const", "helper", "other", "call"}
              /\ f[b].body[i].f \in Fields
         /\ f[b].succ \subseteq DOMAIN f /\ Entry \notin f[b].succ /\ Entry \in DOMAIN f
<1>1. f[b].body \in Seq(Instructions) /\ f[b].succ \subseteq DOMAIN f \ {Entry} /\ Entry \in DOMAIN f
  BY FuncsAssumption
<1>2. Len(f[b].body) \in Nat /\ DOMAIN f[b].body = 1 .. Len(f[b].body)
  BY <1>1
<1>3. ASSUME NEW i \in 1 .. Len(f[b].body) PROVE f[b].body[i] \in Instructions
  BY <1>1, <1>2
<1> QED BY <1>1, <1>2, <1>3 DEF Instructions

(* A call is an instruction of the block, an end lies behind the last one. *)
LEMMA ExitsOf ==
  ASSUME NEW f \in Funcs, NEW b \in DOMAIN f, NEW i
  PROVE  /\ i \in CallsOf(f, b) <=> i \in 1 .. Len(f[b].body) /\ f[b].body[i].op = "call"
         /\ i \in Ends(f, b) <=> f[b].term # "br" /\ i = Len(f[b].body) + 1
         /\ i \in Exits(f, b) => i \in Nat \ {0}
BY BlockShape DEF Exits, CallsOf, Ends

(* The sites are the exits of the blocks. *)
LEMMA SitesOf ==
  ASSUME NEW f \in Funcs, NEW b, NEW i
  PROVE  <<b, i>> \in Sites(f) <=> b \in DOMAIN f /\ i \in Exits(f, b)
BY DEF Sites, Exits

(* Control leaves a block in one place. *)
LEMMA OneExit ==
  ASSUME NEW f \in Funcs, Lifted(f), NEW b \in DOMAIN f, NEW i \in Exits(f, b), NEW j \in Exits(f, b)
  PROVE  i = j
<1>1. Cardinality(CallsOf(f, b)) <= 1 /\ (CallsOf(f, b) # {} => f[b].term = "br")
  BY DEF Lifted
<1>2. IsFiniteSet(CallsOf(f, b))
  <2>1. CallsOf(f, b) \subseteq 1 .. Len(f[b].body) /\ Len(f[b].body) \in Int
    BY BlockShape DEF CallsOf
  <2>2. IsFiniteSet(1 .. Len(f[b].body))
    BY <2>1, FS_Interval
  <2> QED BY <2>1, <2>2, FS_Subset
<1>3. CASE i \in CallsOf(f, b) /\ j \in CallsOf(f, b)
  <2> SUFFICES ASSUME i # j PROVE FALSE
    OBVIOUS
  <2>1. {i, j} \subseteq CallsOf(f, b)
    BY <1>3
  <2>2. IsFiniteSet({i, j}) /\ Cardinality({i, j}) = 2
    <3>1. IsFiniteSet({i}) /\ Cardinality({i}) = 1
      BY FS_Singleton, Zenon
    <3>2. IsFiniteSet({i} \cup {j}) /\ Cardinality({i} \cup {j}) = 1 + 1
      BY <3>1, FS_AddElement, j \notin {i}
    <3> QED BY <3>2, {i, j} = {i} \cup {j}
  <2>3. Cardinality({i, j}) <= Cardinality(CallsOf(f, b)) /\ Cardinality(CallsOf(f, b)) \in Nat
    BY <2>1, <1>2, FS_Subset, FS_CardinalityType
  <2> QED BY <2>2, <2>3, <1>1
<1>4. CASE i \in Ends(f, b) /\ j \in Ends(f, b)
  BY <1>4, ExitsOf
<1>5. CASE CallsOf(f, b) # {} /\ Ends(f, b) # {}
  BY <1>5, <1>1 DEF Ends
<1> QED BY <1>3, <1>4, <1>5 DEF Exits

(* What FoldStores finds: stores of the convention's fields that nothing   *)
(* between them and the exit reads.                                        *)
LEMMA FoldStoresOf ==
  ASSUME NEW f \in Funcs, NEW b \in DOMAIN f, NEW i \in Exits(f, b), NEW j \in FoldStores(f, <<b, i>>)
  PROVE  /\ j \in 1 .. i - 1 /\ j \in 1 .. Len(f[b].body)
         /\ IsStore(f[b].body[j]) /\ f[b].body[j].f \in Regs
         /\ \A k \in j + 1 .. i - 1 :
              /\ f[b].body[k].op \notin {"helper", "call"}
              /\ f[b].body[k].op = "load" => <<b, k>> \in Folded(f)
<1>1. /\ j \in 1 .. i - 1 /\ IsStore(f[b].body[j]) /\ f[b].body[j].f \in Regs
      /\ \A k \in j + 1 .. i - 1 : ~StopsStores(f, b, k)
  BY DEF FoldStores
<1>2. i \in 1 .. Len(f[b].body) + 1 /\ Len(f[b].body) \in Nat
  BY ExitsOf, BlockShape DEF Exits
<1> QED BY <1>1, <1>2 DEF StopsStores

(* A later store that nothing reads is folded too. *)
LEMMA FoldsLater ==
  ASSUME NEW f \in Funcs, NEW b \in DOMAIN f, NEW i \in Exits(f, b), NEW j \in FoldStores(f, <<b, i>>),
         NEW k \in j + 1 .. i - 1, IsStore(f[b].body[k]), f[b].body[k].f \in Regs
  PROVE  k \in FoldStores(f, <<b, i>>)
<1>1. i \in Nat /\ j \in 1 .. i - 1 /\ \A l \in j + 1 .. i - 1 : ~StopsStores(f, b, l)
  BY ExitsOf DEF FoldStores
<1>2. k \in 1 .. i - 1 /\ \A l \in k + 1 .. i - 1 : l \in j + 1 .. i - 1
  BY <1>1
<1> QED BY <1>1, <1>2 DEF FoldStores

(* The stores that the pass erases are handed over at an exit behind them. *)
LEMMA ErasedOf ==
  ASSUME NEW f \in Funcs, NEW b \in DOMAIN f, NEW j
  PROVE  <<b, j>> \in FoldedStores(f) <=> \E i \in Exits(f, b) : j \in FoldStores(f, <<b, i>>)
<1>1. ASSUME NEW i \in Exits(f, b), j \in FoldStores(f, <<b, i>>)
      PROVE  <<b, j>> \in FoldedStores(f)
  <2>1. PICK s \in Sites(f) : s = <<b, i>>
    BY SitesOf, Zenon
  <2>2. <<b, j>> \in {<<s[1], k>> : k \in FoldStores(f, s)}
    BY <1>1, <2>1
  <2> QED BY <2>1, <2>2 DEF FoldedStores
<1>2. ASSUME <<b, j>> \in FoldedStores(f)
      PROVE  \E i \in Exits(f, b) : j \in FoldStores(f, <<b, i>>)
  <2>1. PICK s \in Sites(f) : <<b, j>> \in {<<s[1], k>> : k \in FoldStores(f, s)}
    BY <1>2 DEF FoldedStores
  <2>2. PICK c \in DOMAIN f : s \in {<<c, i>> : i \in CallsOf(f, c) \union Ends(f, c)}
    BY DEF Sites
  <2>3. PICK i \in CallsOf(f, c) \union Ends(f, c) : s = <<c, i>>
    BY <2>2
  <2>4. c = b /\ j \in FoldStores(f, s)
    BY <2>1, <2>3
  <2> QED BY <2>3, <2>4 DEF Exits
<1> QED BY <1>1, <1>2, Zenon

(* Why the CPU state escapes. *)
LEMMA EscapesBy ==
  ASSUME NEW f \in Funcs, NEW b \in DOMAIN f, NEW i \in 1 .. Len(f[b].body)
  PROVE  /\ f[b].body[i].op = "helper" => Escapes(f)
         /\ f[b].body[i].op = "load" /\ f[b].body[i].f \in Regs /\ <<b, i>> \notin Folded(f) => Escapes(f)
         /\ IsStore(f[b].body[i]) /\ f[b].body[i].f \in Regs /\ <<b, i>> \notin FoldedStores(f) => Escapes(f)
<1>1. <<b, i>> \in Instrs(f)
  BY BlockShape DEF Instrs
<1>2. Ins(f, <<b, i>>) = f[b].body[i]
  BY DEF Ins
<1> QED BY <1>1, <1>2 DEF Escapes

(* The PHI nodes: a site that needs one has it, and so has a predecessor   *)
(* that is no producer of a block that has one.                            *)
LEMMA PhisClosed ==
  ASSUME NEW f \in Funcs, NEW b \in DOMAIN f, NEW r \in Regs
  PROVE  /\ \A i \in Exits(f, b) : Source(f, <<b, i>>, r) = -1 => <<b, r>> \in Phis(f)
         /\ \A q \in DOMAIN f : /\ <<b, r>> \in Phis(f) /\ b \in f[q].succ /\ q \notin Producers(f)
                                => <<q, r>> \in Phis(f)
<1>0. \A c : <<c, r>> \in Phis(f) <=> c \in PhiBlocks(f, r)
  BY DEF Phis, PhiBlocks
<1>1. ASSUME NEW i \in Exits(f, b), Source(f, <<b, i>>, r) = -1
      PROVE  b \in PhiBlocks(f, r)
  <2>1. <<b, i>> \in {t \in Sites(f) : Source(f, t, r) = -1}
    BY <1>1, SitesOf
  <2>2. b \in Needs(f, r)
    BY <2>1 DEF Needs
  <2> QED BY <2>2 DEF PhiBlocks
<1>2. ASSUME NEW q \in DOMAIN f, b \in PhiBlocks(f, r), b \in f[q].succ, q \notin Producers(f)
      PROVE  q \in PhiBlocks(f, r)
  <2>1. q \in Preds(f, b) \ Producers(f)
    BY <1>2 DEF Preds
  <2> SUFFICES ASSUME NEW B \in SUBSET DOMAIN f, Needs(f, r) \subseteq B, Wired(f, B)
               PROVE  q \in B
    BY DEF PhiBlocks
  <2>2. b \in B
    BY <1>2 DEF PhiBlocks
  <2> QED BY <2>1, <2>2 DEF Wired
<1> QED BY <1>0, <1>1, <1>2

----------------------------------------------------------------------------
(* The two functions in lock step *)

(* Control goes on to the next instruction of the block. *)
Advance == Running /\ ~AtEnd /\ pos' = pos + 1 /\ UNCHANGED <<fn, nfn, bb, time>>

(* The instruction that runs is one of the block. *)
LEMMA InBody ==
  ASSUME Shape, Running, ~AtEnd
  PROVE  /\ pos \in 1 .. Len(Body) /\ pos \in Nat /\ Len(Body) \in Nat /\ bb \in DOMAIN fn /\ fn \in Funcs
         /\ Cur.op \in {"load", "store", "const", "helper", "other", "call"} /\ Cur.f \in Fields
         /\ Cur.op = "call" <=> pos \in CallsOf(fn, bb)
         /\ pos \notin Ends(fn, bb)
<1>1. pos \in 1 .. Len(Body) /\ pos \in Nat /\ Len(Body) \in Nat /\ bb \in DOMAIN fn /\ fn \in Funcs
  BY BlockShape DEF Shape, Running, AtEnd, Body
<1>2. /\ Cur.op \in {"load", "store", "const", "helper", "other", "call"} /\ Cur.f \in Fields
  BY <1>1, BlockShape, Zenon DEF Cur, Body
<1>3. Cur.op = "call" <=> pos \in CallsOf(fn, bb)
  BY <1>1, ExitsOf, Zenon DEF Cur, Body
<1>4. pos \notin Ends(fn, bb)
  BY <1>1, ExitsOf DEF Body
<1> QED BY <1>1, <1>2, <1>3, <1>4, Zenon

(* A pending store stays pending up to the exit. *)
LEMMA PendingKept ==
  ASSUME Shape, Advance, Cur.op # "call", NEW r, Pending(r)
  PROVE  Pending(r)'
<1>0. /\ pos \in Nat /\ bb \in DOMAIN fn /\ fn \in Funcs /\ pos \notin Exits(fn, bb)
      /\ pos' = pos + 1 /\ fn' = fn /\ bb' = bb
  BY InBody, Zenon DEF Advance, Exits
<1>1. PICK i \in Exits(fn, bb) :
        pos <= i /\ \E j \in FoldStores(fn, <<bb, i>>) : j < pos /\ Body[j].f = r
  BY Zenon DEF Pending
<1>2. PICK j \in FoldStores(fn, <<bb, i>>) : j < pos /\ Body[j].f = r
  BY <1>1, Zenon
<1>3. i \in Nat /\ j \in Nat /\ pos + 1 <= i /\ j < pos + 1
  BY <1>0, <1>1, <1>2, ExitsOf, FoldStoresOf
<1> QED BY <1>0, <1>2, <1>3, Zenon DEF Pending, Body

(* The call of a block returns once. *)
LEMMA PassedKept ==
  ASSUME Shape, Advance, Cur.op # "call"
  PROVE  Passed' <=> Passed
<1>0. /\ pos \in Nat /\ bb \in DOMAIN fn /\ fn \in Funcs /\ pos \notin CallsOf(fn, bb)
      /\ pos' = pos + 1 /\ fn' = fn /\ bb' = bb
  BY InBody, Zenon DEF Advance
<1>1. ASSUME NEW i \in CallsOf(fn, bb) PROVE i < pos + 1 <=> i < pos
  BY <1>0, ExitsOf
<1> QED BY <1>0, <1>1, Zenon DEF Passed

(* A field that keeps its value where the pass looks for it is found as    *)
(* before.                                                                 *)
LEMMA HeldKept ==
  ASSUME Shape, Advance, Cur.op # "call", NEW r \in Regs,
         cpu'[r] = cpu[r], mem'[r] = mem[r], ret' = ret, phi' = phi,
         cpu[r] = Held(r) \/ Pending(r) \/ Unwired(r)
  PROVE  (cpu[r] = Held(r) \/ Pending(r) \/ Unwired(r))'
<1>1. fn' = fn /\ bb' = bb
  BY Zenon DEF Advance
<1>2. Held(r)' = Held(r) /\ (Unwired(r)' <=> Unwired(r))
  BY <1>1, PassedKept, Zenon DEF Held, Unwired, Calling, Arg
<1> QED BY <1>2, PendingKept, Zenon

(* Loads do not disturb what loads find. *)
LEMMA LoadsOn ==
  ASSUME Shape, Advance, NEW i \in Nat, i < pos
  PROVE  OnlyLoads(i)' <=> OnlyLoads(i) /\ Cur.op = "load"
<1>1. /\ pos \in Nat /\ pos' = pos + 1 /\ Body' = Body
      /\ \A k : k \in i + 1 .. pos' - 1 <=> k \in i + 1 .. pos - 1 \/ k = pos
  BY InBody DEF Advance, Body
<1> QED BY <1>1, Zenon DEF OnlyLoads, Cur

(* Neither does anything that leaves a stored value alone. *)
LEMMA KeptOn ==
  ASSUME Shape, Advance, NEW j \in 1 .. pos - 1
  PROVE  Kept(j)' <=> /\ Kept(j) /\ Cur.op \notin {"helper", "call"}
                      /\ ~(IsStore(Cur) /\ Cur.f = Body[j].f)
<1>1. /\ pos \in Nat /\ pos' = pos + 1 /\ Body' = Body
      /\ \A k : k \in j + 1 .. pos' - 1 <=> k \in j + 1 .. pos - 1 \/ k = pos
  BY InBody DEF Advance, Body
<1> QED BY <1>1, Zenon DEF Kept, Cur

(* Loads, and writes to guest memory, change nothing. *)
LEMMA QuietStep ==
  ASSUME PassInv, Load \/ WriteGuestMemory
  PROVE  PassInv'
<1>0. /\ Advance /\ Shape /\ cpu' = cpu /\ mem' = mem /\ ret' = ret /\ phi' = phi
      /\ Cur.op \in {"load", "other"} /\ fn' = fn /\ nfn' = nfn /\ bb' = bb /\ pos' = pos + 1
      /\ time' = time /\ Body' = Body /\ Running
  BY Zenon DEF Load, WriteGuestMemory, Step, Advance, PassInv, Body
<1>1. pos \in 1 .. Len(Body) /\ pos \in Nat /\ Len(Body) \in Nat
  BY <1>0, InBody, Zenon DEF Advance
<1>2. Shape'
  BY <1>0, <1>1 DEF Shape
<1>3. Latest'
  <2> SUFFICES ASSUME NEW j \in 1 .. pos' - 1, IsStore(Body[j]), Kept(j)'
               PROVE  cpu[Body[j].f] = Stored(Body[j], j)
    BY <1>0, Zenon DEF Latest, Stored
  <2>1. j \in 1 .. pos - 1
    BY <1>0, <1>1 DEF IsStore, Cur
  <2>2. Kept(j)
    BY <1>0, <2>1, KeptOn, Zenon
  <2> QED BY <1>0, <2>1, <2>2, Zenon DEF PassInv, Latest
<1>4. ArgsKept'
  BY <1>0, <1>1, LoadsOn DEF PassInv, ArgsKept, Arg
<1>5. RetsKept'
  <2> SUFFICES ASSUME NEW i \in CallsOf(fn, bb), i < pos + 1, OnlyLoads(i)', NEW r \in Regs
               PROVE  cpu[r] = ret[bb][r]
    BY <1>0, Zenon DEF RetsKept
  <2>1. i \in Nat /\ i < pos
    BY <1>0, <1>1, InBody, ExitsOf DEF Advance
  <2> QED BY <1>0, <2>1, LoadsOn, Zenon DEF PassInv, RetsKept
<1>6. OthersInMemory'
  BY <1>0, Zenon DEF PassInv, OthersInMemory
<1>7. RegsHeld'
  BY <1>0, HeldKept, Zenon DEF PassInv, RegsHeld
<1> QED BY <1>2, <1>3, <1>4, <1>5, <1>6, <1>7, Zenon DEF PassInv

(* A store that is erased is pending, one that is left is in memory. *)
LEMMA StoreStep ==
  ASSUME PassInv, Store
  PROVE  PassInv'
<1>0. /\ Advance /\ Shape /\ ret' = ret /\ phi' = phi
      /\ Cur.op \in {"store", "const"} /\ fn' = fn /\ nfn' = nfn /\ bb' = bb /\ pos' = pos + 1
      /\ time' = time /\ Body' = Body /\ Running /\ IsStore(Cur)
      /\ cpu' = [cpu EXCEPT ![Cur.f] = Stored(Cur, pos)]
      /\ mem' = IF <<bb, pos>> \in nfn.erased THEN mem ELSE [mem EXCEPT ![Cur.f] = Stored(Cur, pos)]
  BY Zenon DEF Store, Step, Advance, PassInv, Body, IsStore
<1>1. /\ pos \in 1 .. Len(Body) /\ pos \in Nat /\ Len(Body) \in Nat /\ Cur.f \in Fields
      /\ bb \in DOMAIN fn /\ fn \in Funcs
  BY <1>0, InBody, Zenon DEF Advance
<1>2. /\ cpu = [x \in Fields |-> cpu[x]] /\ mem = [x \in Fields |-> mem[x]]
      /\ nfn.erased = FoldedStores(fn)
  BY <1>0, Zenon DEF Shape, ChangeCallConv
<1>3. /\ cpu'[Cur.f] = Stored(Cur, pos) /\ \A x \in Fields : x # Cur.f => cpu'[x] = cpu[x]
      /\ \A x \in Fields : x # Cur.f => mem'[x] = mem[x]
      /\ <<bb, pos>> \notin nfn.erased => mem'[Cur.f] = Stored(Cur, pos)
      /\ cpu' = [x \in Fields |-> cpu'[x]] /\ mem' = [x \in Fields |-> mem'[x]]
  BY <1>0, <1>1, <1>2, Zenon
<1>4. Shape'
  BY <1>0, <1>1, <1>3 DEF Shape
<1>5. Latest'
  <2> SUFFICES ASSUME NEW j \in 1 .. pos' - 1, IsStore(Body[j]), Kept(j)'
               PROVE  cpu'[Body[j].f] = Stored(Body[j], j)
    BY <1>0 DEF Latest, Stored
  <2>1. CASE j = pos
    BY <1>3, <2>1, Zenon DEF Cur
  <2>2. CASE j \in 1 .. pos - 1
    <3>1. Kept(j) /\ Cur.f # Body[j].f
      BY <1>0, <2>2, KeptOn, Zenon
    <3>2. Body[j].f \in Fields
      BY <1>1, <2>2, BlockShape DEF Body
    <3> QED BY <1>0, <1>3, <2>2, <3>1, <3>2, Zenon DEF PassInv, Latest
  <2> QED BY <1>0, <1>1, <2>1, <2>2
<1>6. ArgsKept'
  BY <1>0, <1>1, LoadsOn DEF ArgsKept
<1>7. RetsKept'
  <2> SUFFICES ASSUME NEW i \in CallsOf(fn, bb), i < pos + 1, OnlyLoads(i)' PROVE FALSE
    BY <1>0, Zenon DEF RetsKept
  <2>1. i \in Nat /\ i < pos
    BY <1>0, <1>1, InBody, ExitsOf DEF Advance
  <2> QED BY <1>0, <2>1, LoadsOn, Zenon
<1>8. OthersInMemory'
  <2> SUFFICES ASSUME NEW x \in Others PROVE mem'[x] = cpu'[x]
    BY Zenon DEF OthersInMemory
  <2>1. x \in Fields /\ x \notin Regs /\ mem[x] = cpu[x]
    BY <1>0, CallConvAssumption, Zenon DEF Fields, PassInv, OthersInMemory
  <2>2. CASE x = Cur.f
    <3>1. <<bb, pos>> \notin nfn.erased
      BY <1>1, <1>2, <2>1, <2>2, ErasedOf, FoldStoresOf, ZenonT(30) DEF Cur, Body
    <3> QED BY <1>3, <2>2, <3>1, Zenon
  <2> QED BY <1>3, <2>1, <2>2, Zenon
<1>9. RegsHeld'
  <2> SUFFICES ASSUME NEW r \in Regs PROVE (cpu[r] = Held(r) \/ Pending(r) \/ Unwired(r))'
    BY Zenon DEF RegsHeld
  <2>0. r \in Fields
    BY Zenon DEF Fields
  <2>1. CASE r # Cur.f
    <3>1. cpu'[r] = cpu[r] /\ mem'[r] = mem[r]
      BY <1>3, <2>0, <2>1, Zenon
    <3> QED BY <1>0, <3>1, HeldKept, Zenon DEF PassInv, RegsHeld
  <2>2. CASE r = Cur.f /\ <<bb, pos>> \in nfn.erased
    <3>1. PICK i \in Exits(fn, bb) : pos \in FoldStores(fn, <<bb, i>>)
      BY <1>1, <1>2, <2>2, ErasedOf, Zenon
    <3>2. i \in Nat /\ pos + 1 <= i
      BY <1>1, <3>1, ExitsOf, FoldStoresOf
    <3>3. Pending(r)'
      BY <1>0, <1>1, <2>2, <3>1, <3>2 DEF Pending, Cur
    <3> QED BY <3>3, Zenon
  <2>3. CASE r = Cur.f /\ <<bb, pos>> \notin nfn.erased
    <3>1. Escapes(fn)
      BY <1>0, <1>1, <1>2, <2>3, EscapesBy, Zenon DEF Cur, Body
    <3> QED BY <1>0, <1>3, <2>3, <3>1, Zenon DEF Held
  <2> QED BY <2>1, <2>2, <2>3, Zenon
<1> QED BY <1>4, <1>5, <1>6, <1>7, <1>8, <1>9, Zenon DEF PassInv

(* A helper gets the CPU state and leaves it in memory. *)
LEMMA HelperStep ==
  ASSUME PassInv, Helper
  PROVE  PassInv'
<1>0. /\ Advance /\ Shape /\ ret' = ret /\ phi' = phi
      /\ Cur.op = "helper" /\ fn' = fn /\ nfn' = nfn /\ bb' = bb /\ pos' = pos + 1
      /\ time' = time /\ Body' = Body /\ Running /\ ~IsStore(Cur)
      /\ cpu' = [x \in Fields |-> <<"help", x, 100 * time + 10 * bb + pos>>] /\ mem' = cpu'
  BY Zenon DEF Helper, Step, Advance, PassInv, Body, IsStore
<1>1. /\ pos \in 1 .. Len(Body) /\ pos \in Nat /\ Len(Body) \in Nat
      /\ bb \in DOMAIN fn /\ fn \in Funcs
  BY <1>0, InBody, Zenon DEF Advance
<1>2. Escapes(fn)
  BY <1>0, <1>1, EscapesBy, Zenon DEF Cur, Body
<1>3. Shape'
  <2>1. cpu' = [x \in Fields |-> cpu'[x]]
    BY <1>0, Zenon
  <2> QED BY <1>0, <1>1, <2>1 DEF Shape
<1>4. Latest'
  <2> SUFFICES ASSUME NEW j \in 1 .. pos' - 1, IsStore(Body[j]), Kept(j)' PROVE FALSE
    BY <1>0, Zenon DEF Latest
  <2>1. j \in 1 .. pos - 1
    BY <1>0, <1>1 DEF Cur
  <2> QED BY <1>0, <2>1, KeptOn, Zenon
<1>5. ArgsKept'
  BY <1>0, <1>1, LoadsOn DEF ArgsKept
<1>6. RetsKept'
  <2> SUFFICES ASSUME NEW i \in CallsOf(fn, bb), i < pos + 1, OnlyLoads(i)' PROVE FALSE
    BY <1>0, Zenon DEF RetsKept
  <2>1. i \in Nat /\ i < pos
    BY <1>0, <1>1, InBody, ExitsOf DEF Advance
  <2> QED BY <1>0, <2>1, LoadsOn, Zenon
<1>7. OthersInMemory' /\ RegsHeld'
  BY <1>0, <1>2 DEF OthersInMemory, RegsHeld, Held
<1> QED BY <1>3, <1>4, <1>5, <1>6, <1>7, Zenon DEF PassInv

(* A call returns all fields: in memory if the CPU state escapes, or else  *)
(* as values of the call, which is not in the entry block.                 *)
LEMMA CallStep ==
  ASSUME PassInv, Call
  PROVE  PassInv'
<1>0. /\ Advance /\ Shape /\ phi' = phi
      /\ Cur.op = "call" /\ fn' = fn /\ nfn' = nfn /\ bb' = bb /\ pos' = pos + 1
      /\ time' = time /\ Body' = Body /\ Running /\ ~IsStore(Cur)
      /\ cpu' = [x \in Fields |-> Returned(x)] /\ mem' = AfterCall(nfn.escapes)
      /\ ret' = [ret EXCEPT ![bb] = [r \in Regs |-> Returned(r)]]
  BY Zenon DEF Call, Step, Advance, PassInv, Body, IsStore
<1>1. /\ pos \in 1 .. Len(Body) /\ pos \in Nat /\ Len(Body) \in Nat
      /\ bb \in DOMAIN fn /\ fn \in Funcs /\ pos \in CallsOf(fn, bb) /\ Lifted(fn)
  BY <1>0, InBody, Zenon DEF Advance, Shape
<1>2. /\ nfn.escapes = Escapes(fn) /\ ret = [b \in DOMAIN fn |-> ret[b]]
  BY <1>0, Zenon DEF Shape, ChangeCallConv
<1>3. /\ \A x \in Fields : cpu'[x] = Returned(x)
      /\ \A r \in Regs : r \in Fields /\ ret'[bb][r] = Returned(r)
      /\ \A x \in Others : x \in Fields /\ mem'[x] = Returned(x)
      /\ Escapes(fn) => \A r \in Regs : mem'[r] = Returned(r)
  BY <1>0, <1>1, <1>2, Zenon DEF Fields, AfterCall
<1>4. Shape'
  <2>1. cpu' = [x \in Fields |-> cpu'[x]] /\ mem' = [x \in Fields |-> mem'[x]]
    BY <1>0, Zenon DEF AfterCall
  <2>2. ret' = [b \in DOMAIN fn |-> ret'[b]]
    BY <1>0, <1>2, Zenon
  <2> QED BY <1>0, <1>1, <2>1, <2>2 DEF Shape
<1>5. Latest'
  <2> SUFFICES ASSUME NEW j \in 1 .. pos' - 1, IsStore(Body[j]), Kept(j)' PROVE FALSE
    BY <1>0, Zenon DEF Latest
  <2>1. j \in 1 .. pos - 1
    BY <1>0, <1>1 DEF Cur
  <2> QED BY <1>0, <2>1, KeptOn, Zenon
<1>6. ArgsKept'
  BY <1>0, <1>1, LoadsOn DEF ArgsKept
<1>7. RetsKept'
  BY <1>0, <1>3, Zenon DEF RetsKept
<1>8. OthersInMemory'
  BY <1>3, Zenon DEF OthersInMemory
<1>9. RegsHeld'
  <2>1. Passed'
    BY <1>0, <1>1 DEF Passed
  <2>2. <<bb, pos>> \in Sites(fn)
    BY <1>1, SitesOf, Zenon DEF Exits
  <2>3. Calling
    <3>1. PICK s \in Sites(fn) : s = <<bb, pos>>
      BY <2>2, Zenon
    <3>2. s \in callret_calls(fn)
      BY <1>1, <3>1, Zenon DEF callret_calls
    <3> QED BY <3>2, Zenon DEF Calling
  <2>4. Escapes(fn) \/ bb # Entry
    <3>1. PICK s \in Sites(fn) : s = <<bb, pos>>
      BY <2>2, Zenon
    <3> QED BY <1>1, <3>1, Zenon DEF Lifted
  <2>5. Calling' /\ (Escapes(fn)' <=> Escapes(fn))
    BY <1>0, <2>3, Zenon DEF Calling
  <2> QED BY <1>0, <1>3, <2>1, <2>4, <2>5, Zenon DEF RegsHeld, Held
<1> QED BY <1>4, <1>5, <1>6, <1>7, <1>8, <1>9, Zenon DEF PassInv

(* A block that branches has no store pending: its only exit is its call. *)
LEMMA BranchSettled ==
  ASSUME Shape, Running, AtEnd, fn[bb].term = "br", NEW r
  PROVE  ~Pending(r)
<1>1. /\ bb \in DOMAIN fn /\ fn \in Funcs /\ pos \in Nat /\ Len(Body) \in Nat /\ pos > Len(Body)
  BY BlockShape, Zenon DEF Shape, AtEnd, Body
<1>2. ASSUME NEW i \in Exits(fn, bb) PROVE ~(pos <= i)
  BY <1>1, ExitsOf, SMTT(60) DEF Exits, Body
<1> QED BY <1>2, Zenon DEF Pending

(* A branch wires the PHI nodes of the block it goes to. *)
LEMMA BranchStep ==
  ASSUME PassInv, NEW b \in DOMAIN fn, Branch(b)
  PROVE  PassInv'
<1>0. /\ Shape /\ Running /\ AtEnd /\ fn[bb].term = "br" /\ b \in fn[bb].succ
      /\ fn' = fn /\ nfn' = nfn /\ bb' = b /\ pos' = 1 /\ cpu' = cpu /\ mem' = mem /\ ret' = ret
      /\ phi' = [phi EXCEPT ![b] =
                   [r \in Regs |-> IF <<b, r>> \in nfn.phis THEN Incoming(r) ELSE Dead(r)]]
  BY Zenon DEF Branch, PassInv
<1>1. /\ bb \in DOMAIN fn /\ fn \in Funcs /\ Lifted(fn) /\ pos \in Nat /\ Len(Body) \in Nat
      /\ pos > Len(Body) /\ b # Entry /\ Len(fn[b].body) \in Nat
  BY <1>0, BlockShape, Zenon DEF Shape, AtEnd, Body
<1>2. /\ nfn.phis = Phis(fn) /\ phi = [c \in DOMAIN fn |-> phi[c]]
  BY <1>0, Zenon DEF Shape, ChangeCallConv
<1>3. \A r \in Regs : <<b, r>> \in Phis(fn) => phi'[b][r] = Incoming(r)
  BY <1>0, <1>1, <1>2, Zenon
<1>4. Shape'
  <2>1. phi' = [c \in DOMAIN fn |-> phi'[c]]
    BY <1>0, <1>2, Zenon
  <2> QED BY <1>0, <1>1, <2>1 DEF Shape, Body
<1>5. Latest' /\ ArgsKept'
  BY <1>0, <1>1 DEF Latest, ArgsKept
<1>6. ~Passed' /\ RetsKept'
  <2>1. \A i \in CallsOf(fn, b) : i \in Nat /\ ~(i < 1)
    BY <1>1, ExitsOf
  <2> QED BY <1>0, <2>1, Zenon DEF Passed, RetsKept
<1>7. OthersInMemory'
  BY <1>0, Zenon DEF PassInv, OthersInMemory
<1>8. RegsHeld'
  <2> SUFFICES ASSUME NEW r \in Regs, ~Unwired(r)' PROVE cpu[r] = Held(r)'
    BY <1>0, Zenon DEF RegsHeld
  <2>1. cpu[r] = Held(r) \/ Unwired(r)
    BY <1>0, BranchSettled, Zenon DEF PassInv, RegsHeld
  <2>2. /\ Calling' <=> Calling
        /\ Held(r)' = IF Escapes(fn) THEN mem[r] ELSE IF ~Calling THEN Arg(r) ELSE phi'[b][r]
    BY <1>0, <1>1, <1>6 DEF Held, Calling, Arg
  <2>3. CASE Escapes(fn) \/ ~Calling
    BY <2>1, <2>2, <2>3, Zenon DEF Held, Unwired
  <2>4. CASE ~Escapes(fn) /\ Calling
    <3>1. <<b, r>> \in Phis(fn)
      BY <1>0, <1>1, <1>6, <2>2, <2>4, Zenon DEF Unwired
    <3>2. Held(r)' = Incoming(r)
      BY <1>3, <2>2, <2>4, <3>1, Zenon
    <3>3. CASE bb = Entry
      BY <2>1, <2>4, <3>2, <3>3, Zenon DEF Held, Unwired, Incoming
    <3>4. CASE bb # Entry /\ bb \in Producers(fn)
      <4>1. PICK s \in Sites(fn) : s[1] = bb
        BY <3>4, Zenon DEF Producers
      <4>2. PICK c \in DOMAIN fn : s \in {<<c, i>> : i \in CallsOf(fn, c) \union Ends(fn, c)}
        BY Zenon DEF Sites
      <4>3. PICK i \in CallsOf(fn, c) \union Ends(fn, c) : s = <<c, i>>
        BY <4>2, Zenon
      <4>4. i \in CallsOf(fn, bb)
        BY <1>0, <1>1, <4>1, <4>3, ExitsOf, Zenon
      <4>5. Passed
        BY <1>1, <4>4, ExitsOf, SMTT(60) DEF Passed, Body
      <4> QED BY <2>1, <2>4, <3>2, <3>4, <4>5, Zenon DEF Held, Unwired, Incoming
    <3>5. CASE bb # Entry /\ bb \notin Producers(fn)
      <4>1. <<bb, r>> \in Phis(fn)
        BY <1>0, <1>1, <3>1, <3>5, PhisClosed, Zenon
      <4>2. ~Passed
        <5>1. ASSUME NEW i \in CallsOf(fn, bb) PROVE FALSE
          <6>1. PICK s \in Sites(fn) : s = <<bb, i>>
            BY <1>1, SitesOf, Zenon DEF Exits
          <6>2. bb \in Producers(fn)
            BY <6>1 DEF Producers
          <6> QED BY <3>5, <6>2, Zenon
        <5> QED BY <5>1, Zenon DEF Passed
      <4> QED BY <2>1, <2>4, <3>2, <3>5, <4>1, <4>2, Zenon DEF Held, Unwired, Incoming
    <3> QED BY <3>3, <3>4, <3>5, Zenon
  <2> QED BY <2>3, <2>4, Zenon
<1> QED BY <1>4, <1>5, <1>6, <1>7, <1>8, Zenon DEF PassInv

(* Both executions start with the same arguments. *)
LEMMA InitPass == Init => PassInv
<1> SUFFICES ASSUME Init PROVE PassInv
  BY Zenon
<1>1. /\ fn \in Funcs /\ Lifted(fn) /\ nfn = ChangeCallConv(fn) /\ bb = Entry /\ pos = 1
      /\ cpu = [x \in Fields |-> Arg(x)] /\ mem = Entered(nfn.escapes)
      /\ ret = [b \in DOMAIN fn |-> [r \in Regs |-> Dead(r)]]
      /\ phi = [b \in DOMAIN fn |-> [r \in Regs |-> Dead(r)]]
  BY Zenon DEF Init
<1>2. /\ Entry \in DOMAIN fn /\ bb \in DOMAIN fn /\ Len(Body) \in Nat /\ nfn.escapes = Escapes(fn)
  <2>1. Entry \in DOMAIN fn /\ bb \in DOMAIN fn
    BY <1>1, FuncsAssumption, Zenon
  <2>2. Len(Body) \in Nat
    BY <1>1, <2>1, BlockShape, Zenon DEF Body
  <2>3. nfn.escapes = Escapes(fn)
    BY <1>1, Zenon DEF ChangeCallConv
  <2> QED BY <2>1, <2>2, <2>3, Zenon
<1>3. Shape
  <2>1. cpu = [x \in Fields |-> cpu[x]] /\ mem = [x \in Fields |-> mem[x]]
    BY <1>1, Zenon DEF Entered
  <2>2. ret = [b \in DOMAIN fn |-> ret[b]] /\ phi = [b \in DOMAIN fn |-> phi[b]]
    BY <1>1, Zenon
  <2> QED BY <1>1, <1>2, <2>1, <2>2 DEF Shape
<1>4. Latest /\ ArgsKept
  BY <1>1 DEF Latest, ArgsKept
<1>5. RetsKept
  <2>1. \A i \in CallsOf(fn, bb) : ~(i < pos)
    BY <1>1, <1>2, ExitsOf
  <2> QED BY <2>1, Zenon DEF RetsKept
<1>6. OthersInMemory
  BY <1>1, Zenon DEF OthersInMemory, Entered, Fields
<1>7. RegsHeld
  <2>1. \A r \in Regs : r \in Fields
    BY Zenon DEF Fields
  <2>2. Escapes(fn) => \A r \in Regs : mem[r] = Arg(r)
    BY <1>1, <1>2, <2>1, Zenon DEF Entered
  <2> QED BY <1>1, <2>1, <2>2, Zenon DEF RegsHeld, Held
<1> QED BY <1>3, <1>4, <1>5, <1>6, <1>7, Zenon DEF PassInv

(* Every instruction keeps the two executions related. *)
LEMMA NextPass == PassInv /\ [Next]_vars => PassInv'
<1> SUFFICES ASSUME PassInv, [Next]_vars PROVE PassInv'
  BY Zenon
<1>1. CASE Leave
  <2>1. /\ fn' = fn /\ nfn' = nfn /\ bb' = bb /\ cpu' = cpu /\ mem' = mem /\ ret' = ret /\ phi' = phi
        /\ pos' = 0 /\ Shape
    BY <1>1, Zenon DEF Leave, PassInv
  <2>2. Len(Body) \in Nat
    BY <2>1, BlockShape, Zenon DEF Shape, Body
  <2> QED BY <2>1, <2>2 DEF PassInv, Shape, Running, Body
<1>2. CASE UNCHANGED vars
  <2>1. Shape' /\ (Running' => Running)
    BY <1>2, Zenon DEF vars, PassInv, Shape, Running, Body
  <2>2. Running => (Latest /\ ArgsKept)'
    BY <1>2, ZenonT(30) DEF vars, PassInv, Latest, ArgsKept, OnlyLoads, Body, Kept, Stored
  <2>3. Running => (RetsKept /\ OthersInMemory)'
    BY <1>2, ZenonT(30) DEF vars, PassInv, RetsKept, OthersInMemory, OnlyLoads, Body
  <2>4. Running => RegsHeld'
    BY <1>2, ZenonT(30) DEF vars, PassInv, RegsHeld, Held, Pending, Unwired, Passed, Calling, Body, Kept, Stored
  <2> QED BY <2>1, <2>2, <2>3, <2>4, Zenon DEF PassInv
<1> QED BY <1>1, <1>2, QuietStep, StoreStep, HelperStep, CallStep, BranchStep, Zenon DEF Next

(* The two executions of a function stay related. *)
LEMMA PassHolds == Spec => []PassInv
BY InitPass, NextPass, PTL DEF Spec

(* For every lifted function, a helper that gets the CPU state finds all   *)
(* of it up to date in memory, wherever the pass keeps the fields.         *)
THEOREM HelpersAreServed == Spec => []HelpersSeeState
<1>1. ASSUME PassInv, Running, ~AtEnd, Cur.op = "helper" PROVE mem = cpu
  <2>1. /\ pos \in 1 .. Len(Body) /\ pos \in Nat /\ bb \in DOMAIN fn /\ fn \in Funcs
        /\ pos \notin Exits(fn, bb)
    BY <1>1, InBody, Zenon DEF PassInv, Exits
  <2>2. Escapes(fn)
    BY <1>1, <2>1, EscapesBy, Zenon DEF Cur, Body
  <2>3. ASSUME NEW r \in Regs PROVE ~Pending(r)
    <3> SUFFICES ASSUME NEW i \in Exits(fn, bb), pos <= i, NEW j \in FoldStores(fn, <<bb, i>>), j < pos
                 PROVE  FALSE
      BY Zenon DEF Pending
    <3>1. i \in Nat /\ j \in Nat /\ pos \in j + 1 .. i - 1
      BY <2>1, ExitsOf, FoldStoresOf
    <3> QED BY <1>1, <2>1, <3>1, FoldStoresOf, Zenon DEF Cur, Body
  <2>4. \A x \in Fields : mem[x] = cpu[x]
    BY <1>1, <2>2, <2>3, Zenon DEF PassInv, OthersInMemory, RegsHeld, Held, Unwired, Fields
  <2> QED BY <1>1, <2>4, Zenon DEF PassInv, Shape
<1>2. PassInv => HelpersSeeState
  BY <1>1, Zenon DEF HelpersSeeState
<1> QED BY <1>2, PassHolds, PTL

(* For every lifted function, each load, folded or left, gives what it     *)
(* gave before the pass.                                                   *)
THEOREM LoadsKept == Spec => []LoadsAgree
<1>1. ASSUME PassInv, Running, ~AtEnd, Cur.op = "load"
      PROVE  cpu[Cur.f] = IF <<bb, pos>> \in nfn.args THEN Arg(Cur.f)
                          ELSE IF <<bb, pos>> \in nfn.rets THEN ret[bb][Cur.f] ELSE mem[Cur.f]
  <2>1. /\ pos \in 1 .. Len(Body) /\ pos \in Nat /\ bb \in DOMAIN fn /\ fn \in Funcs
        /\ pos \notin Exits(fn, bb) /\ Cur.f \in Fields
    BY <1>1, InBody, Zenon DEF PassInv, Exits
  <2>2. nfn.args = ArgLoads(fn) /\ nfn.rets = RetLoads(fn)
    BY <1>1, Zenon DEF PassInv, Shape, ChangeCallConv
  <2>3. CASE <<bb, pos>> \in ArgLoads(fn)
    <3>1. bb = Entry /\ pos \in FoldLoads(fn, Entry, 0)
      BY <2>3, Zenon DEF ArgLoads
    <3>2. OnlyLoads(0)
      BY <3>1, Zenon DEF FoldLoads, MayWriteToMemory, OnlyLoads, Body
    <3> QED BY <1>1, <2>1, <2>2, <2>3, <3>1, <3>2, Zenon DEF PassInv, ArgsKept
  <2>4. CASE <<bb, pos>> \in RetLoads(fn) /\ <<bb, pos>> \notin ArgLoads(fn)
    <3>1. PICK b \in DOMAIN fn :
            <<bb, pos>> \in {<<b, j>> : j \in UNION {FoldLoads(fn, b, i) : i \in CallsOf(fn, b)}}
      BY <2>4, Zenon DEF RetLoads
    <3>2. PICK i \in CallsOf(fn, bb) : pos \in FoldLoads(fn, bb, i)
      BY <3>1, Zenon
    <3>3. i \in Nat /\ i < pos /\ OnlyLoads(i) /\ Cur.f \in Regs
      BY <2>1, <3>2, ExitsOf DEF FoldLoads, MayWriteToMemory, OnlyLoads, Body, Cur
    <3> QED BY <1>1, <2>2, <2>4, <3>2, <3>3, Zenon DEF PassInv, RetsKept
  <2>5. CASE <<bb, pos>> \notin ArgLoads(fn) \union RetLoads(fn)
    <3>1. <<bb, pos>> \notin Folded(fn)
      BY <2>5, Zenon DEF Folded
    <3>2. ASSUME NEW r \in Regs PROVE ~Pending(r)
      <4> SUFFICES ASSUME NEW i \in Exits(fn, bb), pos <= i, NEW j \in FoldStores(fn, <<bb, i>>), j < pos
                   PROVE  FALSE
        BY Zenon DEF Pending
      <4>1. i \in Nat /\ j \in Nat /\ pos \in j + 1 .. i - 1
        BY <2>1, ExitsOf, FoldStoresOf
      <4> QED BY <1>1, <2>1, <3>1, <4>1, FoldStoresOf, Zenon DEF Cur, Body
    <3>3. CASE Cur.f \in Regs
      <4>1. Escapes(fn)
        BY <1>1, <2>1, <3>1, <3>3, EscapesBy, Zenon DEF Cur, Body
      <4> QED BY <1>1, <2>2, <2>5, <3>2, <3>3, <4>1, Zenon DEF PassInv, RegsHeld, Held, Unwired
    <3> QED BY <1>1, <2>1, <2>2, <2>5, <3>3, Zenon DEF PassInv, OthersInMemory, Fields
  <2> QED BY <2>3, <2>4, <2>5, Zenon
<1>2. PassInv => LoadsAgree
  BY <1>1, Zenon DEF LoadsAgree
<1> QED BY <1>2, PassHolds, PTL

(* Where a site finds the value of a field: a folded store that is the     *)
(* last one of the field, or, if there is none, memory, an argument or a   *)
(* PHI node.                                                               *)
LEMMA SourceOf ==
  ASSUME NEW f \in Funcs, Lifted(f), NEW b \in DOMAIN f, NEW i \in Exits(f, b), NEW r \in Regs
  PROVE  \/ /\ Source(f, <<b, i>>, r) \in FoldStores(f, <<b, i>>)
            /\ f[b].body[Source(f, <<b, i>>, r)].f = r
            /\ \A j \in FoldStores(f, <<b, i>>) : f[b].body[j].f = r => j = Source(f, <<b, i>>, r)
         \/ /\ \A j \in FoldStores(f, <<b, i>>) : f[b].body[j].f # r
            /\ Source(f, <<b, i>>, r) = IF Escapes(f) THEN -2
                                        ELSE IF callret_calls(f) = {} THEN 0 ELSE -1
<1>1. PICK s \in Sites(f) : s = <<b, i>>
  BY SitesOf, Zenon
<1> DEFINE js == {j \in FoldStores(f, s) : f[s[1]].body[j].f = r}
<1>2. CASE js # {}
  <2>1. Source(f, s, r) = CHOOSE j \in js : TRUE
    BY <1>2, Zenon DEF Source
  <2>2. Source(f, s, r) \in js
    BY <1>2, <2>1, Zenon
  <2>3. \A j, k \in FoldStores(f, s) : f[s[1]].body[j].f = f[s[1]].body[k].f => j = k
    BY Zenon DEF Lifted
  <2> QED BY <1>1, <2>2, <2>3, Zenon
<1>3. CASE js = {}
  <2>1. Source(f, s, r) = IF Escapes(f) THEN -2 ELSE IF callret_calls(f) = {} THEN 0 ELSE -1
    BY <1>3, Zenon DEF Source
  <2> QED BY <1>1, <1>3, <2>1, Zenon
<1> QED BY <1>2, <1>3, Zenon

(* For every lifted function, at each call, tail call and return the       *)
(* fields of the convention are handed over with the values the function   *)
(* gave them, through stores, memory, arguments and PHI nodes, and the     *)
(* other fields are in memory.                                             *)
THEOREM FieldsHandedOver == Spec => []HandsOver
<1>1. ASSUME PassInv, AtSite, NEW r \in Regs PROVE Value(r) = cpu[r]
  <2>1. /\ Shape /\ Running /\ pos \in Nat /\ bb \in DOMAIN fn /\ fn \in Funcs /\ Lifted(fn)
        /\ pos \in Exits(fn, bb)
        /\ nfn.source[<<bb, pos>>][r] = Source(fn, <<bb, pos>>, r)
    <3>1. Shape /\ Running /\ pos \in Nat /\ bb \in DOMAIN fn /\ fn \in Funcs /\ Lifted(fn)
      BY <1>1, Zenon DEF PassInv, AtSite, Shape
    <3>2. nfn.source = [s \in Sites(fn) |-> [q \in Regs |-> Source(fn, s, q)]]
      BY <3>1, Zenon DEF Shape, ChangeCallConv
    <3>3. <<bb, pos>> \in Sites(fn)
      BY <1>1, <3>2, Zenon DEF AtSite
    <3> QED BY <3>1, <3>2, <3>3, SitesOf
  <2>2. PICK s : s = Source(fn, <<bb, pos>>, r)
    BY Zenon
  <2>3. CASE s \in FoldStores(fn, <<bb, pos>>) /\ fn[bb].body[s].f = r
    <3>1. /\ s \in 1 .. pos - 1 /\ s \in Nat /\ s > 0 /\ IsStore(Body[s])
          /\ \A k \in s + 1 .. pos - 1 : Body[k].op \notin {"helper", "call"}
      <4>1. /\ s \in 1 .. pos - 1 /\ IsStore(Body[s])
            /\ \A k \in s + 1 .. pos - 1 : Body[k].op \notin {"helper", "call"}
        BY <2>1, <2>3, FoldStoresOf, Zenon DEF Body
      <4> QED BY <2>1, <4>1
    <3>2. ASSUME NEW k \in s + 1 .. pos - 1, IsStore(Body[k]), Body[k].f = r PROVE FALSE
      <4>1. k \in FoldStores(fn, <<bb, pos>>)
        BY <2>1, <2>3, <3>2, FoldsLater, Zenon DEF Body
      <4>2. k = s
        BY <2>1, <2>2, <2>3, <3>2, <4>1, SourceOf, Zenon DEF Body
      <4> QED BY <2>1, <3>1, <4>2
    <3>3. Kept(s)
      BY <2>3, <3>1, <3>2, Zenon DEF Kept, Body
    <3>4. cpu[r] = Stored(Body[s], s)
      BY <1>1, <2>1, <2>3, <3>1, <3>3, Zenon DEF PassInv, Latest, Body
    <3> QED BY <2>1, <2>2, <3>1, <3>4 DEF Value
  <2>4. CASE /\ \A j \in FoldStores(fn, <<bb, pos>>) : fn[bb].body[j].f # r
             /\ s = IF Escapes(fn) THEN -2 ELSE IF callret_calls(fn) = {} THEN 0 ELSE -1
    <3>1. ~Pending(r)
      BY <2>1, <2>4, OneExit, Zenon DEF Pending, Body
    <3>2. cpu[r] = Held(r) \/ Unwired(r)
      BY <1>1, <2>1, <3>1, Zenon DEF PassInv, RegsHeld
    <3>3. CASE Escapes(fn)
      BY <2>1, <2>2, <2>4, <3>2, <3>3 DEF Value, Held, Unwired
    <3>4. CASE ~Escapes(fn) /\ ~Calling
      BY <2>1, <2>2, <2>4, <3>2, <3>4 DEF Value, Held, Unwired, Calling
    <3>5. CASE ~Escapes(fn) /\ Calling
      <4>1. s = -1 /\ <<bb, r>> \in Phis(fn)
        BY <2>1, <2>2, <2>4, <3>5, PhisClosed, Zenon DEF Calling
      <4>2. bb # Entry
        <5>1. PICK t \in Sites(fn) : t = <<bb, pos>>
          BY <2>1, SitesOf, Zenon
        <5> QED BY <2>1, <3>5, <5>1, Zenon DEF Lifted
      <4>3. ~Passed
        <5>1. ASSUME NEW i \in CallsOf(fn, bb) PROVE ~(i < pos)
          <6>1. i = pos
            BY <2>1, OneExit, Zenon DEF Exits
          <6> QED BY <2>1, <6>1
        <5> QED BY <5>1, Zenon DEF Passed
      <4> QED BY <2>1, <2>2, <3>2, <3>5, <4>1, <4>2, <4>3 DEF Value, Held, Unwired
    <3> QED BY <3>3, <3>4, <3>5, Zenon
  <2> QED BY <2>1, <2>2, <2>3, <2>4, SourceOf, Zenon
<1>2. PassInv => HandsOver
  BY <1>1, Zenon DEF HandsOver, PassInv, OthersInMemory, AtSite
<1> QED BY <1>2, PassHolds, PTL
==============================================================================
