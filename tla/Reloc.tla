------------------------------- MODULE Reloc ---------------------------------
(***************************************************************************)
(* The code that client/rtld.c writes or changes: rtld_reloc_at makes an   *)
(* instruction of a new object refer to a symbol, and, if the symbol was a *)
(* stub, does so again when the code behind the stub exists (rtld_patch);  *)
(* rtld_patch_create_stub and plt_create write instructions with a         *)
(* distance in them.                                                       *)
(*                                                                         *)
(* An instruction, or pair, is the set of its one bits.  What a processor  *)
(* makes of it is written down from the instruction sets, and is external. *)
(* Addresses are those of a 32-bit window.                                 *)
(***************************************************************************)
EXTENDS Integers, FiniteSetsExt

CONSTANTS
  Types,      \* relocation types, stubs and PLT entries
  Site,       \* the address of the instruction
  Syms,       \* addresses of symbols
  Opcodes,    \* what the bits around the immediate may be
  StubAddr,   \* where the arena has room for a stub
  PltCount    \* number of PLT entries

VARIABLES
  type,   \* the relocation type
  word,   \* the instruction
  orig,   \* the instruction as the compiler left it
  asked,  \* the symbol it was last to be made to refer to
  sym,    \* the symbol of the last relocation that was accepted
  stub    \* what a stub created for that loads, 0 if there is none

relocVars == <<type, word, orig, asked, sym, stub>>

Words == {"X86_64_PLT32", "X86_64_PC32", "AARCH64_PREL32", "RISCV_32_PCREL", "X86_64_STUB"}
Branches == {"AARCH64_CALL26", "AARCH64_JUMP26", "AARCH64_STUB"}
Pairs == {"RISCV_CALL", "RISCV_CALL_PLT", "RISCV_STUB", "RISCV_PLT"}
Created == {"X86_64_STUB", "AARCH64_STUB", "RISCV_STUB", "X86_64_PLT", "AARCH64_PLT", "RISCV_PLT"}
Templates == Created \ {"AARCH64_STUB"}
LowBits == {"AARCH64_ADD_ABS_LO12_NC", "AARCH64_LDST8_ABS_LO12_NC", "AARCH64_LDST16_ABS_LO12_NC",
  "AARCH64_LDST32_ABS_LO12_NC", "AARCH64_LDST64_ABS_LO12_NC", "AARCH64_LDST128_ABS_LO12_NC"}

AllTypes ==
  Words \union Branches \union Pairs \union Created \union LowBits \union
  {"AARCH64_ADR_PREL_PG_HI21", "AARCH64_MOVW_UABS_G0_NC", "AARCH64_MOVW_UABS_G1_NC",
   "RISCV_BRANCH", "RISCV_JAL", "RISCV_PCREL_HI20", "RISCV_PCREL_LO12_I", "RISCV_PCREL_LO12_S"}

(* The load of an AArch64 PLT entry reaches 2^20 bytes. *)
ASSUME RelocAssumption ==
  /\ Types \subseteq AllTypes
  /\ Site \in Int /\ StubAddr \in Int /\ Syms \subseteq Int
  /\ PltCount \in Nat /\ 8 * PltCount + 64 <= 2^20

(* log2 of the size of the access *)
Scale(t) ==
  CASE t = "AARCH64_LDST16_ABS_LO12_NC" -> 1 [] t = "AARCH64_LDST32_ABS_LO12_NC" -> 2
    [] t = "AARCH64_LDST64_ABS_LO12_NC" -> 3 [] t = "AARCH64_LDST128_ABS_LO12_NC" -> 4
    [] OTHER -> 0

Bit(v, i) == IF i >= 31 THEN v < 0 ELSE (v \div 2^i) % 2 = 1

(* Bits from .. to of v, moved by so many places. *)
Shifted(v, from, to, by) == {i + by : i \in {j \in from .. to : Bit(v, j)}}

(* Mutant: half the range. *)
CheckSignedBitsShort(v, bits) ==
  IF bits = 32 THEN v # 2147483647 ELSE v >= -(2^(bits - 2)) /\ v < 2^(bits - 2) - 1

(* CHECK_SIGNED_BITS; every distance of the window has 32 bits. *)
CheckSignedBits(v, bits) ==
  IF bits = 32 THEN v # 2147483647
  ELSE v >= -(2^(bits - 1)) /\ v < 2^(bits - 1) - 1

(* Mutant: the new bits are not masked. *)
BlendWhole(tgt, mask, data) == data \union (tgt \ mask)

(* rtld_blend *)
Blend(tgt, mask, data) == (data \cap mask) \union (tgt \ mask)

AlignDown(a) == a - (a % 4096)

(* Mutant: the sign of the low part is not carried into the high part. *)
HiNoCarry(v) == v \div 4096

(* (off + 0x800) >> 12 *)
Hi(v) == (v + 2048) \div 4096
Lo(v) == v % 4096

(* The bits of the immediate, as the linker writes them. *)
Encode(t, v) ==
  CASE t \in Words    -> Shifted(v, 0, 31, 0)
    [] t = "X86_64_PLT" -> Shifted(v, 0, 31, 16)
    [] t \in Branches -> Shifted(v, 2, 31, -2)
    [] t = "AARCH64_PLT" -> Shifted(v, 0, 31, 3)
    [] t = "AARCH64_ADR_PREL_PG_HI21" -> Shifted(v, 0, 1, 29) \union Shifted(v, 2, 20, 3)
    [] t \in LowBits  -> Shifted(v, Scale(t), 31, 10 - Scale(t))
    [] t = "AARCH64_MOVW_UABS_G0_NC" -> Shifted(v, 0, 31, 5)
    [] t = "AARCH64_MOVW_UABS_G1_NC" -> Shifted(v, 16, 31, -11)
    [] t = "RISCV_BRANCH" -> Shifted(v, 12, 12, 19) \union Shifted(v, 5, 10, 20)
                               \union Shifted(v, 1, 4, 7) \union Shifted(v, 11, 11, -4)
    [] t = "RISCV_JAL" -> Shifted(v, 20, 20, 11) \union Shifted(v, 1, 10, 20)
                            \union Shifted(v, 11, 11, 9) \union Shifted(v, 12, 19, 0)
    [] t = "RISCV_PCREL_HI20"   -> Shifted(Hi(v), 0, 19, 12)
    [] t = "RISCV_PCREL_LO12_I" -> Shifted(Lo(v), 0, 11, 20)
    [] t = "RISCV_PCREL_LO12_S" -> Shifted(Lo(v), 0, 4, 7) \union Shifted(Lo(v), 5, 11, 20)
    [] t \in Pairs -> Shifted(Hi(v), 0, 19, 12) \union Shifted(Lo(v), 0, 11, 52)

(* The bits that the linker replaces. *)
Mask(t) ==
  CASE t \in Words    -> 0 .. 31
    [] t \in Branches -> 0 .. 25
    [] t = "AARCH64_ADR_PREL_PG_HI21" -> {29, 30} \union (5 .. 23)
    [] t \in LowBits  -> 10 .. 21 - Scale(t)
    [] t \in {"AARCH64_MOVW_UABS_G0_NC", "AARCH64_MOVW_UABS_G1_NC"} -> 5 .. 20
    [] t \in {"RISCV_BRANCH", "RISCV_PCREL_LO12_S"} -> (25 .. 31) \union (7 .. 11)
    [] t \in {"RISCV_JAL", "RISCV_PCREL_HI20"} -> 12 .. 31
    [] t = "RISCV_PCREL_LO12_I" -> 20 .. 31
    [] t \in Pairs -> (12 .. 31) \union (52 .. 63)

(* How far behind the site the distance of an instruction starts: the      *)
(* addend -4 of the compiler, and the jumps in a stub and a PLT entry.     *)
Disp(t) ==
  CASE t \in {"X86_64_PLT32", "AARCH64_STUB"} -> 4 [] t = "X86_64_STUB" -> 12
    [] t = "X86_64_PLT" -> 6 [] t = "RISCV_STUB" -> 8 [] OTHER -> 0

(* The value encoded.  Site is the address of the auipc for both parts of  *)
(* a PCREL pair (rtld_riscv_lookup_hi20_target).                           *)
Operand(t, s) ==
  CASE t \in LowBits \union {"AARCH64_MOVW_UABS_G0_NC", "AARCH64_MOVW_UABS_G1_NC"} -> s
    [] t = "AARCH64_ADR_PREL_PG_HI21" -> (AlignDown(s) - AlignDown(Site)) \div 4096
    [] OTHER -> s - Site - Disp(t)

(* The width that is checked; 0 is none. *)
Checked(t) ==
  CASE t \in Words \ {"X86_64_STUB"} -> 32 [] t \in Branches -> 28
    [] t = "AARCH64_ADR_PREL_PG_HI21" -> 21 [] t = "RISCV_BRANCH" -> 13
    [] t = "RISCV_JAL" -> 21 [] OTHER -> 0

Accepts(t, v) == Checked(t) # 0 => CheckSignedBits(v, Checked(t))

(* rtld_reloc_at.  A call of AArch64 that does not reach goes over a stub   *)
(* that loads the address (rtld_elf_add_stub).                              *)
RelocAt(s) ==
  LET direct == Operand(type, s)
      far == type \in {"AARCH64_CALL26", "AARCH64_JUMP26"} /\ ~Accepts(type, direct)
      v == IF far THEN Operand(type, StubAddr) ELSE direct
  IN  /\ type \in Created => asked = 0
      /\ asked' = s
      /\ IF Accepts(type, v)
         THEN /\ word' = IF type \in Templates THEN word \union Encode(type, v)
                         ELSE Blend(word, Mask(type), Encode(type, v))
              /\ sym' = s /\ stub' = IF far THEN s ELSE 0
         ELSE UNCHANGED <<word, sym, stub>>
      /\ UNCHANGED <<type, orig>>

(* plt_create: how far the data of entry i is from its code. *)
PltData(i, size) == ((PltCount * size + 63) \div 64) * 64 + 8 * i - i * size

(* Symbols that a type is used with: instructions, or data aligned to the  *)
(* size of the access; an entry of the PLT refers to its own data.         *)
Allowed(t) ==
  LET size == IF t = "RISCV_PLT" THEN 16 ELSE 8
  IN  IF t \in {"X86_64_PLT", "AARCH64_PLT", "RISCV_PLT"}
      THEN {Site + PltData(i, size) : i \in 0 .. PltCount - 1}
      ELSE {s \in Syms : CASE t \in LowBits -> s % 2^Scale(t) = 0
                           [] t \in Branches -> s % 4 = 0
                           [] t \in {"RISCV_BRANCH", "RISCV_JAL"} -> s % 2 = 0
                           [] OTHER -> TRUE}

----------------------------------------------------------------------------
(* The instruction sets (external) *)

Unsigned(w, from, to) == MapThenSumSet(LAMBDA i : 2^(i - from), w \cap (from .. to))
Signed(w, from, to) ==
  IF to \notin w THEN Unsigned(w, from, to - 1)
  ELSE Unsigned(w, from, to - 1) - (2^(to - from - 1) - 1) - 2^(to - from - 1) - 1
Moved(w, from, to, by) == {i + by : i \in w \cap (from .. to)}

(* The immediate of an instruction: a distance in bytes or pages, or the   *)
(* low bits of an address.                                                 *)
Immediate(t, w) ==
  CASE t \in Words    -> Signed(w, 0, 31)
    [] t = "X86_64_PLT" -> Signed(w, 16, 47)
    [] t \in Branches -> 4 * Signed(w, 0, 25)
    [] t = "AARCH64_PLT" -> 4 * Signed(w, 5, 23)
    [] t = "AARCH64_ADR_PREL_PG_HI21" -> 4 * Signed(w, 5, 23) + Unsigned(w, 29, 30)
    [] t \in LowBits  -> 2^Scale(t) * Unsigned(w, 10, 21)
    [] t \in {"AARCH64_MOVW_UABS_G0_NC", "AARCH64_MOVW_UABS_G1_NC"} -> Unsigned(w, 5, 20)
    [] t = "RISCV_BRANCH" ->
         Signed(Moved(w, 31, 31, -19) \union Moved(w, 7, 7, 4) \union Moved(w, 25, 30, -20)
                  \union Moved(w, 8, 11, -7), 0, 12)
    [] t = "RISCV_JAL" ->
         Signed(Moved(w, 31, 31, -11) \union Moved(w, 12, 19, 0) \union Moved(w, 20, 20, -9)
                  \union Moved(w, 21, 30, -20), 0, 20)
    [] t = "RISCV_PCREL_HI20" -> Signed(w, 12, 31)
    [] t = "RISCV_PCREL_LO12_I" -> Signed(w, 20, 31)
    [] t = "RISCV_PCREL_LO12_S" -> Signed(Moved(w, 25, 31, -20) \union Moved(w, 7, 11, -7), 0, 11)
    [] t \in Pairs -> 4096 * Signed(w, 12, 31) + Signed(w, 52, 63)

(* The bits of the immediate; the others are opcode and registers. *)
Field(t) ==
  CASE t \in Words -> 0 .. 31 [] t = "X86_64_PLT" -> 16 .. 47
    [] t \in Branches -> 0 .. 25 [] t = "AARCH64_PLT" -> 5 .. 23
    [] t = "AARCH64_ADR_PREL_PG_HI21" -> {29, 30} \union (5 .. 23)
    [] t \in LowBits -> 10 .. 21
    [] t \in {"AARCH64_MOVW_UABS_G0_NC", "AARCH64_MOVW_UABS_G1_NC"} -> 5 .. 20
    [] t \in {"RISCV_BRANCH", "RISCV_PCREL_LO12_S"} -> (7 .. 11) \union (25 .. 31)
    [] t \in {"RISCV_JAL", "RISCV_PCREL_HI20"} -> 12 .. 31
    [] t = "RISCV_PCREL_LO12_I" -> 20 .. 31
    [] t \in Pairs -> (12 .. 31) \union (52 .. 63)

(* The instruction refers to s, alone or with the other part of its pair. *)
RefersTo(t, w, s) ==
  LET imm == Immediate(t, w)
      d == s - Site
  IN  CASE t = "AARCH64_ADR_PREL_PG_HI21" -> AlignDown(Site) + 4096 * imm = AlignDown(s)
        [] t \in LowBits -> imm = s % 4096
        [] t = "AARCH64_MOVW_UABS_G0_NC" -> imm = s % 65536
        [] t = "AARCH64_MOVW_UABS_G1_NC" -> imm = (s \div 65536) % 65536
        [] t = "RISCV_PCREL_HI20" ->
             4096 * imm + Immediate("RISCV_PCREL_LO12_I", Encode("RISCV_PCREL_LO12_I", d)) = d
        [] t \in {"RISCV_PCREL_LO12_I", "RISCV_PCREL_LO12_S"} ->
             4096 * Immediate("RISCV_PCREL_HI20", Encode("RISCV_PCREL_HI20", d)) + imm = d
        [] OTHER -> Site + Disp(t) + imm = s

----------------------------------------------------------------------------

(* The compiler leaves 0 in the immediate, and so do the templates. *)
RelocInit ==
  /\ type \in Types
  /\ orig \in {o \ Field(type) : o \in Opcodes} /\ word = orig
  /\ asked = 0 /\ sym = 0 /\ stub = 0

RelocNext == \E s \in Allowed(type) : RelocAt(s)

RelocSpec == RelocInit /\ [][RelocNext]_relocVars

----------------------------------------------------------------------------

(* The instruction refers to the symbol of the last relocation that was    *)
(* accepted, over a stub if need be: a patch leaves nothing of the symbol  *)
(* before, and one that is refused leaves the site as it was.              *)
RelocReaches ==
  sym # 0 => \/ RefersTo(type, word, sym)
             \/ stub = sym /\ RefersTo(type, word, StubAddr)

(* Opcode and registers of the instruction are never touched. *)
RelocKeepsOpcode == word \ Field(type) = orig \ Field(type)

(* A branch is only refused, or sent over a stub, if its distance does not *)
(* fit the instruction: CHECK_SIGNED_BITS ends one too early, at an odd    *)
(* distance.                                                               *)
RefusesOnlyUnreachable ==
  type \in {"RISCV_BRANCH", "RISCV_JAL"} \union Branches /\ (asked # sym \/ stub # 0) =>
    Operand(type, asked) \notin -(2^(Checked(type) - 1)) .. 2^(Checked(type) - 1) - 1
==============================================================================
