------------------------------- MODULE FastCC --------------------------------
(***************************************************************************)
(* The register calling conventions, which server and client must agree    *)
(* on: the tables of server/callconv.cc say which guest register is which  *)
(* argument and return value, the dispatchers of client/dispatch.c load    *)
(* the arguments from the CPU state, keep them over a call of the resolver *)
(* and call block after block with what the last one returned.             *)
(*                                                                         *)
(* A guest register is its index in the CPU state.  Which host register an *)
(* argument or return value is in is LLVM's choice, and external.          *)
(***************************************************************************)
EXTENDS Integers, Sequences

Hosts == {"x86_64", "aarch64", "riscv"}
Guests == {"x86_64", "aarch64", "riscv"}

(* Indexes in the CPU state: RAX.. of x86-64 from 1, X1.. of RISC-V from 2, *)
(* X0.. of AArch64 from 2 (rellume's cpustruct).                            *)
XReg(guest, n) == IF guest = "riscv" THEN n + 1 ELSE n + 2
SpReg(guest) == CASE guest = "x86_64"  -> 5
                  [] guest = "riscv"   -> XReg(guest, 2)
                  [] guest = "aarch64" -> 33

(* GetFastCC and GetCallConvClientNumber; oldLLVM is LL_LLVM_MAJOR < 17. *)
GetFastCC(host, guest, oldLLVM) ==
  CASE host = "x86_64"  -> IF oldLLVM THEN "hhvm" ELSE "regcall"
    [] host = "aarch64" -> IF guest = "riscv" THEN "cdecl" ELSE "aapcsx"
    [] host = "riscv"   -> "lp64"

GetCallConvClientNumber(cc) ==
  CASE cc = "cdecl" -> 0 [] cc = "hhvm" -> 1 [] cc = "regcall" -> 2
    [] cc = "aapcsx" -> 3 [] cc = "lp64" -> 4

(* dispatch_get: the dispatchers in a client built for a host. *)
Dispatchers(host) ==
  {0} \union (CASE host = "x86_64" -> {1, 2} [] host = "aarch64" -> {3} [] host = "riscv" -> {4})

(* The tables: per field its guest register, argument and return index. *)
ArgIdx(cc) ==
  CASE cc = "hhvm"    -> <<0, 10, 7, 6, 2, 3, 13, 5, 4, 8, 9, 11, 12>>
    [] cc = "regcall" -> <<1, 2, 3, 4, 5, 6, 7, 8, 9, 10>>
    [] cc = "aapcsx"  -> <<0, 1, 2, 3, 4, 5, 6, 7>>
    [] cc = "lp64"    -> <<1, 2, 3, 4, 5, 6>>
RetIdx(cc) ==
  IF cc = "hhvm" THEN <<0, 8, 5, 4, 1, 13, 11, 3, 2, 6, 7, 9, 10>> ELSE ArgIdx(cc)

GuestRegs(cc, guest) ==
  CASE cc = "cdecl" -> <<>>
    [] guest = "x86_64" ->
         (CASE cc = "hhvm" -> <<0, 1, 2, 3, 4, 5, 6, 7, 8, 9, 10, 11, 12>>
            [] cc = "regcall" -> <<0, 1, 2, 3, 4, 5, 7, 8, 9, 10>>
            [] cc = "aapcsx" -> <<0, 1, 2, 3, 4, 5, 7, 8>>
            [] cc = "lp64" -> <<0, 1, 2, 3, 4, 5>>)
    [] guest = "riscv" ->
         LET X == CASE cc = "hhvm" -> <<18, 1, 2, 8, 9, 10, 11, 12, 13, 14, 15, 17>>
                    [] cc = "regcall" -> <<18, 1, 2, 8, 9, 10, 11, 12, 13>>
                    [] cc = "lp64" -> <<10, 11, 12, 13, 14>>
         IN  <<0>> \o [i \in DOMAIN X |-> XReg(guest, X[i])]
    [] guest = "aarch64" ->
         LET X == CASE cc = "hhvm" -> <<0, 1, 2, 3, 4, 5, 6, 7, 8, 30, 9>>
                    [] cc = "regcall" -> <<0, 1, 2, 3, 4, 30, 6, 7, 8>>
                    [] cc = "aapcsx" -> <<0, 1, 2, 3, 4, 30, 6>>
                    [] cc = "lp64" -> <<0, 1, 2, 3, 4>>
         IN  <<0>> \o [i \in DOMAIN X |-> XReg(guest, X[i])]

(* AArch64 guests leave out the fifth entry of the HHVM tables: the value   *)
(* goes through RBP.                                                        *)
Without(s, i) == SubSeq(s, 1, i - 1) \o SubSeq(s, i + 1, Len(s))
Args(cc, guest) ==
  IF cc = "hhvm" /\ guest = "aarch64" THEN Without(ArgIdx(cc), 5) ELSE ArgIdx(cc)
Rets(cc, guest) ==
  IF cc = "hhvm" /\ guest = "aarch64" THEN Without(RetIdx(cc), 5) ELSE RetIdx(cc)

(* The argument that carries the CPU state. *)
SptrArg(cc) == CASE cc = "hhvm" -> 1 [] cc = "aapcsx" -> 8 [] cc \in {"regcall", "lp64"} -> 0

----------------------------------------------------------------------------
(* LLVM: the host registers of arguments and return values, from index 0.  *)
(* lp64 returns through memory, which the loop reloads in order.           *)
ArgRegs(cc) ==
  CASE cc = "hhvm"    -> <<"rbx", "r12", "rbp", "r15", "rdi", "rsi", "rdx", "rcx", "r8",
                           "r9", "rax", "r10", "r11", "r13">>
    [] cc = "regcall" -> <<"rax", "rcx", "rdx", "rdi", "rsi", "r8", "r9", "r12", "r13",
                           "r14", "r15">>
    [] cc = "aapcsx"  -> <<"x0", "x1", "x2", "x3", "x4", "x5", "x6", "x7", "x20">>
    [] cc = "lp64"    -> <<"a1", "a2", "a3", "a4", "a5", "a6", "a7">>
RetRegs(cc) ==
  IF cc = "hhvm"
  THEN <<"rbx", "rbp", "rdi", "rsi", "rdx", "rcx", "r8", "r9", "rax", "r10", "r11", "r13",
         "r14", "r15">>
  ELSE ArgRegs(cc)

(* The registers that a C function may change. *)
CallerSaved(cc) ==
  CASE cc \in {"hhvm", "regcall"} ->
         {"rax", "rcx", "rdx", "rsi", "rdi", "r8", "r9", "r10", "r11"}
    [] cc = "aapcsx" -> {"x0", "x1", "x2", "x3", "x4", "x5", "x6", "x7"}
    [] cc = "lp64"   -> {"a1", "a2", "a3", "a4", "a5", "a6", "a7"}

----------------------------------------------------------------------------
(* The dispatchers *)

(* What the loop loads before the first block: host registers and the      *)
(* guest registers they get.  Only lp64 looks at the guest.                *)
LoopLoads(cc, guest) ==
  CASE cc = "hhvm"    -> {<<"rbx", 0>>, <<"rax", 1>>, <<"rcx", 2>>, <<"rdx", 3>>, <<"rbp", 4>>,
                          <<"r15", 5>>, <<"r13", 6>>, <<"rsi", 7>>, <<"rdi", 8>>, <<"r8", 9>>,
                          <<"r9", 10>>, <<"r10", 11>>, <<"r11", 12>>}
    [] cc = "regcall" -> {<<"rcx", 0>>, <<"rdx", 1>>, <<"rdi", 2>>, <<"rsi", 3>>, <<"r8", 4>>,
                          <<"r9", 5>>, <<"r12", 7>>, <<"r13", 8>>, <<"r14", 9>>, <<"r15", 10>>}
    [] cc = "aapcsx"  -> {<<"x0", 0>>, <<"x1", 1>>, <<"x2", 2>>, <<"x3", 3>>, <<"x4", 4>>,
                          <<"x5", 5>>, <<"x6", 7>>, <<"x7", 8>>}
    [] cc = "lp64"    ->
         LET off == CASE guest = "x86_64"  -> <<0, 8, 16, 24, 32, 40>>
                      [] guest = "riscv"   -> <<0, 88, 96, 104, 112, 120>>
                      [] guest = "aarch64" -> <<0, 16, 24, 32, 40, 48>>
             a == <<"a2", "a3", "a4", "a5", "a6", "a7">>
         IN  {<<a[i], off[i] \div 8>> : i \in 1 .. 6}

(* Mutant: the registers of the C convention only. *)
ResolveSavesFew(cc) ==
  CASE cc \in {"hhvm", "regcall"} -> {"rax", "rcx", "rdx", "rsi", "rdi", "r8", "r9"}
    [] cc = "aapcsx"  -> {"x0", "x1", "x2", "x3", "x4", "x5", "x6", "x7"}
    [] cc = "lp64"    -> {"a0", "a1", "a2", "a3", "a4", "a5", "a6", "a7"}

(* What fullresolve saves around resolve_func. *)
ResolveSaves(cc) ==
  CASE cc = "hhvm"    -> {"rax", "rcx", "rdx", "rsi", "rdi", "r8", "r9", "r10", "r11"}
    [] cc = "regcall" -> {"rax", "rcx", "rdx", "rsi", "rdi", "r8", "r9"}
    [] cc = "aapcsx"  -> {"x0", "x1", "x2", "x3", "x4", "x5", "x6", "x7"}
    [] cc = "lp64"    -> {"a0", "a1", "a2", "a3", "a4", "a5", "a6", "a7"}

(* The register that carries the patch data of a stub (patch_data_reg). *)
PatchReg(cc) == CASE cc = "hhvm" -> "r14" [] cc = "regcall" -> "r10"
                  [] cc = "aapcsx" -> "x16" [] cc = "lp64" -> "t6"

----------------------------------------------------------------------------

ArgReg(cc, guest, i) == ArgRegs(cc)[Args(cc, guest)[i] + 1]
RetReg(cc, guest, i) == RetRegs(cc)[Rets(cc, guest)[i] + 1]
FieldsOf(cc, guest) == DOMAIN GuestRegs(cc, guest)

(* Within a convention no two fields share a host register, none has the   *)
(* one of the CPU state, and none is where a stub puts its patch data.     *)
RegistersDistinct(cc, guest) ==
  /\ \A i, j \in FieldsOf(cc, guest) :
       ArgReg(cc, guest, i) = ArgReg(cc, guest, j) => i = j
  /\ \A i \in FieldsOf(cc, guest) :
       ArgReg(cc, guest, i) \notin {ArgRegs(cc)[SptrArg(cc) + 1], PatchReg(cc)}

(* A value is returned in the register it is passed in: the loop calls the *)
(* next block with the registers as the last one left them.                *)
ReturnsInPlace(cc, guest) ==
  \A i \in FieldsOf(cc, guest) : ArgReg(cc, guest, i) = RetReg(cc, guest, i)

(* The resolver keeps every argument of the block it was called for. *)
ResolverKeepsArgs(cc, guest) ==
  \A i \in FieldsOf(cc, guest) :
    ArgReg(cc, guest, i) \in CallerSaved(cc) => ArgReg(cc, guest, i) \in ResolveSaves(cc)

(* The guest registers that the first block of a thread gets, when the CPU *)
(* state is regs.                                                          *)
FirstArgs(cc, guest, regs) ==
  [i \in FieldsOf(cc, guest) |->
     LET l == CHOOSE l \in LoopLoads(cc, guest) : l[1] = ArgReg(cc, guest, i)
     IN  regs[l[2]]]
LoadsFields(cc, guest, regs) ==
  FirstArgs(cc, guest, regs) = [i \in FieldsOf(cc, guest) |-> regs[GuestRegs(cc, guest)[i]]]
==============================================================================
