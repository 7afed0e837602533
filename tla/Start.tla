-------------------------------- MODULE Start --------------------------------
(***************************************************************************)
(* main of client/main.c: the guest program is loaded, the server is       *)
(* started and says which calling convention it will use, the guest's      *)
(* stack is built, and the dispatcher is entered with the guest registers  *)
(* of the first thread; later, handle_clone of client/emulate.c enters it  *)
(* with those of a new thread.  The messages to the server are those of    *)
(* module Translator, the object table of module Rtld.                     *)
(***************************************************************************)
EXTENDS ElfLoader, FastCC

CONSTANTS
  Argcs,     \* numbers of arguments
  Environs   \* host environments: sequences of variables, "L" = LD_LIBRARY_PATH

VARIABLES
  step,   \* the next step of main
  host,   \* the architecture the client was built for
  cc,     \* the calling convention
  given,  \* the inputs of the stack: argc, environ, sysroot
  stack,  \* the guest's initial stack: the words from the stack pointer up
  regs    \* regdata of the thread that enters the dispatcher

startVars == <<step, host, cc, given, stack, regs>>
allVars == <<vars, startVars>>

guest == main.machine

StartInit ==
  /\ Init
  /\ step = "load" /\ host \in Hosts
  /\ cc = "none" /\ given = <<>> /\ stack = <<>> /\ regs = <<>>

(* load_elf_binary, and what main makes of its result. *)
LoadProgram ==
  /\ step = "load" /\ load_elf_binary
  /\ step' = IF pc' # "done" THEN "load" ELSE IF retval' = "ok" THEN "server" ELSE "exit"
  /\ UNCHANGED <<host, cc, given, stack, regs>>

(* translator_init, translator_config_fetch, dispatch_get.  The server     *)
(* answers with its number of GetFastCC, or of the C convention if -fastcc *)
(* is off.                                                                 *)
Handshake ==
  /\ step = "server"
  /\ \/ \E c \in {GetFastCC(host, guest, old) : old \in BOOLEAN} \union {"cdecl"} :
          /\ cc' = c
          /\ step' = IF GetCallConvClientNumber(c) \in Dispatchers(host) THEN "stack"
                     ELSE "unsupported"
     \/ MayRefuse /\ step' = "exit" /\ UNCHANGED cc
  /\ UNCHANGED <<vars, host, given, stack, regs>>

----------------------------------------------------------------------------
(* The stack *)

LdPaths(env) == {i \in DOMAIN env : env[i][1] = "L"}

(* A variable is a name and a value; LD_LIBRARY_PATH is set at most once. *)
ASSUME StackAssumption ==
  /\ Argcs \subseteq Nat /\ Environs \subseteq Seq(STRING \X STRING)
  /\ \A env \in Environs : \A i, j \in LdPaths(env) : i = j

(* ldpath_env_index: the last LD_LIBRARY_PATH, looked for with a sysroot. *)
LdPathIndex(env, sysroot) ==
  IF sysroot /\ LdPaths(env) # {}
  THEN CHOOSE i \in LdPaths(env) : \A j \in LdPaths(env) : j <= i ELSE 0

(* The variable that is injected: the sysroot's directories, and what the  *)
(* host's variable had.                                                    *)
Injected(env, sysroot) ==
  IF ~sysroot THEN <<>>
  ELSE IF LdPathIndex(env, sysroot) = 0 THEN <<<<"L", "sysroot">>>>
  ELSE <<<<"L", "sysroot", env[LdPathIndex(env, sysroot)][2]>>>>

(* Mutant: the host's own variable is kept. *)
GuestEnvKept(env, sysroot) == env \o Injected(env, sysroot)

GuestEnv(env, sysroot) ==
  LET i == LdPathIndex(env, sysroot)
  IN  (IF i = 0 THEN env ELSE SubSeq(env, 1, i - 1) \o SubSeq(env, i + 1, Len(env)))
        \o Injected(env, sysroot)

Argv(argc) == [i \in 1 .. argc |-> <<"arg", i>>]

(* The auxiliary vector; its null entry has no value word. *)
Auxv ==
  <<<<"SECURE", 0>>, <<"HWCAP2", 0>>, <<"HWCAP", 0>>, <<"PAGESZ", PageSize>>, <<"CLKTCK", 0>>,
    <<"EGID", 0>>, <<"GID", 0>>, <<"EUID", 0>>, <<"UID", 0>>, <<"RANDOM", 0>>,
    <<"PLATFORM", 0>>, <<"PHNUM", Len(main.phdrs)>>, <<"PHENT", 0>>, <<"PHDR", info.phdr>>,
    <<"ENTRY", info.elf_entry>>>>
Words(pairs) ==
  [i \in 1 .. 2 * Len(pairs) |->
     IF i % 2 = 1 THEN <<"AT", pairs[(i + 1) \div 2][1]>> ELSE <<"val", pairs[i \div 2][2]>>]
Null == <<"null">>

(* The words left out at the end of the stack; env_slots counts one less   *)
(* when a variable is replaced.                                            *)
Pad(argc, env, sysroot) ==
  LET extra == IF sysroot /\ LdPathIndex(env, sysroot) = 0 THEN 1 ELSE 0
      replaced == IF LdPathIndex(env, sysroot) # 0 THEN 1 ELSE 0
  IN  (argc + Len(env) + extra - replaced) % 2

InitialStack(argc, env, sysroot) ==
  <<<<"argc", argc>>>> \o Argv(argc) \o <<Null>> \o GuestEnv(env, sysroot) \o <<Null>>
    \o Words(Auxv) \o <<Null>> \o [i \in 1 .. Pad(argc, env, sysroot) |-> <<"pad">>]

BuildStack ==
  /\ step = "stack"
  /\ \/ \E argc \in Argcs, env \in Environs, sysroot \in BOOLEAN :
          /\ given' = [argc |-> argc, env |-> env, sysroot |-> sysroot]
          /\ stack' = InitialStack(argc, env, sysroot)
          /\ step' = "enter"
     \/ MayRefuse /\ step' = "exit" /\ UNCHANGED <<given, stack>>
  /\ UNCHANGED <<vars, host, cc, regs>>

----------------------------------------------------------------------------
(* Threads *)

Zero == [i \in 0 .. 34 |-> 0]
EntryPc == 1
FirstSp == 2
ChildSp == 3
ChildTls == 4

(* Mutant: the x86-64 index for every guest. *)
FirstRegsX86(g) == [Zero EXCEPT ![0] = EntryPc, ![5] = FirstSp]

(* The registers of the first thread. *)
FirstRegs(g) == [Zero EXCEPT ![0] = EntryPc, ![SpReg(g)] = FirstSp]

(* rtld_init, the initial object, the CPU state; then loop_func. *)
EnterGuest ==
  /\ step = "enter"
  /\ \/ step' = "run" /\ regs' = FirstRegs(guest)
     \/ MayRefuse /\ step' = "exit" /\ UNCHANGED regs
  /\ UNCHANGED <<vars, host, cc, given, stack>>

(* The register that a system call returns its result in. *)
ResultReg(g) == CASE g = "x86_64" -> 1 [] g = "aarch64" -> 2 [] g = "riscv" -> 11

(* handle_clone: the child's registers are the parent's, with its own      *)
(* stack pointer, result 0, and on x86-64 FS_BASE.                         *)
ChildRegs(g, parent) ==
  LET own == [parent EXCEPT ![ResultReg(g)] = 0, ![SpReg(g)] = ChildSp]
  IN  IF g = "x86_64" THEN [own EXCEPT ![18] = ChildTls] ELSE own

(* A thread's registers when the guest clones: anything. *)
CloneThread ==
  /\ step = "run"
  /\ regs' = ChildRegs(guest, [i \in 0 .. 34 |-> i + 100])
  /\ step' = "child"
  /\ UNCHANGED <<vars, host, cc, given, stack>>

StartNext == LoadProgram \/ Handshake \/ BuildStack \/ EnterGuest \/ CloneThread

StartSpec == StartInit /\ [][StartNext]_allVars

----------------------------------------------------------------------------
(* How the guest reads its stack (the System V ABI) *)

Nulls(from) == {i \in from .. Len(stack) : stack[i] = Null}
NullAfter(from) == CHOOSE i \in Nulls(from) : \A j \in Nulls(from) : i <= j
ReadArgc == stack[1][2]
ReadArgv == SubSeq(stack, 2, ReadArgc + 1)
EnvStart == ReadArgc + 3
ReadEnv == SubSeq(stack, EnvStart, NullAfter(EnvStart) - 1)
AuxStart == NullAfter(EnvStart) + 1
AuxPairs == {<<stack[i][2], stack[i + 1][2]>> :
               i \in {i \in AuxStart .. NullAfter(AuxStart) - 1 : (i - AuxStart) % 2 = 0}}

(* getenv: the first variable of a name. *)
GetEnv(env, name) ==
  LET is == {i \in DOMAIN env : env[i][1] = name}
  IN  IF is = {} THEN <<>> ELSE env[CHOOSE i \in is : \A j \in is : i <= j]

HasStack == step \in {"enter", "run", "child"}

(* The guest finds on its stack its arguments, the host's environment, and *)
(* its program headers and entry; with a sysroot it finds the sysroot's    *)
(* library path in front of the host's.  The stack pointer is a multiple   *)
(* of 16 (two words), when no variable of the host is replaced.            *)
StackReadable ==
  HasStack =>
    /\ ReadArgc = given.argc /\ ReadArgv = Argv(given.argc) /\ stack[ReadArgc + 2] = Null
    /\ \A v \in {"A", "B"} : GetEnv(ReadEnv, v) = GetEnv(given.env, v)
    /\ LET own == GetEnv(given.env, "L")
       IN  GetEnv(ReadEnv, "L") = IF ~given.sysroot THEN own
                                  ELSE <<"L", "sysroot">> \o (IF own = <<>> THEN own ELSE Tail(own))
    /\ {<<"PHDR", info.phdr>>, <<"ENTRY", info.elf_entry>>} \subseteq AuxPairs
    /\ ~(given.sysroot /\ LdPaths(given.env) # {}) => Len(stack) % 2 = 0

(* The server never asks for a dispatcher that the client does not have.   *)
(* The first block of the program gets its pc and stack pointer, and 0 in  *)
(* every other register, from what the dispatcher loads; the first block   *)
(* of a thread gets what handle_clone left, for x86-64 guests and on       *)
(* RISC-V hosts.                                                           *)
RegistersArrive ==
  /\ step # "unsupported"
  /\ step = "run" => LoadsFields(cc, guest, regs)
  /\ step = "child" /\ (guest = "x86_64" \/ cc = "lp64") => LoadsFields(cc, guest, regs)

(* Between blocks the fields of the convention stay where they are. *)
RegistersKept ==
  step = "run" /\ cc # "cdecl" =>
    RegistersDistinct(cc, guest) /\ ReturnsInPlace(cc, guest) /\ ResolverKeepsArgs(cc, guest)
==============================================================================
