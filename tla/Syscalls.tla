------------------------------ MODULE Syscalls -------------------------------
(***************************************************************************)
(* System calls of the guest (client/emulate.c): emulate_syscall for       *)
(* x86-64, emulate_rv64_syscall and emulate_aarch64_syscall, which share   *)
(* emulate_syscall_generic, and the host's clone (handle_clone, __clone of *)
(* client/minilibc.c).  A call is the name of a Linux system call and its  *)
(* six arguments; that the numbers in the code belong to the names is not  *)
(* part of the model.  rt_sig* and sigaltstack are in module Signals.      *)
(***************************************************************************)
EXTENDS Integers, Sequences, FiniteSetsExt

CONSTANTS
  Arches,     \* guests and hosts: "x86_64", "aarch64", "riscv64"
  Calls,      \* what a guest may call: <<name, arguments>>
  CloneStructs, \* what a struct clone_args of the guest may hold; an address is an index
  Unknown,    \* numbers of calls that are not handled
  Others,     \* the guest's threads besides 0, whose CPU state is modelled
  MaxWarned   \* bound: calls of these numbers

ASSUME NumbersAssumption == Unknown \subseteq Nat

VARIABLES
  guestArch, hostArch,  \* the architectures
  call,         \* the call that the guest makes
  slots,         \* the slots of the CPU state with number and arguments
  made,         \* what the host's kernel was asked for, <<>> if nothing
  res,          \* the result
  files,          \* open file descriptors of the guest
  warnmap,      \* pairs <<word, bit>>
  asked,        \* per thread: the number that it goes on to mark and print, or None
  word,         \* per thread: the word of warnmap that it tested
  warned,       \* per number: how often it was printed
  silent,       \* history: the numbers that were not printed when they were tried
  raced,        \* history: the words that two threads had tested and not yet marked
  tried         \* calls of unknown numbers

warnVars == <<warnmap, asked, word, warned, silent, raced>>
sysVars == <<guestArch, hostArch, call, slots, made, res, files, warnVars, tried>>

AT_FDCWD == -100
AT_REMOVEDIR == 512
AT_SYMLINK_NOFOLLOW == 256
E2BIG == -7
EBADF == -9
EINVAL == -22
ENOSYS == -38

(* Words of flags as sets of bits. *)
Bits(w) == {b \in 0 .. 25 : (w \div 2^b) % 2 = 1}
Flags(bits) == MapThenSumSet(LAMBDA b : 2^b, bits)

CLONE_VM == 8
CLONE_FS == 9
CLONE_FILES == 10
CLONE_SIGHAND == 11
CLONE_PIDFD == 12
CLONE_VFORK == 14
CLONE_THREAD == 16
CLONE_SYSVSEM == 18
CLONE_SETTLS == 19
CLONE_PARENT_SETTID == 20
CLONE_CHILD_CLEARTID == 21
CLONE_DETACHED == 22
CLONE_CHILD_SETTID == 24
CSIGNAL == 0 .. 7

----------------------------------------------------------------------------
(* Arguments *)

(* arg0 .. arg5 are the slots of the CPU state. *)
ArgSlots(g) ==
  CASE g = "x86_64" -> <<8, 7, 3, 11, 9, 10>> [] g = "riscv64" -> <<11, 12, 13, 14, 15, 16>>
    [] g = "aarch64" -> <<2, 3, 4, 5, 6, 7>>

(* Where the result goes. *)
ResSlot(g) == CASE g = "x86_64" -> 1 [] g = "riscv64" -> 11 [] g = "aarch64" -> 2

(* Bit b of w becomes bit m[b], others stay. *)
Permuted(w, m) == Flags({IF b \in DOMAIN m THEN m[b] ELSE b : b \in Bits(w)})

Arm64ToGeneric == [b \in 14 .. 17 |-> CASE b = 14 -> 16 [] b = 15 -> 17 [] b = 16 -> 14 [] b = 17 -> 15]
GenericToArm64 == [b \in 14 .. 17 |-> CASE b = 14 -> 16 [] b = 15 -> 17 [] b = 16 -> 14 [] b = 17 -> 15]

(* emulate_aarch64_syscall, "some swapped flags" *)
GuestFlags(g, w) == IF g = "aarch64" THEN Permuted(w, Arm64ToGeneric) ELSE w

(* emulate_openat_flags *)
emulate_openat_flags(w) == IF hostArch = "aarch64" THEN Permuted(w, GenericToArm64) ELSE w

----------------------------------------------------------------------------
(* clone *)

NoClone ==
  [flags |-> {}, pidfd |-> 0, ctid |-> 0, ptid |-> 0, exit |-> {}, stack |-> 0, size |-> 0, tls |-> 0]

(* Mutant: the order of x86-64 for all guests. *)
CloneArgsX86(g, a) ==
  [NoClone EXCEPT !.flags = Bits(a[1]) \ CSIGNAL, !.exit = Bits(a[1]) \cap CSIGNAL,
     !.stack = a[2], !.ptid = a[3], !.ctid = a[4], !.tls = a[5]]

(* struct clone_args from the registers. *)
CloneArgs(g, a) ==
  LET args == [NoClone EXCEPT !.flags = Bits(a[1]) \ CSIGNAL, !.exit = Bits(a[1]) \cap CSIGNAL,
                 !.stack = a[2], !.ptid = a[3],
                 !.ctid = IF g = "x86_64" THEN a[4] ELSE a[5],
                 !.tls = IF g = "x86_64" THEN a[5] ELSE a[4]]
  IN  IF CLONE_PIDFD \in args.flags THEN [args EXCEPT !.pidfd = args.ptid, !.ptid = 0] ELSE args

(* The arguments of the host's clone: the system call of the fork, and the *)
(* registers that __clone moves.                                           *)
HostClone(flags, stack, ptid, tls, ctid) ==
  <<"clone", IF hostArch = "x86_64" THEN <<Flags(flags), stack, ptid, ctid, tls, 0>>
             ELSE <<Flags(flags), stack, ptid, tls, ctid, 0>>>>

ThreadFlags == {CLONE_VM, CLONE_THREAD, CLONE_SIGHAND, CLONE_FS, CLONE_FILES, CLONE_SYSVSEM, CLONE_SETTLS}
TidFlags == {CLONE_PARENT_SETTID, CLONE_CHILD_CLEARTID, CLONE_CHILD_SETTID}
HostStack == 901
ChildCpuState == 902

(* handle_clone, as far as the kernel is asked; the rest of it is in       *)
(* modules Translator and Start.                                           *)
handle_clone(args) ==
  IF CLONE_VM \in args.flags
  THEN HostClone(ThreadFlags \union (args.flags \cap TidFlags), HostStack, args.ptid, ChildCpuState, args.ctid)
  ELSE IF \/ args.flags \ {CLONE_CHILD_CLEARTID, CLONE_CHILD_SETTID} # {}
          \/ args.stack # 0 \/ args.size # 0 \/ args.exit \ CSIGNAL # {} THEN <<>>
  ELSE HostClone(args.flags \union args.exit, 0, args.ptid, args.tls, args.ctid)

CloneCall(g, a) ==
  IF {CLONE_PIDFD, CLONE_PARENT_SETTID} \subseteq Bits(a[1]) THEN <<>> ELSE handle_clone(CloneArgs(g, a))

(* sizeof(struct clone_args), and where its members are. *)
CloneArgsSize == 88
CloneOffset ==
  [flags |-> 0, pidfd |-> 8, ctid |-> 16, ptid |-> 24, exit |-> 32, stack |-> 40, size |-> 48, tls |-> 56]

(* clone3: as many bytes of the guest's structure as it says. *)
Clone3Call(a) ==
  IF a[2] > CloneArgsSize THEN <<>>
  ELSE handle_clone([m \in DOMAIN NoClone |->
         IF CloneOffset[m] < a[2] THEN CloneStructs[a[1]][m] ELSE NoClone[m]])

----------------------------------------------------------------------------
(* The tables *)

(* "too old to work on newer platforms, but have replacements" *)
Legacy(n, a) ==
  CASE n = "open"     -> <<"openat", <<AT_FDCWD, a[1], emulate_openat_flags(a[2]), a[3], a[5], a[6]>>>>
    [] n = "access"   -> <<"faccessat", <<AT_FDCWD, a[1], a[2], 0, 0, 0>>>>
    [] n = "pipe"     -> <<"pipe2", <<a[1], 0, 0, 0, 0, 0>>>>
    [] n = "rename"   -> <<"renameat", <<AT_FDCWD, a[1], AT_FDCWD, a[2], 0, 0>>>>
    [] n = "mkdir"    -> <<"mkdirat", <<AT_FDCWD, a[1], a[2], 0, 0, 0>>>>
    [] n = "rmdir"    -> <<"unlinkat", <<AT_FDCWD, a[1], AT_REMOVEDIR, 0, 0, 0>>>>
    [] n = "unlink"   -> <<"unlinkat", <<AT_FDCWD, a[1], 0, 0, 0, 0>>>>
    [] n = "readlink" -> <<"readlinkat", <<AT_FDCWD, a[1], a[2], a[3], 0, 0>>>>
    [] n = "chmod"    -> <<"fchmodat", <<AT_FDCWD, a[1], a[2], 0, 0, 0>>>>
    [] n = "chown"    -> <<"fchownat", <<AT_FDCWD, a[1], a[2], a[3], 0, 0>>>>
    [] n = "lchown"   -> <<"fchownat", <<AT_FDCWD, a[1], a[2], a[3], AT_SYMLINK_NOFOLLOW, 0>>>>
    [] n = "getpgrp"  -> <<"getpgid", <<0, 0, 0, 0, 0, 0>>>>
    [] n = "stat"     -> <<"newfstatat", <<AT_FDCWD, a[1], a[2], 0, 0, 0>>>>
    [] n = "lstat"    -> <<"newfstatat", <<AT_FDCWD, a[1], a[2], AT_SYMLINK_NOFOLLOW, 0, 0>>>>
    [] n = "poll"     -> <<"ppoll", <<a[1], a[2], IF a[3] >= 0 THEN a[3] ELSE -1, 0, 8, 0>>>>
    [] n = "pause"    -> <<"ppoll", <<0, 0, -1, 0, 0, 0>>>>
    [] n = "dup2" /\ a[1] = a[2] -> <<"fcntl", <<a[1], 3, 0, 0, 0, 0>>>>
    [] n = "dup2" /\ a[1] # a[2] -> <<"dup3", <<a[1], a[2], 0, 0, 0, 0>>>>

LegacyNames == {"open", "access", "pipe", "rename", "mkdir", "rmdir", "unlink", "readlink", "chmod",
                "chown", "lchown", "getpgrp", "stat", "lstat", "poll", "pause", "dup2"}

(* stat structures go over a buffer of the client and are copied field by  *)
(* field.                                                                  *)
StatCall(n, a) ==
  IF n = "fstat" THEN <<"fstat", <<a[1], a[2], 0, 0, 0, 0>>>>
  ELSE <<"newfstatat", <<a[1], a[2], a[3], a[4], 0, 0>>>>

(* F_DUPFD .. F_SETOWN and F_DUPFD_CLOEXEC, looked for in the descriptor. *)
FcntlHandled == (0 .. 8) \union {1030}

(* "aren't implemented, but ok to ignore" *)
Ignored == {"sched_setaffinity", "sched_getaffinity", "rseq"}

(* Everything else goes to the host as it is; <<>> if nothing does. *)
HostCall(g, n, a) ==
  CASE n = "clone"  -> CloneCall(g, a)
    [] n = "clone3" -> Clone3Call(a)
    [] n \in Ignored \union {"prctl", "arch_prctl"} -> <<>>
    [] n = "openat" -> <<"openat", [a EXCEPT ![3] = emulate_openat_flags(GuestFlags(g, a[3]))]>>
    [] n \in {"fstat", "newfstatat"} -> StatCall(n, a)
    [] n \in LegacyNames -> Legacy(n, a)
    [] n = "fcntl" /\ a[1] \notin FcntlHandled -> <<>>
    [] OTHER -> <<n, a>>

----------------------------------------------------------------------------
(* The kernel (external) *)

(* Result and file descriptors after a call. *)
Kernel(c) ==
  CASE c[1] \in {"dup3", "dup2"} ->
         IF c[1] = "dup3" /\ c[2][1] = c[2][2] THEN <<EINVAL, files>>
         ELSE IF c[2][1] \notin files THEN <<EBADF, files>>
         ELSE <<c[2][2], files \union {c[2][2]}>>
    [] c[1] \in {"fcntl", "close"} ->
         IF c[2][1] \notin files THEN <<EBADF, files>>
         ELSE <<0, IF c[1] = "close" THEN files \ {c[2][1]} ELSE files>>
    [] OTHER -> <<0, files>>

----------------------------------------------------------------------------
(* unhandled_syscall *)

(* 1 << nr % 64 is a 32-bit shift, of which the hosts' instructions use    *)
(* the low 5 bits; its sign goes up to bit 63.                             *)
WarnBits(nr) ==
  LET b == (nr % 64) % 32
  IN  {<<nr \div 64, i>> : i \in IF b = 31 THEN 31 .. 63 ELSE {b}}

None == -1
Threads == Others \union {0}
WordOf(nr) == {b \in warnmap : b[1] = nr \div 64}

(* A thread goes on only if no bit of the number is set; nothing locks the *)
(* map.                                                                    *)
WarnTest(t, nr) ==
  /\ asked[t] = None
  /\ IF nr < 1024 /\ WarnBits(nr) \cap warnmap # {}
     THEN silent' = silent \union {nr} /\ UNCHANGED <<asked, word, raced>>
     ELSE /\ asked' = [asked EXCEPT ![t] = nr] /\ word' = [word EXCEPT ![t] = WordOf(nr)]
          /\ raced' = raced \union {w \in {nr \div 64} : \E u \in Threads \ {t} :
                                      asked[u] # None /\ asked[u] \div 64 = w}
          /\ UNCHANGED silent
  /\ UNCHANGED <<warnmap, warned>>

(* Another read of the word, for the mark; the compiler may also keep the  *)
(* first one.                                                              *)
WarnLoad(t) ==
  /\ asked[t] # None
  /\ word' = [word EXCEPT ![t] = WordOf(asked[t])]
  /\ UNCHANGED <<guestArch, hostArch, call, slots, made, res, files>>
  /\ UNCHANGED <<warnmap, asked, warned, silent, raced, tried>>

(* Mutant: the map is only read. *)
MarkedNot(t) == warnmap

(* The map after the word of a thread is written, with the number's bits. *)
Marked(t) ==
  IF asked[t] < 1024
  THEN (warnmap \ WordOf(asked[t])) \union word[t] \union WarnBits(asked[t]) ELSE warnmap

WarnPrint(t) ==
  /\ asked[t] # None
  /\ warnmap' = Marked(t) /\ warned' = [warned EXCEPT ![asked[t]] = @ + 1]
  /\ asked' = [asked EXCEPT ![t] = None] /\ word' = [word EXCEPT ![t] = {}]
  /\ UNCHANGED <<guestArch, hostArch, call, slots, made, res, files, silent, raced, tried>>

FcntlNr(g) == IF g = "x86_64" THEN 72 ELSE 25

----------------------------------------------------------------------------

Numbers == Unknown \union {FcntlNr(g) : g \in Arches}

NoCall == <<"none", <<0, 0, 0, 0, 0, 0>>>>

SysInit ==
  /\ guestArch \in Arches /\ hostArch \in Arches
  /\ call = NoCall
  /\ slots = [s \in 1 .. 19 |-> 0]
  /\ made = <<>> /\ res = 0
  /\ files = {0, 1}
  /\ warnmap = {} /\ asked = [t \in Threads |-> None] /\ word = [t \in Threads |-> {}]
  /\ warned = [nr \in Numbers |-> 0] /\ silent = {} /\ raced = {} /\ tried = 0

(* Calls that every guest has; x86-64 also has the old ones, and those     *)
(* that only emulate_syscall handles.                                      *)
GuestHas(n) == n \in LegacyNames \union {"clone3", "prctl", "arch_prctl"} => guestArch = "x86_64"

(* The registers of the system call ABI (external): slot 1 + encoding of   *)
(* rdi, rsi, rdx, r10, r8, r9 and of a0 .. a5, 2 + number of x0 .. x5.     *)
AbiSlots(g) ==
  CASE g = "x86_64" -> [i \in 1 .. 6 |-> 1 + <<7, 6, 2, 10, 8, 9>>[i]]
    [] g = "riscv64" -> [i \in 1 .. 6 |-> 1 + 9 + i] [] g = "aarch64" -> [i \in 1 .. 6 |-> 2 + i - 1]

GuestCalls(c) ==
  /\ call = NoCall /\ asked[0] = None /\ GuestHas(c[1])
  /\ call' = c
  /\ slots' = [s \in 1 .. 19 |->
                IF \E i \in 1 .. 6 : AbiSlots(guestArch)[i] = s
                THEN c[2][CHOOSE i \in 1 .. 6 : AbiSlots(guestArch)[i] = s] ELSE 0]
  /\ made' = <<>> /\ res' = 0
  /\ UNCHANGED <<guestArch, hostArch, files, warnVars, tried>>

ARCH_SET_GS == 4097
ARCH_SET_FS == 4098

(* The slot that arch_prctl sets: GS_BASE, FS_BASE; 0 for other codes. *)
BaseSlot(code) == CASE code = ARCH_SET_GS -> 19 [] code = ARCH_SET_FS -> 18 [] OTHER -> 0

(* The result of a call that the kernel is not asked for. *)
OwnResult(n, a) ==
  CASE n \in Ignored \union {"fcntl"} -> ENOSYS
    [] n = "arch_prctl" /\ BaseSlot(a[1]) # 0 -> 0
    [] n = "clone3" /\ a[2] > CloneArgsSize -> E2BIG
    [] OTHER -> EINVAL

emulate_syscall ==
  /\ call # NoCall /\ made = <<>>
  /\ LET a == [i \in 1 .. 6 |-> slots[ArgSlots(guestArch)[i]]]
         n == call[1]
         c == HostCall(guestArch, n, a)
         k == IF c = <<>> THEN <<OwnResult(n, a), files>> ELSE Kernel(c)
         based == IF n = "arch_prctl" /\ BaseSlot(a[1]) # 0
                  THEN [slots EXCEPT ![BaseSlot(a[1])] = a[2]] ELSE slots
     IN  /\ made' = IF c = <<>> THEN NoCall ELSE c
         /\ res' = IF n = "dup2" /\ a[1] = a[2] /\ k[1] >= 0 THEN a[2] ELSE k[1]
         /\ files' = k[2]
         /\ slots' = [based EXCEPT ![ResSlot(guestArch)] = res']
         /\ IF n = "fcntl" /\ c = <<>> THEN WarnTest(0, FcntlNr(guestArch)) ELSE UNCHANGED warnVars
  /\ UNCHANGED <<guestArch, hostArch, call, tried>>

(* A number that is in no table. *)
unhandled_syscall(t, nr) ==
  /\ (t = 0 => call = NoCall) /\ tried < MaxWarned /\ tried' = tried + 1
  /\ slots' = IF t = 0 THEN [slots EXCEPT ![ResSlot(guestArch)] = ENOSYS] ELSE slots
  /\ WarnTest(t, nr)
  /\ UNCHANGED <<guestArch, hostArch, call, made, res, files>>

(* The guest goes on, and uses the registers for something else. *)
Resume ==
  /\ call # NoCall /\ made # <<>> /\ asked[0] = None
  /\ call' = NoCall /\ made' = <<>> /\ res' = 0 /\ slots' = [s \in 1 .. 19 |-> 0]
  /\ UNCHANGED <<guestArch, hostArch, files, warnVars, tried>>

SysNext ==
  \/ \E c \in Calls : GuestCalls(c)
  \/ emulate_syscall \/ Resume
  \/ \E t \in Threads : WarnLoad(t) \/ WarnPrint(t) \/ \E nr \in Unknown : unhandled_syscall(t, nr)

SysSpec == SysInit /\ [][SysNext]_sysVars

----------------------------------------------------------------------------
(* What calls mean (external): the effect of a call, in one form for the   *)
(* old and the new calls and for all architectures.                        *)

OpenFlags(arch, w) ==
  {CASE b = 14 -> IF arch = "aarch64" THEN "directory" ELSE "direct"
     [] b = 15 -> IF arch = "aarch64" THEN "nofollow" ELSE "largefile"
     [] b = 16 -> IF arch = "aarch64" THEN "direct" ELSE "directory"
     [] b = 17 -> IF arch = "aarch64" THEN "largefile" ELSE "nofollow"
     [] OTHER -> "other" : b \in Bits(w)}

(* What clone reads from the registers. *)
CloneRead(arch, a) ==
  [NoClone EXCEPT !.flags = Bits(a[1]) \ CSIGNAL, !.exit = Bits(a[1]) \cap CSIGNAL, !.ptid = a[3],
     !.ctid = IF arch = "x86_64" THEN a[4] ELSE a[5]]

(* The thread ids that are written, when and where, the exit signal, what  *)
(* is shared, and all other flags but the guest's own TLS.                 *)
CloneEffect(args) ==
  LET f == args.flags
  IN  <<"clone",
        <<IF CLONE_PARENT_SETTID \in f THEN args.ptid ELSE 0,
          IF CLONE_CHILD_SETTID \in f THEN args.ctid ELSE 0,
          IF CLONE_CHILD_CLEARTID \in f THEN args.ctid ELSE 0,
          IF CLONE_THREAD \in f THEN 0 ELSE Flags(args.exit)>>,
        f \ (TidFlags \union {CLONE_SETTLS, CLONE_DETACHED})>>

(* An int has 8 bits here; the kernel reads one from the low bits of its   *)
(* slot, whatever the others are.                                          *)
IntRange == 256
AsInt(x) == LET low == x % IntRange IN IF low >= IntRange \div 2 THEN low - IntRange ELSE low

(* How many arguments the kernel reads. *)
Arity(n) ==
  CASE n = "getpgid" -> 1 [] n \in {"pipe2", "fstat"} -> 2
    [] n \in {"faccessat", "mkdirat", "unlinkat", "fchmodat"} -> 3
    [] n \in {"renameat", "readlinkat", "newfstatat", "ppoll"} -> 4 [] n = "fchownat" -> 5
    [] OTHER -> 6

(* An old call is a new one that starts at the working directory, takes so *)
(* many arguments, and has flags.                                          *)
Since(n) ==
  CASE n = "access" -> <<"faccessat", 3, <<>>>> [] n = "mkdir" -> <<"mkdirat", 3, <<>>>>
    [] n = "rmdir" -> <<"unlinkat", 2, <<AT_REMOVEDIR>>>> [] n = "unlink" -> <<"unlinkat", 2, <<0>>>>
    [] n = "readlink" -> <<"readlinkat", 4, <<>>>> [] n = "chmod" -> <<"fchmodat", 3, <<>>>>
    [] n = "chown" -> <<"fchownat", 4, <<0>>>>
    [] n = "lchown" -> <<"fchownat", 4, <<AT_SYMLINK_NOFOLLOW>>>>
    [] n = "stat" -> <<"newfstatat", 3, <<0>>>>
    [] n = "lstat" -> <<"newfstatat", 3, <<AT_SYMLINK_NOFOLLOW>>>>

Effect(arch, c) ==
  LET n == c[1]
      a == c[2]
  IN  CASE n = "openat"  -> <<n, <<a[1], a[2], a[4]>>, OpenFlags(arch, a[3])>>
        [] n = "open"    -> <<"openat", <<AT_FDCWD, a[1], a[3]>>, OpenFlags(arch, a[2])>>
        [] n = "clone"   -> CloneEffect(CloneRead(arch, a))
        [] n = "clone3"  -> CloneEffect(CloneStructs[a[1]])
        [] n = "pipe"    -> <<"pipe2", <<a[1], 0>>, {}>>
        [] n = "rename"  -> <<"renameat", <<AT_FDCWD, a[1], AT_FDCWD, a[2]>>, {}>>
        [] n = "getpgrp" -> <<"getpgid", <<0>>, {}>>
        [] n = "poll"    -> <<"ppoll", <<a[1], a[2], IF AsInt(a[3]) < 0 THEN -1 ELSE AsInt(a[3]), 0>>, {}>>
        [] n = "pause"   -> <<"ppoll", <<0, 0, -1, 0>>, {}>>
        [] n \in LegacyNames \ {"open", "pipe", "rename", "getpgrp", "poll", "pause"} ->
             LET s == Since(n) IN <<s[1], SubSeq(<<AT_FDCWD>> \o a, 1, s[2]) \o s[3], {}>>
        [] OTHER -> <<n, SubSeq(a, 1, Arity(n)), {}>>

----------------------------------------------------------------------------

(* The call reached the host's kernel. *)
Passed == call # NoCall /\ made # <<>> /\ made # NoCall

(* The flags of fork, or those of pthread_create: all the code has in mind *)
(* when it makes a thread of what shares memory.                           *)
ForkOrThread(flags) ==
  CLONE_VM \in flags =>
    /\ ThreadFlags \ {CLONE_SETTLS} \subseteq flags
    /\ flags \subseteq ThreadFlags \union TidFlags \union {CLONE_DETACHED}

(* The calls that the code passes on for what they are.  It makes a thread *)
(* also of vfork and of other clones that share memory, takes a clone3     *)
(* that is too short to be valid, and tests all bits of the timeout of     *)
(* poll, so that a negative int is infinite only if it is sign-extended.   *)
Expected(c) ==
  CASE c[1] = "clone"  -> ForkOrThread(Bits(c[2][1]) \ CSIGNAL)
    [] c[1] = "clone3" -> ForkOrThread(CloneStructs[c[2][1]].flags) /\ c[2][2] >= 64
    [] c[1] = "poll"   -> AsInt(c[2][3]) < 0 => c[2][3] < 0
    [] OTHER -> TRUE

(* What the host's kernel does is what the guest's kernel would have done: *)
(* old calls by their replacements, flags of open and arguments of clone   *)
(* between architectures that number and order them differently, or alike, *)
(* clone3 by clone.  dup2 of a descriptor to itself is no dup3: it         *)
(* succeeds if it is open.  The exceptions are those of Expected.          *)
MeansTheSame ==
  Passed /\ Expected(call) =>
    IF call[1] # "dup2" THEN Effect(hostArch, made) = Effect(guestArch, call)
    ELSE /\ slots[ResSlot(guestArch)] = IF call[2][1] \in files THEN call[2][2] ELSE EBADF
         /\ call[2][1] \in files => call[2][2] \in files

(* "warn only once about each syscall": a number below 1024 is not printed *)
(* again, as long as no two threads are between the test and the mark of   *)
(* one word of the map.  A number that is not printed when it is tried     *)
(* shares a bit with one that was printed, itself or another, also when    *)
(* threads race.                                                           *)
WarnsOnce ==
  /\ \A nr \in Numbers : nr < 1024 /\ nr \div 64 \notin raced => warned[nr] <= 1
  /\ \A nr \in silent :
       nr < 1024 /\ \E m \in Numbers : warned[m] > 0 /\ m < 1024 /\ WarnBits(m) \cap WarnBits(nr) # {}
==============================================================================
