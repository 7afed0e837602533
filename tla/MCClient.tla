------------------------------ MODULE MCClient -------------------------------
(* Instances of Start, Syscalls and LoopDetect: a client that starts a       *)
(* program, one that serves the system calls of a program that runs, or one  *)
(* that traces its blocks.                                                   *)
EXTENDS Start, Syscalls, LoopDetect

VARIABLE part   \* "start", "serve" or "trace"

clientVars == <<part, allVars, sysVars, loopVars>>

(* Programs, interpreters and environments: pages of 4 bytes, two segments  *)
(* that begin and end inside and at the border of a page, with and without  *)
(* a cleared part, at fixed and at chosen addresses.                        *)
OwnPage == 36 .. 39

Seg(v, off, fsz, msz, w) ==
  [type |-> "load", vaddr |-> v, off |-> off, filesz |-> fsz, memsz |-> msz, w |-> w]
InterpHdr == [type |-> "interp", vaddr |-> 0, off |-> 0, filesz |-> 2, memsz |-> 2, w |-> FALSE]

File(id, type, m, phdrs) ==
  [id |-> id, size |-> 15, type |-> type, machine |-> m, ehok |-> TRUE, phok |-> TRUE,
   phentok |-> TRUE, nameok |-> TRUE, phdrs |-> phdrs, entry |-> 2, phoff |-> 1]

Seconds ==
  {Seg(v, v, fsz, fsz + more, w) :
     v \in {8, 10}, fsz \in {0, 2, 5}, more \in {0, 1, 4}, w \in BOOLEAN}
Layouts ==
  {<<Seg(1, 1, 5, 5, FALSE), s>> : s \in Seconds} \union
  {<<Seg(0, 0, 4, 6, FALSE)>>, <<Seg(4, 0, 6, 6, FALSE), Seg(10, 6, 3, 4, TRUE)>>,
   <<Seg(4, 2, 3, 3, FALSE)>>, <<>>}

Plain == {File(1, t, "x86_64", l) : t \in {"EXEC", "DYN"}, l \in Layouts}
Dynamic ==
  {File(1, t, m, <<InterpHdr, Seg(0, 0, 5, 5, FALSE), Seg(6, 6, 2, 3, TRUE)>>) :
     t \in {"EXEC", "DYN"}, m \in Guests}
Broken ==
  LET f == File(1, "EXEC", "x86_64", <<InterpHdr, Seg(0, 0, 4, 4, FALSE)>>)
  IN  {[f EXCEPT !.ehok = FALSE], [f EXCEPT !.phok = FALSE], [f EXCEPT !.phentok = FALSE],
       [f EXCEPT !.nameok = FALSE]}
Interp(m) == File(2, "DYN", m, <<Seg(0, 0, 3, 3, FALSE), Seg(4, 4, 2, 3, TRUE)>>)
Interps(m) ==
  {Interp(m), [Interp(m) EXCEPT !.machine = IF m = "riscv" THEN "x86_64" ELSE "riscv"],
   [Interp(m) EXCEPT !.ehok = FALSE], [Interp(m) EXCEPT !.phentok = FALSE],
   File(2, "EXEC", m, <<Seg(12, 0, 3, 3, FALSE), Seg(16, 4, 2, 3, TRUE)>>)}

SmallPrograms ==
  ((Plain \union Broken) \X {Interp("x86_64")})
    \union UNION {{<<f, i>> : i \in Interps(f.machine)} : f \in Dynamic}

SmallEnvirons ==
  {<<>>, <<<<"A", "a">>>>, <<<<"L", "h">>>>, <<<<"A", "a">>, <<"L", "h">>, <<"B", "b">>>>}
Arguments == <<11, 12, 13, 14, 15, 16>>
OpenWords == {Flags(bits \union {6}) : bits \in SUBSET (14 .. 17)}
SIGCHLD == {0, 4}

(* fork, pthread_create of two C libraries, vfork, and flags that do not   *)
(* go together.                                                            *)
CloneFlags ==
  {{}, {CLONE_CHILD_CLEARTID, CLONE_CHILD_SETTID}, {CLONE_PIDFD}, {CLONE_VM, CLONE_VFORK},
   ThreadFlags \union {CLONE_PARENT_SETTID, CLONE_CHILD_CLEARTID, CLONE_DETACHED},
   ThreadFlags \union {CLONE_CHILD_SETTID}, ThreadFlags \union {CLONE_PIDFD, CLONE_PARENT_SETTID}}
CloneWords == {Flags(f \union SIGCHLD) : f \in CloneFlags}

Struct(f, e, base, size) ==
  [flags |-> f, pidfd |-> 21, ctid |-> 22, ptid |-> 23, exit |-> e, stack |-> base, size |-> size, tls |-> 24]
SmallStructs ==
  <<Struct({CLONE_CHILD_CLEARTID, CLONE_CHILD_SETTID}, SIGCHLD, 0, 0), Struct({}, {9}, 0, 0),
    Struct({}, SIGCHLD, 0, 26), Struct({CLONE_VM, CLONE_VFORK}, SIGCHLD, 25, 26),
    Struct(ThreadFlags \union {CLONE_PARENT_SETTID, CLONE_CHILD_CLEARTID}, {}, 25, 26)>>

SmallCalls ==
  {<<n, Arguments>> : n \in (LegacyNames \ {"poll", "dup2", "open"})
                              \union {"read", "ioctl", "fstat", "newfstatat", "prctl", "rseq"}}
  \union {<<"arch_prctl", [Arguments EXCEPT ![1] = code]>> : code \in {11, ARCH_SET_GS, ARCH_SET_FS}}
  \union {<<"open", [Arguments EXCEPT ![2] = w]>> : w \in OpenWords}
  \union {<<"openat", [Arguments EXCEPT ![3] = w]>> : w \in OpenWords}
  \union {<<"clone", [Arguments EXCEPT ![1] = f, ![2] = s]>> : f \in CloneWords, s \in {0, 12}}
  \union {<<"clone3", [Arguments EXCEPT ![1] = p, ![2] = n]>> :
            p \in 1 .. Len(SmallStructs), n \in {32, 64, 88, 96}}
  \union {<<"poll", [Arguments EXCEPT ![3] = ms]>> : ms \in {-1, IntRange - 1, 0, 5}}
  \union {<<n, [Arguments EXCEPT ![1] = x, ![2] = y]>> :
            n \in {"dup2", "dup3", "fcntl"}, x \in {0, 1, 9}, y \in {1, 9}}
  \union {<<"close", [Arguments EXCEPT ![1] = 1]>>}

(* 479 and 511 share the bits from the sign on, and 1100 has none. *)
UnknownNumbers == {479, 511, 1100}

Idle ==
  /\ SysInit /\ guestArch = "x86_64" /\ hostArch = "x86_64"
NotStarted ==
  /\ StartInit /\ host = "x86_64" /\ <<main, interp>> = CHOOSE p \in Programs : TRUE

ClientInit ==
  /\ LoopInit
  /\ \/ part = "start" /\ StartInit /\ Idle
     \/ part = "serve" /\ SysInit /\ NotStarted
     \/ part = "trace" /\ NotStarted /\ Idle

ClientNext ==
  \/ part = "start" /\ StartNext /\ UNCHANGED <<part, sysVars, loopVars>>
  \/ part = "serve" /\ SysNext /\ UNCHANGED <<part, allVars, loopVars>>
  \/ part = "trace" /\ LoopNext /\ UNCHANGED <<part, allVars, sysVars>>

ClientSpec == ClientInit /\ [][ClientNext]_clientVars
==============================================================================
