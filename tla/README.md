# Instrew in TLA+

Instrew runs a guest program by translating its machine code block by block.
Two processes cooperate: the **client** holds the guest's address space, the
code cache and the dispatch loop and emulates system calls; the **server**
lifts guest code to LLVM, optimises and compiles it and sends object code
back. They talk over a Unix stream socket. Every guest thread has its own
`CpuState` (registers, quick TLB) and its own `State` (object table, signal
actions, translator socket with a forked server of its own); all threads of a
client process share the two memory arenas, the loop detector's counters, the
map of unknown system calls and the host's signal actions.

This directory models the parts of that program whose correctness depends on
the order of steps, with TLC runs on small instances and TLAPS proofs.

## Inventory

| part | source | state | operations | what is hard | module |
|---|---|---|---|---|---|
| arena allocator | client/memory.c | `brk`, `brkp`, `mprotect_lock` | `arena_alloc`, `arena_ensure_backed` | lock-free claims, a lock across fork, failing mprotect | Arena |
| object table | client/rtld.c | hash table of translated addresses | `rtld_set`, `rtld_resolve` | insertion that a reader may overlap, as its comment demands; wrap-around | Rtld |
| run-time linker | client/rtld.c | call sites, stubs, PLT | `rtld_add_object`, relocation, `rtld_patch` | what is linked depends on history; field limits | Dispatch (links), Reloc (instructions) |
| dispatch | client/dispatch.c | quick TLB, host frames, loop detector | `resolve_func`, loops and tail dispatchers of five calling conventions | stale caches, entries that differ | Dispatch, FastCC (registers), LoopDetect |
| translator connection | client/translator.c, server/connection.cc | sockets, last header, page cache | init, translate, memory request, fork, thread start | two threads on a socket, end of file, failure half way | Translator |
| translation cache | server/cache.cc | files named by hash, locks | `Get`, `Put` | servers of many programs, crash while writing | Cache |
| signals | client/emulate.c | guest mask and actions, pending signal, host mask | handler, `signal_handle`, `sigprocmask`, `sigaction`, `sigsuspend`, abort | the handler runs between any two steps | Signals |
| threads and fork | client/emulate.c | thread states, forked translators | `handle_clone` | many steps, each may fail | Translator, Arena, Signals, Start, Syscalls |
| system calls | client/emulate.c | descriptors, warning map of all threads | conversion and replacement of calls | numberings and orders of three architectures; test and mark of the map are apart | Syscalls |
| program start | client/main.c, elf-loader.c | mapped segments, initial stack and registers | `load_elf_binary`, stack set-up | partial pages, cleared parts, error paths, counts and alignment | ElfLoader, Start |
| calling conventions | server/callconv.cc | register fields of the lifted function | `ChangeCallConv` | which register is stored when; tables in two programs | CallConv, FastCC, Dispatch (names of call targets) |
| lifting, optimisation, code generation | server/*.cc, Rellume, LLVM | IR | fixed pipelines | external | not modelled |

## Modules

**Arena** models one process's arena with a program counter per thread over
the atomic accesses of `arena_alloc` (`Call`, `LoadBrk`, `CasSucceeds`,
`CasFails`) and `arena_ensure_backed` (`FastCheck`, `Lock`, `Recheck`,
`Mprotect`, `PublishBrkp`, `Unlock`). `backed` is the kernel's view of the
pages, `refused` the pages whose mprotect failed, `allocs` a history of claims.
`Fork` goes on as the child: the other threads are "gone" and memory, the lock
word included, is as it was.
**Allocator** is the abstract promise: each claim is a fresh, aligned region
above all earlier ones.

**Rtld** models `rtld_set` and `rtld_resolve` with one step per access to a
slot, one writer and several readers. The comment of `rtld_set` demands that
readers may overlap the writer; in the client as it is each thread has a table
of its own, so that the readers are more than the code has, and the sequential
use by one thread is a special case.
**AddrMap** is the partial map with calls that take effect at one moment
between call and return; `ImplementsMap` is the refinement.

**Dispatch** models one guest thread between blocks. `table` is the map Rtld
implements, `links` the constant call sites of each block (0 is a stub), `tlb`
the quick TLB, `frames` the host frames that `-callret` code nests. The
actions are the loop (`LoopHit`, `LoopMiss`), the tail dispatcher
(`QuickEntry`, `QuickHit`, `QuickMiss`), the stub (`StubMiss`) and `Unwind`;
translated code is external and may return, dispatch to any address or use one
of its constant call sites. `Resolved` is the whole of `resolve_func` with
`rtld_add_object` and `rtld_patch`, and with tracing of the loop detector,
which may stop the client ("stopped") at any block that was printed before
(`printed`): LoopDetect has the counting. `Lp64` selects the RISC-V dispatcher,
which passes state through the sret slot in memory. `Contract` says that the
symbol of an object denotes the requested address, which is what
`rtld_add_object` reads from it; without it the model uses the names that
`Translate` gives.

**Translator** models the messages between guest threads and servers, with
`handle_clone` for threads and for processes: `AskFork`, `TakeFd`, `SendInit`,
`TakeConfig`, `TakeInitObject`, `CloneThread`; `CloneProcess`, `ParentCloses`,
`Finalize`. Sockets have holders (the processes with the client end open), so
that end of file is what it is on the host. A page of guest memory is a
version number; an object records the versions it was made from. A message is
one item of a stream, since either side reads header and body to the end.

**Cache** models names, inodes, open files and record locks as the kernel has
them, and one step per system call of `Get` and `Put`. `failed` is the history
of the keys for which the look under the lock, a write or the rename of `Put`
has failed: `Put` takes any failing open for the absence of the finished file.

**Signals** models the host's pending signals and masks, the noted signal, the
guest's masks and actions. `Deliver` is the kernel's delivery with the whole of
`signal_handler`; it may come between any two steps of `Sigprocmask`,
`Sigaction`, `Clone`, `signal_handle` (`End`, `Clear`, `Act`) and
`abort_with_signal` (`AbortAction`, `AbortKill`, then the delivery in
`sigsuspend`). `late` is the history of a signal that was noted after
`sigprocmask` looked for one and before it updates the host's mask; `Blocked`
is the mask in force, also during a wait. SIGSEGV stands for SIGBUS as well.
`emulate.c` calls its signal code "a very simple and INCORRECT implementation
of signals"; the findings and deviations below say in which ways.

**CallConv** runs a lifted function before and after `ChangeCallConv` in lock
step. A function is a control-flow graph over the instructions that the pass
tells apart: loads and stores of the CPU state, helpers that get its address,
calls, tail calls and returns. `FoldLoads`, `FoldStores`, the PHI nodes and the
stores around escapes are operators that compute the new function; the queue of
PHI nodes is the least set of blocks that its loop is closed under
(`PhiBlocks`). The actions (`Load`, `Store`, `Helper`, `Call`, `Branch`,
`Leave`) execute both.

**FastCC** holds the register tables of `callconv.cc` and what the dispatchers
of `dispatch.c` load, save and pass on, for each guest and host. Start uses it.

**Reloc** models what `rtld_reloc_at`, `rtld_patch_create_stub` and
`plt_create` do to the bits of an instruction, for a first relocation and for
the patches that follow it. An instruction is the set of its one bits. The
decoding (`RefersTo`) is written from the instruction sets and marked external;
the properties compare the two.

**ElfLoader** models `load_elf_binary` with one step per call of the kernel and
per segment, over a byte-wise memory that the client, temporary maps, program
and interpreter share; every call may be refused. **Start** adds the rest of
`main`: the handshake, the stack as a sequence of words, and the registers of
the first thread and of one that `handle_clone` makes.

**Syscalls** models the path of a call from the guest's argument slots to the
host's kernel and back, for all pairs of architectures. `clone3` takes its
arguments from a struct in memory (`CloneStructs`), of the size the guest says.
What a kernel does with a call (`Effect`) is external; `MeansTheSame` compares
what the host's kernel does with what the guest's would have done.
`unhandled_syscall` is run by several threads on one map, with a step for the
test of a word (`WarnTest`), the load (`WarnLoad`) and the print and store
(`WarnPrint`); `raced` is the history of words that two threads had in hand at
once, `silent` of the numbers that were not printed.

**LoopDetect** models `loop_detect_check` for one thread, with a history of the
blocks that were looked at.

The MC modules give the constants their values. MCObject runs CallConv or
Reloc, and MCClient one of Start, Syscalls and LoopDetect; a variable says
which, and the parts do not interact. The operators marked "Mutant"
are deliberately wrong variants of the definition that follows them; each
property fails when its variant is used instead, which shows that the property
depends on that code.

## Runs

| run | instance | shows |
|---|---|---|
| arena_threads | 2 threads, 2 pages, requests within and over a page, aligned, unaligned and invalid, failing mprotect, fork, fair | refinement of Allocator, returned memory is backed or was refused, the lock has a holder, every call returns |
| rtld_shared | 2 slots, 3 addresses that collide and wrap around, a writer and 2 readers, fair | refinement of AddrMap, every call returns |
| dispatch_links | 3 blocks that name each other, 2 TLB slots, 2 nested calls, failures | right code, coherent caches, no retranslation |
| dispatch_trace | RISC-V, tracing, no constant targets, failures, fair | complete trace, every branch arrives or the client exits |
| dispatch_stub | RISC-V with constant targets | violation: finding 1 |
| dispatch_naming | symbols as `Translate` names them | violation: finding 2 |
| translator_threads | 2 sockets, a block on 2 pages, a store, failures everywhere, fair | client and server in step, one thread and server per socket, sockets stay open, objects are for the right address and from this process's memory, calls return, servers end |
| cache_shared | 2 servers, 2 addresses, crashes and failures, fair | for each key until its `Put` fails: files with their final name are complete and final, hits are for the right address; no operation hangs |
| signals_threads | 2 threads, all actions, masks with SIGSEGV, sigsuspend, clone, faults, one SIGCHLD or SIGSEGV sent, fair | SIGSEGV is never blocked, a noted signal blocks the others with three named exceptions and is taken, an abort ends a program of one thread |
| signals_drop | 1 thread that masks SIGUSR1 | violation: finding 3 |
| object_code | functions of 3 blocks with loops, joins, calls and helpers over 2 registers, 4 blocks executed; the relocation types of `AllTypes`, stubs and PLT entries, with symbols at the limits of its field | registers and memory are handed over as before the pass, loads and helpers see the same state; instructions refer to their symbols, keep their opcodes, and are refused only out of reach |
| client_run | program layouts with pages of 4 bytes, 3 guests and hosts; calls of every kind for each pair, `clone3` and zero-extended ints included; 2 threads with unknown numbers; 12 dispatches with a window of 4 | segments, entry, stack and registers are right, nothing is overwritten or left over; host calls mean what the guest meant; each unknown call is printed once unless threads race; loops are found |

Properties that hold only on a condition say so themselves. `RealIsComplete`,
`RealIsFinal` and `HitsFit` are claimed for a key as long as no look, write or
rename of `Put` has failed for it (`failed`); crashes, and failures for other
keys, are always allowed. `AbortEnds` is claimed for a program with one thread
(`Alone`). `NotedBlocksOthers` has three exceptions: a signal that came `late`,
from the update of the mask to the end of the call; the wait in the guest's
`sigsuspend`, which has the guest's mask; and the wait in an abort, which lets
one signal through. `MeansTheSame` is claimed for the calls in `Expected`: not
for clones that share memory and are no threads, for `clone3` with a struct
shorter than its first version, and for a `poll` whose timeout is a negative
int that was not sign-extended. `BackedOnReturn` allows pages whose own
mprotect was refused, and `EveryCallReturns` leaves out a child that was forked
from a process with several threads. `StackReadable` claims alignment unless
`LD_LIBRARY_PATH` is replaced, `RegistersArrive` leaves out new threads of
RISC-V and AArch64 guests on other hosts, `LoadedRight` takes program headers
to be readable, `WarnsOnce` is about numbers below 1024 whose word was not
`raced`, and `DetectsLoops` about loops whose length divides the window; the
deviations below say why.

Invariants that the proofs establish for every instance, and that are not
repeated in a run: the type invariants of Arena, Rtld, Dispatch, Signals and
Cache, `Disjoint`, `MutualExclusion`, `OnlyGrows` and `BrkpIsBacked` of Arena,
`Reachable` and `ReadersSeeValidData` of Rtld, `NotReached` of Signals, and
`RunsRightCode` of Dispatch on RISC-V.

Bounds. The arena is small enough to be filled, with a request larger than a
page, so that claims span pages and the last one fails. Table and TLB are
small, so that collisions, replacement and -ENOSPC happen. Two nested host
calls (`MaxFrames`) are a call from a call, which is all the unwinding
distinguishes. Two sockets are a parent with a thread or a child process, and
failures at any step of its making. The invariants of Translator were also
checked with three sockets (a thread or process made by one that was made), one
page and `MayFail = FALSE`, in 2.4 million states; that is not kept as a run.
One store (`MaxStamp`) tells a stale copy of a page from a current one. Two
servers and four translations (`MaxAsks`) have a file written by one server
while the other writes, finds or sends it, and both at a second address; inodes
nobody refers to are used again. One signal sent (`MaxSends`) comes on top of
those the threads raise themselves by faults and aborts; signals_drop needs no
more than its two. Three blocks and two registers make the shapes that CallConv
distinguishes: a loop on one block and over two, a join, a call in the middle
of a block, a value that comes from the entry on one path and from a call on
the other; four blocks executed (`MaxBlocks`) take a loop twice. The symbols of
Reloc lie on both sides of the limits of 12, 13, 21 and 28 bits in both
directions, and opcode bits are all ones or mixed. Pages of four bytes let
segments begin and end in, before and after the middle of a page; the address
space (`Top`) holds program, interpreter and temporary maps with some choice.
An int of 8 bits (`IntRange`) tells zero- from sign-extension; the structs of
`clone3` are shorter than, as long as and longer than its first version. The
unknown numbers 479 and 511 share the bits of one word and 1100 is past the
map; two prints of a number (`MaxWarned`) are one too many. Twelve dispatches
(`MaxDispatches`) fill the window, shift it and reach the sampled part.

Deadlock is checked in rtld_shared. In arena_threads the child of a fork may
spin on a lock nobody holds, cache_shared, object_code and client_run end at
bounds or when a function or the start ends, and the other systems may end: the
client exits on an error, and the guest may end or be ended by a signal.

Fairness. Straight-line code goes on (weak fairness of each thread's own
steps). In Arena the weak compare-and-swap and the spin lock are strongly fair:
the code has no bound on lost races, and hardware gives none, so that
`EveryCallReturns` says that nothing else keeps a call from returning. In
Translator and Cache nothing is assumed of the guest, of failures or of
crashes; in Signals the host delivers what is not blocked.

## Proofs

Proved by TLAPS for all values of the constants that satisfy the named
assumptions (sizes and addresses are naturals, the arena starts and ends on
pages, markers of the model are no code addresses):

- **ArenaProofs**: `Inv` adds to `TypeOK` that every claim lies below `brk` in
  order, what a thread about to swap has computed, that a region being backed
  ends inside the arena, and what the holder of the lock knows of `brkp`. From
  it follow `ClaimsDisjoint`, `LockExcludes`, `Refinement` to Allocator and
  `Growth`; with what the threads know of pages
  that were backed or refused, `BrkpHonest` and `ReturnedIsBacked`; and
  `HeldByAThread`. All of them hold with failing mprotect and forks.
- **RtldProofs**: `Inv` says what a search knows of the slots it has passed
  (none holds its address, and for the writer none is empty), which slot the
  writer is about to fill, and `Reachable`. It is needed because a reader's
  answer depends on slots it looked at long before. `Refinement` maps the
  table to AddrMap; a negative answer takes effect when the reader meets the
  empty slot.
- **GuestProofs**, for what runs the guest. Dispatch: `TypeCorrect` holds for
  every setting. The others assume `Sound`: symbols denote the requested
  address (`Contract`), and on RISC-V no block has a constant target; without
  either the findings apply. `Inv` says that table, TLB, links, the pc in
  flight and the pending call site agree with the guest's target, and that an
  address asked for is in the table. `TracesEveryBlock` needs only that no
  block has a constant target. Signals: `SignalInv` says for each thread that
  its host mask holds SIGSEGV only while it aborts for a SIGSEGV
  (`FaultBlocks`), what a thread that aborts has set up (`Aborting`), and that
  a noted signal has the others blocked (`Noted`), but from the update of the
  mask on if it came `late`. `NeverMasked`, `NotedKeepsOthersOut` and
  `AbortStays` follow.
- **CacheProofs**: `Inv` says that no file has two names (`OneName`), what a
  server has in its hands (`InHand`), that the file of a writer has no name of
  another key (`Own`), and, for a key until its `Put` fails (`Fine`), what a
  writer has written so far (`Writing`), what a reader has found (`Reading`)
  and that the named file is complete (`Complete`). Two writers do not meet
  because a writer holds the lock, and its file is the temporary file of its
  key or a finished file exists already. `Own` is what confines a failure to
  its key.
- **TranslatorProofs**: `Conversation` says for every socket what its two ends
  are doing and which messages are in it, for every step of a call, of the
  making of a thread and of a process; it is the conjunction that a single
  step on either side keeps. `SocketsOneEach` and `StreamsInSync` follow.
  `Held` adds which processes have a client's end open (`SocketsConnected`),
  and `Sourced` where the bytes of pages and objects come from: a page in a
  server's cache, in a message or in an object is one that the process of that
  socket had (`ThreadsAnsweredRight`). They hold for any number of threads,
  processes and failures.
- **ObjectProofs**, for the code that objects are made of. `OpcodesKept`, for
  all addresses and opcodes: whatever a relocation computes is confined to the
  field of its type. The PLT entry of AArch64 is left out: it is written by
  shifts without a mask, and keeps its opcode for distances that are in reach
  (model-checked). `RefusalsJustified` takes the instruction to be on an even
  address, as all code is, and the PLT to be in reach of it. For CallConv,
  `PassInv` relates the two executions: each register field has its value where
  the pass takes it from (`Held`: memory, argument, result of a call or PHI
  node), unless a store that was folded is still to be handed over (`Pending`)
  or no PHI node was wired in the block (`Unwired`). It is inductive because the
  blocks with PHI nodes are closed under predecessors that produce nothing.
  `HelpersAreServed`, `LoadsKept` and `FieldsHandedOver` follow for every
  control-flow graph, body and number of registers of the shape that the lifter
  generates (`Lifted`); the entry block has no predecessors, as LLVM demands.
- **ClientProofs**. `WarnedOnce`, for all numbers and threads: `WarnedInv` says
  that every bit of the map, and of a word that a thread has tested, comes from
  a number that was printed (`BitsKnown`, `Tested`), and that outside of races
  the tested word is still the current one and in nobody else's hands
  (`Current`), so that a printed number has all its bits (`Once`).
  `LoopsDetected`, for every window and trace (0 is no block): `LoopInv` says
  that the window is the end of the trace, and that when nothing was reported
  for longer than a window the newest block differs from the one a window
  before it (`NotClosed`). `StackInv` says that the stack is the one built from
  the inputs, and `GuestReadsStack` that the guest reads it back, for every
  argc and environment.
- **LoaderProofs**: `MapInv` says that the pages about to be mapped miss the
  client and the temporary maps (`Clear`); `LoaderKeepsMaps` follows, on every
  error path. `LoadInv` adds that each segment mapped so far holds its bytes
  (`Holds`) and that what is still to be mapped will miss them (`Misses`,
  `Based`), from which `LoaderLoadsRight`.

Assumptions on the loader's and the stack's inputs (`ElfAssumption`,
`ProgramsAssumption`, `StackAssumption`), which TLC checks for the instances of
client_run: the loadable segments of a program ascend without overlap, as the
ELF format demands; a program with fixed addresses ends below the area that
mmap chooses from, and shares no page with an interpreter that has fixed
addresses; the page with the program headers belongs to the first segment
alone; and `LD_LIBRARY_PATH` is set at most once. The code checks none of
them; the last one fails as the deviations below say.

Where a proof needs induction over data (the least block, slot, variable or
repetition with some property), it takes the least counterexample, which exists
because the order of the naturals is well-founded.

Only model-checked: all liveness, since fairness is outside the prover;
`RelocReaches`, that relocated instructions refer to their symbols, which is
arithmetic over sums of bits; `MeansTheSame`, which compares flags by the same
sums; `RegistersArrive` and `RegistersKept`, which are about finite tables that
the run goes through for all hosts and guests. Every other invariant of a
passing run is proved.

## Findings

1. dispatch_stub: on RISC-V a stub leaves the sret slot stale.
2. dispatch_naming: `Translate` puts the absolute address in a name the client
   takes as relative. The other runs assume `Contract`.
3. signals_drop: a signal between the guest's and the host's mask is lost.

Other deviations from what comments of the code say have no run of their own.
Where a property is named, TLC finds it violated when the constants or its
condition are changed as stated:

- The result of `mprotect` is ignored and `brkp` advances: `BackedOnReturn`
  without `refused`.
- The child of a fork can inherit a lock nobody will release:
  `HeldOnlyDuringMprotect` and `EveryCallReturns` without "gone".
- With tracing and `-callret`, direct links bypass the trace: `TraceComplete`
  with `Trace` and constant targets.
- `Put` takes a failing open of the finished file for "not there" and may then
  replace it, and a failing write or rename unlinks a name that may be another
  server's by then, so that a half-written file may get its final name:
  `RealIsFinal`, `RealIsComplete` and `HitsFit` without `failed`.
- With `-pic` a cached object's name does not fit other addresses with the same
  bytes: `HitsFit` with `Pic`.
- At most one signal is to be noted at a time, but `sigprocmask` tests
  `sigpending` before it updates the host's mask, and `sigsuspend` does not test
  it, so that a second signal may replace the noted one: `NotedBlocksOthers`
  without its exceptions. SIGSEGV and SIGBUS, never blocked, may do so at any
  time.
- Ignoring a signal that is already noted leaves all signals blocked with
  nothing pending, and a thread made while a signal is noted inherits that mask.
- With a second thread `abort_with_signal` may return from `sigsuspend`:
  `NotReached` without `Alone`, with a caught SIGUSR1.
- SIGCONT is not converted to SIGABRT and does not end the process: `AbortEnds`
  with a caught signal that is in `Harmless` and not in `Converted`.
- The dispatch loops of x86-64 and AArch64 load the registers of a new thread
  from the x86-64 slots, so that threads of other guests start with permuted
  registers: `RegistersArrive` without its condition. The TLS register is set
  for x86-64 guests only.
- When `LD_LIBRARY_PATH` is replaced, one word too few is counted and the stack
  may be misaligned: `StackReadable` without its condition.
- Of several `LD_LIBRARY_PATH` variables one is replaced and the others stay.
- `elf_read` reports no short read: a file that ends in its program headers is
  loaded from what the buffer held.
- `unhandled_syscall` shifts a 32-bit one, so that numbers share bits: the only
  warning about a number may be suppressed by another number. Numbers from 1024
  on are printed every time. The map belongs to all threads and its test, load
  and store are apart, so that two threads print a number twice or lose each
  other's mark: `WarnsOnce` without `raced`.
- `CLONE_VM` without `CLONE_THREAD` (vfork) makes a thread, and other flags next
  to `CLONE_VM` are dropped; a `clone3` whose struct is shorter than 64 bytes is
  accepted; `poll` tests all 64 bits of its timeout, so that -1 in a
  zero-extended register is a long time and not for ever: `MeansTheSame` without
  `Expected`.
- `fcntl` looks at the descriptor instead of the command, and refuses
  descriptors other than 0 to 8 and 1030.
- The loop detector compares with the first block of the window only: a loop
  whose length does not divide the window of 64, entered after other blocks, is
  not found. Blocks that follow themselves are counted for the whole run, so
  that a long correct program is stopped as well. The counters are shared by
  all threads without a lock.

Read in the code and outside the models: `handle_clone` keeps the new socket
when the new thread's first messages fail; the comments of x86-64 `__clone`
exchange newtls and ctid; `decode_name` returns success with no address at a
digit that is not octal; `R_RISCV_HI20` does not round; `R_RISCV_CALL` and
`R_RISCV_PCREL_HI20` have no range check; the masks of the compressed RISC-V
branches are the complement of the field they should clear; `add_stub` of
RISC-V, not used, loads its literal from 4 bytes in front of it.

## Not modelled

- LLVM, Rellume and the fixed pass pipelines around them (optimizer.cc,
  codegenerator.cc): external, or without state of their own.
- The client's C library (printf, string and math routines, read and write
  loops): sequential code; messages are whole items in Translator.
- Command line and configuration of the server, profiling, the perf map.
- The numbers of system calls, struct layouts (stat, utsname), time and cpuid
  constants: tables that a model would only repeat. sigaltstack stores a value.
- Of the relocations of rtld.c: 64-bit words, the absolute ones (`R_X86_64_32`,
  `R_X86_64_32S`, `R_RISCV_32`, `R_RISCV_HI20`, `R_RISCV_LO12_I` and `_S`), MOVW
  G2 and G3, the ADD, SUB and SET pairs and the compressed RISC-V branches. The
  section walk of `rtld_add_object` (Dispatch models its effect).
- The part of a cache key that comes from the server's options; the fields
  of `clone3`'s struct that the code does not read (`set_tid`, `cgroup`).
- Memory is sequentially consistent in all modules: the release and acquire
  orders of memory.c and rtld.c are taken to give the order of the source.

What could be added: Rtld under Dispatch instead of the abstract map, Signals
with Translator for a read that a signal interrupts, and LoopDetect with several
threads.
