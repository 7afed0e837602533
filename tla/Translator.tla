----------------------------- MODULE Translator ------------------------------
(***************************************************************************)
(* The client and its translation servers (client/translator.c,            *)
(* server/connection.cc, and handle_clone of client/emulate.c).            *)
(*                                                                         *)
(* Socket, server and guest thread are numbered alike: C_FORK makes socket *)
(* k and a server k on it, and clone or fork then makes thread k.  Thread  *)
(* 1 is the main thread.  A process is named after its first thread.       *)
(* A message is one item of a stream, since either side reads header and   *)
(* body to the end before it does anything else.                           *)
(***************************************************************************)
EXTENDS Integers, Sequences

CONSTANTS
  N,            \* bound: sockets, servers and guest threads ever made
  Addrs,        \* guest addresses that are translated
  Pages,        \* pages of guest code
  Reads,        \* per address: the pages the decoder reads, in order
  MaxStamp,     \* bound: guest stores to code pages
  MayFail       \* system calls, translation and servers may fail

ASSUME TranslatorAssumption ==
  /\ N \in Nat \ {0} /\ MaxStamp \in Nat /\ MayFail \in BOOLEAN
  /\ Reads \in [Addrs -> Seq(Pages)] /\ 0 \notin Addrs

Ids == 1 .. N

VARIABLES
  pc,       \* per thread: where it is in translator_get or handle_clone
  proc,     \* per thread: its process
  csock,    \* per thread: t->socket
  hdr,      \* per thread: t->last_hdr.id
  arg,      \* per thread: the address it asked for, or the socket it received
  mem,      \* per process: the version of each page, Absent: not mapped
  seen,     \* per process: the versions each page ever had
  stamp,    \* the number of stores so far
  holders,  \* per socket: the processes that have its client end open
  c2s, s2c, \* per socket: the messages under way
  sv,       \* per server: where it is
  ssock,    \* per server: its socket
  pages,    \* per server: page_cache, Absent: not cached
  job       \* per server: the address, the pages left to read, the bytes read

client == <<pc, proc, csock, hdr, arg>>
guest  == <<mem, seen, stamp>>
server == <<sv, ssock, pages, job>>
vars   == <<client, guest, holders, c2s, s2c, server>>

Absent == -1
NoObject == [of |-> 0, code |-> {}]     \* an object of size 0
NoJob == [of |-> 0, todo |-> <<>>, code |-> {}]
Message(id, x) == [id |-> id, arg |-> x]

Init ==
  /\ pc = [i \in Ids |-> IF i = 1 THEN "init" ELSE "none"]
  /\ proc = [i \in Ids |-> 1] /\ csock = [i \in Ids |-> i]
  /\ hdr = [i \in Ids |-> "UNKNOWN"]
  /\ arg = [i \in Ids |-> IF i = 1 THEN 1 ELSE 0]
  /\ mem = [p \in Ids |-> [g \in Pages |-> 0]]
  /\ seen = [p \in Ids |-> [g \in Pages |-> {0}]]
  /\ stamp = 0
  /\ holders = [s \in Ids |-> IF s = 1 THEN {1} ELSE {}]
  /\ c2s = [s \in Ids |-> <<>>] /\ s2c = [s \in Ids |-> <<>>]
  /\ sv = [k \in Ids |-> IF k = 1 THEN "init" ELSE "none"]
  /\ ssock = [k \in Ids |-> k]
  /\ pages = [k \in Ids |-> [g \in Pages |-> Absent]]
  /\ job = [k \in Ids |-> NoJob]

----------------------------------------------------------------------------
(* Sockets *)

Alive(i) == pc[i] \notin {"none", "gone"}
Threads(p) == {i \in Ids : Alive(i) /\ proc[i] = p}

Serving(k) == sv[k] \in {"init", "loop", "read", "membuf"}
Served(s) == \E k \in Ids : Serving(k) /\ ssock[k] = s

(* A client end is open in a process, or on its way to one. *)
Open(s) ==
  \/ holders[s] # {}
  \/ \E r \in Ids : /\ holders[r] # {}
                    /\ \E n \in 1 .. Len(s2c[r]) : s2c[r][n].id = "S_FD" /\ s2c[r][n].arg = s

Send(s, m) == c2s' = [c2s EXCEPT ![s] = Append(@, m)]

(* The next message for a client, and the end of the stream. *)
Arrived(s, id) == s2c[s] # <<>> /\ Head(s2c[s]).id = id
Arg(s) == Head(s2c[s]).arg
Receive(s) == s2c' = [s2c EXCEPT ![s] = Tail(@)]
Eof(s) == s2c[s] = <<>> /\ ~Served(s)

Close(p, s) == holders' = [holders EXCEPT ![s] = @ \ {p}]

(* A thread goes on with n at hand. *)
Goto(i, next, n) == pc' = [pc EXCEPT ![i] = next] /\ arg' = [arg EXCEPT ![i] = n]

(* Threads end; the last one of a process closes its sockets. *)
End(S) ==
  /\ pc' = [i \in Ids |-> IF i \in S THEN "gone" ELSE pc[i]]
  /\ arg' = [i \in Ids |-> IF i \in S THEN 0 ELSE arg[i]]
  /\ holders' = [s \in Ids |-> {p \in holders[s] : Threads(p) \ S # {}}]

----------------------------------------------------------------------------
(* translator_get, called by resolve_func, which ends the thread on errors *)

Ask(i, a) ==
  /\ pc[i] = "run"
  /\ IF hdr[i] # "UNKNOWN" \/ ~Served(csock[i])
     THEN End({i}) /\ UNCHANGED c2s
     ELSE /\ Send(csock[i], Message("C_TRANSLATE", a))
          /\ Goto(i, "get", a) /\ UNCHANGED holders
  /\ UNCHANGED <<proc, csock, hdr, guest, s2c, server>>

(* A memory request; a page that cannot be read is answered as failed. *)
ServePage(i) ==
  /\ pc[i] = "get" /\ Arrived(csock[i], "S_MEMREQ")
  /\ Receive(csock[i])
  /\ Send(csock[i], Message("C_MEMBUF", mem[proc[i]][Arg(csock[i])]))
  /\ UNCHANGED <<client, guest, holders, server>>

(* translator_get_object; rtld_add_object refuses an object of size 0. *)
TakeObject(i) ==
  /\ pc[i] = "get" /\ Arrived(csock[i], "S_OBJECT")
  /\ Receive(csock[i])
  /\ IF Arg(csock[i]).of = 0 THEN End({i}) ELSE Goto(i, "run", 0) /\ UNCHANGED holders
  /\ UNCHANGED <<proc, csock, hdr, guest, c2s, server>>

(* The end of the stream, or another message, whose header is kept. *)
GetFails(i) ==
  /\ pc[i] = "get"
  /\ LET s == csock[i]
     IN  /\ ~Arrived(s, "S_MEMREQ") /\ ~Arrived(s, "S_OBJECT")
         /\ IF s2c[s] = <<>>
            THEN Eof(s) /\ UNCHANGED <<hdr, s2c>>
            ELSE Receive(s) /\ hdr' = [hdr EXCEPT ![i] = Head(s2c[s]).id]
  /\ End({i})
  /\ UNCHANGED <<proc, csock, guest, c2s, server>>

----------------------------------------------------------------------------
(* handle_clone; its errors go back to the guest *)

(* translator_fork_prepare, for a thread or for a process *)
AskFork(i, what) ==
  /\ pc[i] = "run" /\ hdr[i] = "UNKNOWN" /\ Served(csock[i])
  /\ Send(csock[i], Message("C_FORK", 0))
  /\ Goto(i, what, 0)
  /\ UNCHANGED <<proc, csock, hdr, guest, holders, s2c, server>>

Forking(i) == pc[i] \in {"thread", "process"}

TakeFd(i) ==
  /\ Forking(i) /\ Arrived(csock[i], "S_FD")
  /\ Receive(csock[i])
  /\ LET k == Arg(csock[i])
     IN  IF k = 0
         THEN Goto(i, "run", 0) /\ UNCHANGED holders
         ELSE /\ Goto(i, IF pc[i] = "thread" THEN "init" ELSE "fork", k)
              /\ holders' = [holders EXCEPT ![k] = @ \union {proc[i]}]
  /\ UNCHANGED <<proc, csock, hdr, guest, c2s, server>>

FdFails(i) ==
  /\ Forking(i) /\ ~Arrived(csock[i], "S_FD")
  /\ LET s == csock[i]
     IN  IF s2c[s] = <<>>
         THEN Eof(s) /\ UNCHANGED <<hdr, s2c>>
         ELSE Receive(s) /\ hdr' = [hdr EXCEPT ![i] = Head(s2c[s]).id]
  /\ Goto(i, "run", 0)
  /\ UNCHANGED <<proc, csock, guest, holders, c2s, server>>

(* The main thread runs the same sequence on its own socket, and gives up  *)
(* where handle_clone returns an error.                                    *)
Return(i, closes) ==
  IF arg[i] = i
  THEN End({i})
  ELSE Goto(i, "run", 0) /\ IF closes THEN Close(proc[i], arg[i]) ELSE UNCHANGED holders

(* translator_init, translator_thread_init *)
SendInit(i) ==
  /\ pc[i] = "init"
  /\ IF Served(arg[i])
     THEN /\ Send(arg[i], Message("C_INIT", 0))
          /\ Goto(i, "config", arg[i]) /\ UNCHANGED holders
     ELSE Return(i, TRUE) /\ UNCHANGED c2s
  /\ UNCHANGED <<proc, csock, hdr, guest, s2c, server>>

(* translator_config_fetch and rtld_init, which may run out of memory *)
TakeConfig(i) ==
  /\ pc[i] = "config" /\ Arrived(arg[i], "S_INIT")
  /\ Receive(arg[i])
  /\ \/ Goto(i, "object", arg[i]) /\ UNCHANGED holders
     \/ MayFail /\ Return(i, TRUE)
  /\ UNCHANGED <<proc, csock, hdr, guest, c2s, server>>

(* The initial object, and with it the start of the main thread. *)
TakeInitObject(i) ==
  /\ pc[i] = "object" /\ Arrived(arg[i], "S_OBJECT")
  /\ Receive(arg[i])
  /\ IF arg[i] = i THEN Goto(i, "run", 0) ELSE Goto(i, "clone", arg[i])
  /\ UNCHANGED <<proc, csock, hdr, guest, holders, c2s, server>>

(* The stream ends while the new translator is set up: handle_clone leaves *)
(* the socket open.                                                        *)
BootFails(i) ==
  /\ pc[i] \in {"config", "object"}
  /\ LET s == arg[i]
     IN  /\ ~Arrived(s, IF pc[i] = "config" THEN "S_INIT" ELSE "S_OBJECT")
         /\ IF s2c[s] = <<>>
            THEN Eof(s) /\ UNCHANGED <<hdr, s2c>>
            ELSE Receive(s) /\ hdr' = [hdr EXCEPT ![s] = Head(s2c[s]).id]
  /\ Return(i, FALSE)
  /\ UNCHANGED <<proc, csock, guest, c2s, server>>

(* The new thread starts in the dispatch loop; if there is no memory for   *)
(* its stack the socket stays open, if clone fails it is closed.           *)
CloneThread(i) ==
  /\ pc[i] = "clone"
  /\ LET k == arg[i]
     IN  \/ /\ pc' = [pc EXCEPT ![i] = "run", ![k] = "run"]
            /\ arg' = [arg EXCEPT ![i] = 0]
            /\ proc' = [proc EXCEPT ![k] = proc[i]]
            /\ csock' = [csock EXCEPT ![k] = k]
            /\ UNCHANGED holders
         \/ /\ MayFail
            /\ Goto(i, "run", 0)
            /\ Close(proc[i], k) \/ UNCHANGED holders
            /\ UNCHANGED <<proc, csock>>
  /\ UNCHANGED <<hdr, guest, c2s, s2c, server>>

(* The child has a copy of the memory and of every open socket. *)
CloneProcess(i) ==
  /\ pc[i] = "fork"
  /\ LET k == arg[i]
     IN  \/ /\ pc' = [pc EXCEPT ![i] = "close", ![k] = "finalize"]
            /\ proc' = [proc EXCEPT ![k] = k]
            /\ csock' = [csock EXCEPT ![k] = csock[i]]
            /\ mem' = [mem EXCEPT ![k] = mem[proc[i]]]
            /\ seen' = [seen EXCEPT ![k] = seen[proc[i]]]
            /\ holders' = [s \in Ids |-> IF proc[i] \in holders[s]
                                         THEN holders[s] \union {k} ELSE holders[s]]
            /\ UNCHANGED arg
         \/ /\ MayFail
            /\ Goto(i, "run", 0)
            /\ Close(proc[i], k)
            /\ UNCHANGED <<proc, csock, mem, seen>>
  /\ UNCHANGED <<hdr, stamp, c2s, s2c, server>>

ParentCloses(i) ==
  /\ pc[i] = "close"
  /\ Close(proc[i], arg[i])
  /\ Goto(i, "run", 0)
  /\ UNCHANGED <<proc, csock, hdr, guest, c2s, s2c, server>>

(* Mutant: the child goes on with the translator of its parent. *)
FinalizeKeeps(k) ==
  /\ pc[k] = "finalize"
  /\ Goto(k, "run", 0)
  /\ UNCHANGED <<proc, csock, hdr, guest, holders, c2s, s2c, server>>

(* Mutant: the socket is replaced before it is closed. *)
FinalizeSwapped(k) ==
  /\ pc[k] = "finalize"
  /\ Close(proc[k], k)
  /\ csock' = [csock EXCEPT ![k] = k]
  /\ Goto(k, "run", 0)
  /\ UNCHANGED <<proc, hdr, guest, c2s, s2c, server>>

(* translator_fork_finalize *)
Finalize(k) ==
  /\ pc[k] = "finalize"
  /\ Close(proc[k], csock[k])
  /\ csock' = [csock EXCEPT ![k] = k]
  /\ Goto(k, "run", 0)
  /\ UNCHANGED <<proc, hdr, guest, c2s, s2c, server>>

----------------------------------------------------------------------------
(* The guest *)

(* A store to a code page, or its removal. *)
Store(i, g) ==
  /\ pc[i] = "run" /\ stamp < MaxStamp
  /\ \E v \in {stamp + 1, Absent} :
       /\ mem' = [mem EXCEPT ![proc[i]][g] = v]
       /\ seen' = [seen EXCEPT ![proc[i]][g] = @ \union {v}]
  /\ stamp' = stamp + 1
  /\ UNCHANGED <<client, holders, c2s, s2c, server>>

ExitThread(i) ==
  /\ pc[i] = "run"
  /\ End({i})
  /\ UNCHANGED <<proc, csock, hdr, guest, c2s, s2c, server>>

(* exit_group or a fatal signal, wherever the threads are *)
ExitProcess(p) ==
  /\ Threads(p) # {}
  /\ End(Threads(p))
  /\ UNCHANGED <<proc, csock, hdr, guest, c2s, s2c, server>>

----------------------------------------------------------------------------
(* Server *)

Incoming(k, id) == c2s[ssock[k]] # <<>> /\ Head(c2s[ssock[k]]).id = id
Consume(k) == c2s' = [c2s EXCEPT ![ssock[k]] = Tail(@)]

(* Messages are sent and the server goes on; a write to a socket nobody    *)
(* has open ends it.                                                       *)
Reply(k, ms, next) ==
  IF Open(ssock[k])
  THEN s2c' = [s2c EXCEPT ![ssock[k]] = @ \o ms] /\ sv' = [sv EXCEPT ![k] = next]
  ELSE UNCHANGED s2c /\ sv' = [sv EXCEPT ![k] = "exited"]

(* Mutant: a new thread is not sent the configuration again. *)
SendObjectOnce(need, o) == <<Message("S_OBJECT", o)>>

(* SendObject, with the client configuration while need_iwcc is set *)
SendObject(need, o) ==
  IF need THEN <<Message("S_INIT", 0), Message("S_OBJECT", o)>> ELSE <<Message("S_OBJECT", o)>>

(* The start of Run, and C_INIT in its loop, for a new thread. *)
RecvInit(k) ==
  /\ sv[k] \in {"init", "loop"} /\ Incoming(k, "C_INIT")
  /\ Consume(k) /\ Reply(k, SendObject(TRUE, NoObject), "loop")
  /\ UNCHANGED <<client, guest, holders, ssock, pages, job>>

RecvTranslate(k) ==
  /\ sv[k] = "loop" /\ Incoming(k, "C_TRANSLATE")
  /\ LET a == Head(c2s[ssock[k]]).arg
     IN  job' = [job EXCEPT ![k] = [of |-> a, todo |-> Reads[a], code |-> {}]]
  /\ Consume(k) /\ sv' = [sv EXCEPT ![k] = "read"]
  /\ UNCHANGED <<client, guest, holders, s2c, ssock, pages>>

Read(k, g, v) == job' = [job EXCEPT ![k].todo = Tail(@), ![k].code = @ \union {<<g, v>>}]

(* GetPage *)
GetPage(k) ==
  /\ sv[k] = "read" /\ job[k].todo # <<>>
  /\ LET g == Head(job[k].todo)
     IN  IF pages[k][g] # Absent
         THEN Read(k, g, pages[k][g]) /\ UNCHANGED <<s2c, sv>>
         ELSE Reply(k, <<Message("S_MEMREQ", g)>>, "membuf") /\ UNCHANGED job
  /\ UNCHANGED <<client, guest, holders, c2s, ssock, pages>>

(* A page arrives.  Without it the decoder has fewer bytes, and it either  *)
(* fails or has enough.                                                    *)
RecvMembuf(k) ==
  /\ sv[k] = "membuf" /\ Incoming(k, "C_MEMBUF")
  /\ Consume(k)
  /\ LET g == Head(job[k].todo)
         v == Head(c2s[ssock[k]]).arg
     IN  IF v # Absent
         THEN /\ pages' = [pages EXCEPT ![k][g] = v]
              /\ Read(k, g, v)
              /\ sv' = [sv EXCEPT ![k] = "read"] /\ UNCHANGED s2c
         ELSE /\ \/ /\ Reply(k, SendObject(FALSE, NoObject), "loop")
                    /\ job' = [job EXCEPT ![k] = NoJob]
                 \/ /\ job' = [job EXCEPT ![k].todo = Tail(@)]
                    /\ sv' = [sv EXCEPT ![k] = "read"] /\ UNCHANGED s2c
              /\ UNCHANGED pages
  /\ UNCHANGED <<client, guest, holders, ssock>>

(* The object, compiled or from the cache; lifting may fail. *)
Translated(k) ==
  /\ sv[k] = "read" /\ job[k].todo = <<>>
  /\ \E o \in {[of |-> job[k].of, code |-> job[k].code]} \union (IF MayFail THEN {NoObject} ELSE {}) :
       Reply(k, SendObject(FALSE, o), "loop")
  /\ job' = [job EXCEPT ![k] = NoJob]
  /\ UNCHANGED <<client, guest, holders, c2s, ssock, pages>>

(* Mutant: the forked server stays on the socket of its parent. *)
RecvForkShares(k) ==
  /\ sv[k] = "loop" /\ Incoming(k, "C_FORK") /\ Open(ssock[k])
  /\ Consume(k)
  /\ \E n \in Ids :
       /\ sv[n] = "none" /\ \A m \in 1 .. n - 1 : sv[m] # "none"
       /\ s2c' = [s2c EXCEPT ![ssock[k]] = Append(@, Message("S_FD", n))]
       /\ sv' = [sv EXCEPT ![n] = "loop"]
       /\ ssock' = [ssock EXCEPT ![n] = ssock[k]]
       /\ pages' = [pages EXCEPT ![n] = pages[k]]
  /\ UNCHANGED <<client, guest, holders, job>>

(* Mutant: an error is not reported. *)
RecvForkSilent(k) ==
  /\ sv[k] = "loop" /\ Incoming(k, "C_FORK") /\ MayFail
  /\ Consume(k)
  /\ UNCHANGED <<client, guest, holders, s2c, server>>

(* C_FORK: a server with a copy of the page cache and a socket of its own, *)
(* whose other end goes to the client; or an error.                        *)
RecvFork(k) ==
  /\ sv[k] = "loop" /\ Incoming(k, "C_FORK")
  /\ Consume(k)
  /\ \/ \E n \in Ids :
          /\ sv[n] = "none" /\ \A m \in 1 .. n - 1 : sv[m] # "none"
          /\ IF Open(ssock[k])
             THEN /\ s2c' = [s2c EXCEPT ![ssock[k]] = Append(@, Message("S_FD", n))]
                  /\ sv' = [sv EXCEPT ![n] = "loop"]
             ELSE UNCHANGED s2c /\ sv' = [sv EXCEPT ![n] = "loop", ![k] = "exited"]
          /\ ssock' = [ssock EXCEPT ![n] = n]
          /\ pages' = [pages EXCEPT ![n] = pages[k]]
     \/ /\ MayFail \/ \A n \in Ids : sv[n] # "none"
        /\ Reply(k, <<Message("S_FD", 0)>>, "loop")
        /\ UNCHANGED <<ssock, pages>>
  /\ UNCHANGED <<client, guest, holders, job>>

(* Mutant: the end of the stream is not noticed. *)
UnexpectedOnly(k) ==
  /\ sv[k] = "loop" /\ c2s[ssock[k]] # <<>>
  /\ ~\E id \in {"C_INIT", "C_TRANSLATE", "C_FORK"} : Incoming(k, id)
  /\ sv' = [sv EXCEPT ![k] = "lost"]
  /\ UNCHANGED <<client, guest, holders, c2s, s2c, ssock, pages, job>>

(* The end of the stream, or a message the server does not expect. *)
Unexpected(k) ==
  /\ \/ sv[k] = "init" /\ ~Incoming(k, "C_INIT")
     \/ sv[k] = "loop" /\ ~\E id \in {"C_INIT", "C_TRANSLATE", "C_FORK"} : Incoming(k, id)
     \/ sv[k] = "membuf" /\ ~Incoming(k, "C_MEMBUF")
  /\ IF c2s[ssock[k]] = <<>>
     THEN ~Open(ssock[k]) /\ sv' = [sv EXCEPT ![k] = "exited"]
     ELSE sv' = [sv EXCEPT ![k] = "lost"]
  /\ UNCHANGED <<client, guest, holders, c2s, s2c, ssock, pages, job>>

(* The server process ends on its own. *)
Crash(k) ==
  /\ MayFail /\ Serving(k)
  /\ sv' = [sv EXCEPT ![k] = "exited"]
  /\ UNCHANGED <<client, guest, holders, c2s, s2c, ssock, pages, job>>

----------------------------------------------------------------------------

Client(i) ==
  \/ ServePage(i) \/ TakeObject(i) \/ GetFails(i)
  \/ TakeFd(i) \/ FdFails(i) \/ SendInit(i) \/ TakeConfig(i) \/ TakeInitObject(i)
  \/ BootFails(i) \/ CloneThread(i) \/ CloneProcess(i) \/ ParentCloses(i) \/ Finalize(i)

Guest(i) ==
  \/ \E a \in Addrs : Ask(i, a)
  \/ \E what \in {"thread", "process"} : AskFork(i, what)
  \/ \E g \in Pages : Store(i, g)
  \/ ExitThread(i) \/ ExitProcess(i)

Server(k) ==
  \/ RecvInit(k) \/ RecvTranslate(k) \/ GetPage(k) \/ RecvMembuf(k)
  \/ Translated(k) \/ RecvFork(k) \/ Unexpected(k)

Next == \E i \in Ids : Client(i) \/ Guest(i) \/ Server(i) \/ Crash(i)

Spec == Init /\ [][Next]_vars

(* Translator and server only wait for each other; the guest may stop     *)
(* asking, and nothing need fail.                                         *)
FairSpec == Spec /\ \A i \in Ids : WF_vars(Client(i)) /\ WF_vars(Server(i))

----------------------------------------------------------------------------

(* The variables of threads, sockets and servers have their types. *)
TypeOK ==
  /\ pc \in [Ids -> {"none", "init", "config", "object", "run", "get", "thread",
                     "process", "clone", "fork", "close", "finalize", "gone"}]
  /\ proc \in [Ids -> Ids] /\ csock \in [Ids -> Ids]
  /\ hdr \in [Ids -> {"UNKNOWN", "S_INIT", "S_OBJECT", "S_MEMREQ", "S_FD"}]
  /\ \A i \in Ids : arg[i] \in IF pc[i] = "get" THEN Addrs ELSE 0 .. N
  /\ mem \in [Ids -> [Pages -> Absent .. MaxStamp]]
  /\ stamp \in 0 .. MaxStamp
  /\ holders \in [Ids -> SUBSET Ids]
  /\ \A s \in Ids : Len(c2s[s]) <= 1 /\ Len(s2c[s]) <= 2
  /\ sv \in [Ids -> {"none", "init", "loop", "read", "membuf", "exited", "lost"}]
  /\ ssock \in [Ids -> Ids]
  /\ pages \in [Ids -> [Pages -> Absent .. MaxStamp]]

(* Client and server never lose step: no header is left over for a later   *)
(* call, no server meets a message it does not expect, and no more than    *)
(* the messages of one call are under way.                                 *)
InSync == TypeOK /\ \A i \in Ids : hdr[i] = "UNKNOWN" /\ sv[i] # "lost"

(* "sharing would interleave request/response frames": a socket has one    *)
(* server and one thread, also while threads and processes are made.       *)
OneEach ==
  /\ \A j, k \in Ids : Serving(j) /\ Serving(k) /\ ssock[j] = ssock[k] => j = k
  /\ \A i, j \in Ids :
       /\ Alive(i) /\ Alive(j) /\ csock[i] = csock[j]
       /\ pc[i] # "finalize" /\ pc[j] # "finalize"
       => i = j

(* The object that a thread is sent was made for the address it asked for, *)
(* from bytes its own process had in memory.                               *)
AnsweredRight ==
  \A i \in Ids : pc[i] = "get" /\ Arrived(csock[i], "S_OBJECT") =>
    LET o == Arg(csock[i])
    IN  /\ o.of \in {0, arg[i]}
        /\ \A c \in o.code : c[2] \in seen[proc[i]][c[1]]

(* A server that still serves a client can be reached by it: its end of    *)
(* the socket is open in the process of the thread.                        *)
Connected == \A i \in Ids : pc[i] \in {"run", "get", "thread", "process"} => proc[i] \in holders[csock[i]]

(* Every call of translator_get and handle_clone comes back, or the thread *)
(* ends.                                                                   *)
CallsReturn == \A i \in Ids : Alive(i) ~> pc[i] \in {"run", "gone"}

(* Once no guest thread is left every server ends, by the end of its       *)
(* stream alone: the client never sends C_EXIT.                            *)
ServersEnd == (\A i \in Ids : ~Alive(i)) ~> \A k \in Ids : ~Serving(k)
==============================================================================
