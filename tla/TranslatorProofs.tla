--------------------------- MODULE TranslatorProofs --------------------------
(***************************************************************************)
(* Proofs about Translator, for any number of threads and servers: client  *)
(* and server stay in step on every socket (InSync), no socket is shared   *)
(* (OneEach), the socket of a thread is open in its process (Connected),   *)
(* and a thread is sent the object it asked for, made from bytes of its    *)
(* own process (AnsweredRight).                                            *)
(*                                                                         *)
(* The inductive invariant has three layers, each proved from the ones     *)
(* before: Conversation says what may be under way on a socket, given      *)
(* where the server and the thread that uses it are; Held says which       *)
(* processes have it open; Sourced says where the bytes come from.         *)
(***************************************************************************)
EXTENDS Translator, TLAPS

(* What is under way on socket s: nothing, one request, one reply, or the  *)
(* two replies to C_INIT.                                                  *)
Quiet(s) == c2s[s] = <<>> /\ s2c[s] = <<>>
Asked(s, id) == /\ s2c[s] = <<>> /\ c2s[s] # <<>> /\ c2s[s] = <<Head(c2s[s])>>
                /\ Head(c2s[s]).id = id
Told(s, id)  == /\ c2s[s] = <<>> /\ s2c[s] # <<>> /\ s2c[s] = <<Head(s2c[s])>>
                /\ Head(s2c[s]).id = id
Booted(s)    == /\ c2s[s] = <<>> /\ s2c[s] # <<>> /\ Tail(s2c[s]) # <<>>
                /\ s2c[s] = <<Head(s2c[s]), Head(Tail(s2c[s]))>>
                /\ Head(s2c[s]).id = "S_INIT" /\ Head(Tail(s2c[s])).id = "S_OBJECT"

(* Nothing to receive, and a server that has all it was sent, unless it    *)
(* has ended.                                                              *)
Ready(s, at) == s2c[s] = <<>> /\ (sv[s] = "exited" \/ (c2s[s] = <<>> /\ sv[s] \in at))
Idle(s) == Ready(s, {"loop"})

(* The messages of one call at most, and a server that expects them,       *)
(* whether or not the thread that asked is still there.                    *)
Wire(s) ==
  \/ Quiet(s) /\ sv[s] \in {"none", "init", "loop", "read", "exited"}
  \/ Asked(s, "C_INIT") /\ sv[s] \in {"init", "loop", "exited"}
  \/ (Asked(s, "C_TRANSLATE") \/ Asked(s, "C_FORK")) /\ sv[s] \in {"loop", "exited"}
  \/ (Asked(s, "C_MEMBUF") \/ Told(s, "S_MEMREQ")) /\ sv[s] \in {"membuf", "exited"}
  \/ (Told(s, "S_OBJECT") \/ Booted(s)) /\ sv[s] \in {"loop", "exited"}
  \/ Told(s, "S_FD") /\ Arg(s) \in 0 .. N /\ sv[s] \in {"loop", "exited"}

(* A thread and its own socket. *)
Using(i) ==
  /\ pc[i] \in {"run", "clone", "fork", "close", "finalize"} => Idle(i)
  /\ pc[i] \in {"init", "config", "object"} /\ arg[i] # i => Idle(i)
  /\ pc[i] = "get" =>
       \/ Asked(i, "C_TRANSLATE") /\ Head(c2s[i]).arg = arg[i]
       \/ Ready(i, {"read"})
       \/ Asked(i, "C_MEMBUF") \/ Told(i, "S_MEMREQ") \/ Told(i, "S_OBJECT")
  /\ Forking(i) => Asked(i, "C_FORK") \/ Told(i, "S_FD") \/ Ready(i, {})

(* A thread that sets up the translator of a new one, and its socket,      *)
(* which no thread uses yet; the main thread sets up its own.              *)
Boots == {"init", "config", "object", "clone", "fork"}

Booting(i) ==
  /\ pc[i] \in Boots =>
       /\ arg[i] \in Ids /\ sv[arg[i]] # "none"
       /\ arg[i] # i => pc[arg[i]] = "none"
  /\ pc[i] = "init" => Ready(arg[i], {"init", "loop"})
  /\ pc[i] = "config" =>
       Asked(arg[i], "C_INIT") \/ Booted(arg[i]) \/ Ready(arg[i], {})
  /\ pc[i] = "object" => Told(arg[i], "S_OBJECT")
  /\ pc[i] \in {"clone", "fork"} => Idle(arg[i]) /\ arg[i] # i

(* A socket that is handed over belongs to nobody else. *)
Given(s, n) == Told(s, "S_FD") /\ Arg(s) = n

HandedOver(s, n) ==
  /\ pc[n] = "none" /\ Idle(n)
  /\ \A i \in Ids : pc[i] \in Boots => arg[i] # n
  /\ \A r \in Ids : Given(r, n) => r = s

Typed ==
  /\ pc \in [Ids -> {"none", "init", "config", "object", "run", "get", "thread",
                     "process", "clone", "fork", "close", "finalize", "gone"}]
  /\ proc \in [Ids -> Ids] /\ csock \in [Ids -> Ids]
  /\ DOMAIN arg = Ids
  /\ \A i \in Ids : arg[i] \in IF pc[i] = "get" THEN Addrs ELSE 0 .. N
  /\ DOMAIN c2s = Ids /\ DOMAIN s2c = Ids
  /\ sv \in [Ids -> {"none", "init", "loop", "read", "membuf", "exited", "lost"}]

(* Thread, socket and server go by one number. *)
Numbered ==
  /\ \A k \in Ids : ssock[k] = k /\ hdr[k] = "UNKNOWN"
  /\ \A i \in Ids : Alive(i) => csock[i] = i \/ pc[i] = "finalize"
  /\ \A i \in Ids : pc[i] # "none" => sv[i] # "none"
  /\ ssock = [k \in Ids |-> ssock[k]] /\ hdr = [k \in Ids |-> hdr[k]]

Conversation ==
  /\ Typed /\ Numbered
  /\ \A s \in Ids : Wire(s)
  /\ \A i \in Ids : Using(i) /\ Booting(i)
  /\ \A i, j \in Ids : pc[i] \in Boots /\ pc[j] \in Boots /\ arg[i] = arg[j] => i = j
  /\ \A s, n \in Ids : Given(s, n) => HandedOver(s, n)

----------------------------------------------------------------------------
(* The proofs take the invariant apart and put it together with these two. *)
LEMMA ConversationParts ==
  ASSUME Conversation
  PROVE  /\ Typed /\ Numbered
         /\ \A s \in Ids : Wire(s)
         /\ \A i \in Ids : Using(i) /\ Booting(i)
         /\ \A i, j \in Ids : pc[i] \in Boots /\ pc[j] \in Boots
                               /\ arg[i] = arg[j] => i = j
         /\ \A s, n \in Ids : Given(s, n) => HandedOver(s, n)
BY Zenon DEF Conversation

(* Putting it together after a step. *)
LEMMA ConversationFold ==
  ASSUME Typed', Numbered',
         \A s \in Ids : Wire(s)',
         \A i \in Ids : Using(i)' /\ Booting(i)',
         \A i, j \in Ids : pc'[i] \in Boots /\ pc'[j] \in Boots
                               /\ arg'[i] = arg'[j] => i = j,
         \A s, n \in Ids : Given(s, n)' => HandedOver(s, n)'
  PROVE  Conversation'
BY Zenon DEF Conversation

----------------------------------------------------------------------------
(* A stream of one message, and of two. *)
LEMMA One ==
  ASSUME NEW m
  PROVE  /\ <<m>> # <<>> /\ Head(<<m>>) = m /\ Tail(<<m>>) = <<>> /\ Len(<<m>>) = 1
         /\ Append(<<>>, m) = <<m>> /\ <<>> \o <<m>> = <<m>>
OBVIOUS

(* Taking the first of two messages. *)
LEMMA Two ==
  ASSUME NEW m, NEW n
  PROVE  /\ <<m, n>> # <<>> /\ Head(<<m, n>>) = m /\ Tail(<<m, n>>) = <<n>>
         /\ Len(<<m, n>>) = 2 /\ <<>> \o <<m, n>> = <<m, n>>
OBVIOUS

(* A step that leaves a socket and its server alone. *)
Same(t) == /\ c2s'[t] = c2s[t] /\ s2c'[t] = s2c[t]
           /\ sv'[t] = sv[t]

(* Whatever is said of a socket stays true. *)
LEMMA SameSocket ==
  ASSUME NEW t, Same(t)
  PROVE  /\ Quiet(t)' <=> Quiet(t)
         /\ \A id : (Asked(t, id)' <=> Asked(t, id)) /\ (Told(t, id)' <=> Told(t, id))
         /\ Booted(t)' <=> Booted(t)
         /\ \A at : Ready(t, at)' <=> Ready(t, at)
         /\ Idle(t)' <=> Idle(t)
         /\ \A n : Given(t, n)' <=> Given(t, n)
         /\ Wire(t)' <=> Wire(t)
<1>1. Quiet(t)' <=> Quiet(t)
  BY Zenon DEF Same, Quiet
<1>2. \A id : (Asked(t, id)' <=> Asked(t, id)) /\ (Told(t, id)' <=> Told(t, id))
  BY Zenon DEF Same, Asked, Told
<1>3. Booted(t)' <=> Booted(t)
  BY Zenon DEF Same, Booted
<1>4. \A at : Ready(t, at)' <=> Ready(t, at)
  BY Zenon DEF Same, Ready
<1>5. Idle(t)' <=> Idle(t)
  BY <1>4, Zenon DEF Idle
<1>6. \A n : Given(t, n)' <=> Given(t, n)
  BY <1>2, Zenon DEF Given, Arg, Same
<1>7. Wire(t)' <=> Wire(t)
  BY <1>1, <1>2, <1>3, Zenon DEF Wire, Same, Arg
<1> QED
  BY <1>1, <1>2, <1>3, <1>4, <1>5, <1>6, <1>7, Zenon

(* A socket is served when the server of its number serves. *)
LEMMA ServedIsServing ==
  ASSUME Numbered, NEW s \in Ids
  PROVE  Served(s) <=> Serving(s)
BY DEF Numbered, Served

(***************************************************************************)
(* A step of thread i, which may also end others: it touches one socket,   *)
(* its own or the one it sets up, and the server of none.                  *)
(***************************************************************************)
LEMMA ThreadStep ==
  ASSUME Conversation, NEW i \in Ids, NEW s \in Ids,
         Alive(i), s = i \/ (pc[i] \in Boots /\ arg[i] = s),
         \A t \in Ids \ {s} : Same(t), sv'[s] = sv[s],
         \A j \in Ids \ {i} : \/ pc'[j] = pc[j] /\ arg'[j] = arg[j]
                              \/ Alive(j) /\ pc'[j] = "gone",
         Typed', Numbered', Wire(s)', Using(i)', Booting(i)',
         pc'[i] # "none",
         pc'[i] \in Boots => \/ pc[i] \in Boots /\ arg'[i] = arg[i]
                             \/ /\ Given(i, arg'[i]) /\ s = i
                                /\ arg'[i] # i /\ ~Told(s, "S_FD")',
         \A n \in Ids : Given(s, n)' => Given(s, n)
  PROVE  Conversation'
<1>1. ASSUME NEW t \in Ids PROVE Wire(t)'
  BY SameSocket, ConversationParts, Zenon
<1>2. ASSUME NEW t \in Ids, NEW n \in Ids, Given(t, n)' PROVE Given(t, n)
  BY <1>2, SameSocket, Zenon
<1>3. ASSUME NEW j \in Ids PROVE Using(j)'
  <2>1. CASE j = i
    BY <2>1, Zenon
  <2>2. CASE j # i /\ pc'[j] = "gone"
    BY <2>2, Zenon DEF Using, Forking
  <2>3. CASE j # i /\ pc'[j] = pc[j] /\ arg'[j] = arg[j] /\ j # s
    <3>1. Same(j) /\ Using(j)
      BY <2>3, ConversationParts, Zenon
    <3> QED
      BY <3>1, <2>3, SameSocket, Zenon DEF Using, Forking, Same
  <2>4. CASE j # i /\ pc'[j] = pc[j] /\ arg'[j] = arg[j] /\ j = s
    <3>1. pc[j] = "none"
      BY <2>4, ConversationParts DEF Booting
    <3> QED
      BY <3>1, <2>4, Zenon DEF Using, Forking
  <2> QED
    BY <2>1, <2>2, <2>3, <2>4, Zenon
<1>4. ASSUME NEW j \in Ids, j # i, pc'[j] \in Boots
      PROVE  /\ pc[j] = pc'[j] /\ arg'[j] = arg[j] /\ Booting(j)
             /\ arg[j] \in Ids /\ arg[j] # s
  <2>1. pc[j] = pc'[j] /\ arg'[j] = arg[j] /\ Booting(j) /\ arg[j] \in Ids
    BY <1>4, ConversationParts, Zenon DEF Booting, Boots
  <2>2. arg[j] # s
    <3>1. CASE s = i
      BY <3>1, <2>1, <1>4, Zenon DEF Booting, Alive, Boots
    <3>2. CASE pc[i] \in Boots /\ arg[i] = s
      BY <3>2, <2>1, <1>4, ConversationParts, Zenon
    <3> QED
      BY <3>1, <3>2, Zenon
  <2> QED
    BY <2>1, <2>2, Zenon
<1>5. ASSUME NEW j \in Ids, pc[j] = "none" PROVE pc'[j] = "none" /\ j # i
  BY <1>5, Zenon DEF Alive
<1>6. ASSUME NEW j \in Ids PROVE Booting(j)'
  <2>1. CASE j = i
    BY <2>1, Zenon
  <2>2. CASE j # i /\ pc'[j] \notin Boots
    BY <2>2, Zenon DEF Booting, Boots
  <2>3. CASE j # i /\ pc'[j] \in Boots
    <3>1. Same(arg[j])
      BY <2>3, <1>4, Zenon
    <3>2. arg[j] # j => pc'[arg[j]] = "none"
      BY <2>3, <1>4, <1>5, Zenon DEF Booting
    <3> QED
      BY <3>1, <3>2, <2>3, <1>4, SameSocket DEF Booting, Same
  <2> QED
    BY <2>1, <2>2, <2>3, Zenon
<1>7. ASSUME NEW j \in Ids, NEW k \in Ids,
             pc'[j] \in Boots, pc'[k] \in Boots, arg'[j] = arg'[k]
      PROVE  j = k
  <2>1. ASSUME NEW h \in Ids, h # i, pc'[h] \in Boots, pc'[i] \in Boots
        PROVE  arg'[h] # arg'[i]
    <3>1. CASE pc[i] \in Boots /\ arg'[i] = arg[i]
      BY <3>1, <2>1, <1>4, ConversationParts, Zenon
    <3>2. CASE Given(i, arg'[i])
      <4>1. arg'[i] \in Ids
        BY <2>1, Zenon DEF Booting
      <4>2. HandedOver(i, arg'[i])
        BY <3>2, <4>1, ConversationParts, Zenon
      <4> QED
        BY <4>2, <2>1, <1>4 DEF HandedOver
    <3> QED
      BY <3>1, <3>2, <2>1, Zenon
  <2>2. CASE j = i \/ k = i
    BY <2>2, <2>1, <1>7, Zenon
  <2>3. CASE j # i /\ k # i
    BY <2>3, <1>4, <1>7, ConversationParts, Zenon
  <2> QED
    BY <2>2, <2>3, Zenon
<1>8. ASSUME NEW t \in Ids, NEW n \in Ids, Given(t, n)' PROVE HandedOver(t, n)'
  <2>1. Given(t, n) /\ HandedOver(t, n)
    BY <1>8, <1>2, ConversationParts, Zenon
  <2>2. pc'[n] = "none" /\ n # i
    BY <2>1, <1>5, Zenon DEF HandedOver
  <2>3. n # s
    BY <2>1, <2>2, Zenon DEF HandedOver
  <2>4. Idle(n)'
    BY <2>1, <2>3, SameSocket, Zenon DEF HandedOver
  <2>5. ASSUME NEW j \in Ids, pc'[j] \in Boots PROVE arg'[j] # n
    <3>1. CASE j # i
      BY <3>1, <2>5, <1>4, <2>1 DEF HandedOver
    <3>2. CASE j = i /\ pc[i] \in Boots /\ arg'[i] = arg[i]
      BY <3>2, <2>1, Zenon DEF HandedOver
    <3>3. CASE j = i /\ Given(i, arg'[i]) /\ s = i /\ ~Told(s, "S_FD")'
      BY <3>3, <2>1, <1>8, Zenon DEF HandedOver, Given
    <3> QED
      BY <3>1, <3>2, <3>3, <2>5, Zenon
  <2>6. \A r \in Ids : Given(r, n)' => r = t
    BY <2>1, <1>2, Zenon DEF HandedOver
  <2> QED
    BY <2>2, <2>4, <2>5, <2>6, Zenon DEF HandedOver
<1> QED
  BY <1>1, <1>3, <1>6, <1>7, <1>8, ConversationFold, Zenon

(***************************************************************************)
(* A step of server k, which touches its own socket alone.                 *)
(***************************************************************************)
LEMMA ServerStep ==
  ASSUME Conversation, NEW k \in Ids, UNCHANGED <<pc, arg>>,
         \A t \in Ids \ {k} : Same(t),
         Typed', Numbered', Wire(k)', Using(k)',
         \A i \in Ids : pc[i] \in Boots /\ arg[i] = k => Booting(i)',
         Idle(k) => Idle(k)',
         \A n \in Ids : Given(k, n)' => Given(k, n)
  PROVE  Conversation'
<1>1. ASSUME NEW t \in Ids PROVE Wire(t)'
  BY SameSocket, ConversationParts, Zenon
<1>2. ASSUME NEW t \in Ids, NEW n \in Ids, Given(t, n)' PROVE Given(t, n)
  BY <1>2, SameSocket, Zenon
<1>3. ASSUME NEW j \in Ids PROVE Using(j)'
  <2>1. CASE j = k
    BY <2>1, Zenon
  <2>2. CASE j # k
    <3>1. Same(j) /\ Using(j)
      BY <2>2, ConversationParts, Zenon
    <3> QED
      BY <3>1, SameSocket, Zenon DEF Using, Forking, Same
  <2> QED
    BY <2>1, <2>2, Zenon
<1>4. ASSUME NEW j \in Ids PROVE Booting(j)'
  <2>1. CASE pc[j] \notin Boots
    BY <2>1, Zenon DEF Booting, Boots
  <2>2. CASE pc[j] \in Boots /\ arg[j] = k
    BY <2>2, Zenon
  <2>3. CASE pc[j] \in Boots /\ arg[j] # k
    <3>1. Booting(j) /\ Same(arg[j])
      BY <2>3, ConversationParts, Zenon DEF Booting
    <3> QED
      BY <3>1, SameSocket, Zenon DEF Booting, Same
  <2> QED
    BY <2>1, <2>2, <2>3, Zenon
<1>5. ASSUME NEW t \in Ids, NEW n \in Ids, Given(t, n)' PROVE HandedOver(t, n)'
  <2>1. Given(t, n) /\ HandedOver(t, n)
    BY <1>5, <1>2, ConversationParts, Zenon
  <2>2. Idle(n)'
    BY <2>1, SameSocket, Zenon DEF HandedOver
  <2>3. \A r \in Ids : Given(r, n)' => r = t
    BY <2>1, <1>2, Zenon DEF HandedOver
  <2> QED
    BY <2>1, <2>2, <2>3, Zenon DEF HandedOver
<1> QED
  BY <1>1, <1>3, <1>4, <1>5, ConversationParts, ConversationFold, Zenon

(* Threads end and nothing else happens to the sockets. *)
LEMMA EndStep ==
  ASSUME Conversation, NEW S \in SUBSET Ids, NEW i \in S, \A j \in S : Alive(j),
         End(S), UNCHANGED <<proc, csock, hdr, c2s, s2c, sv, ssock>>
  PROVE  Conversation'
<1>1. \A j \in Ids : IF j \in S THEN pc'[j] = "gone" /\ arg'[j] = 0
                     ELSE pc'[j] = pc[j] /\ arg'[j] = arg[j]
  BY Zenon DEF End
<1>2. Typed'
  <2>1. pc' \in [Ids -> {"none", "init", "config", "object", "run", "get", "thread",
                     "process", "clone", "fork", "close", "finalize", "gone"}]
    BY ConversationParts, Zenon DEF Typed, End
  <2>2. 0 \in 0 .. N
    BY TranslatorAssumption
  <2>3. \A j \in Ids : arg'[j] \in IF pc'[j] = "get" THEN Addrs ELSE 0 .. N
    BY <1>1, <2>2, Zenon, ConversationParts DEF Typed
  <2> QED
    BY <2>1, <2>3, ConversationParts, Zenon DEF Typed, End
<1>3. Numbered'
  BY <1>1, ConversationParts, Zenon DEF Numbered, Alive
<1>4. \A t \in Ids : Same(t)
  BY Zenon DEF Same
<1>5. Wire(i)' /\ \A n \in Ids : Given(i, n)' => Given(i, n)
  BY <1>4, SameSocket, ConversationParts, Zenon
<1>6. Using(i)' /\ Booting(i)' /\ pc'[i] = "gone"
  BY <1>1, Zenon DEF Using, Booting, Boots, Forking
<1> QED
  BY <1>1, <1>2, <1>3, <1>4, <1>5, <1>6, ThreadStep, Zenon DEF Boots

(* One request is sent on a quiet socket. *)
LEMMA Sent ==
  ASSUME DOMAIN c2s = Ids, NEW s \in Ids, Quiet(s), NEW id, NEW x,
         Send(s, Message(id, x)), UNCHANGED s2c
  PROVE  /\ Asked(s, id)' /\ Head(c2s'[s]).arg = x
         /\ DOMAIN c2s' = Ids /\ \A t \in Ids \ {s} : c2s'[t] = c2s[t]
<1>1. /\ c2s'[s] = <<Message(id, x)>>
      /\ DOMAIN c2s' = Ids /\ \A t \in Ids \ {s} : c2s'[t] = c2s[t]
  BY One, Zenon DEF Send, Quiet
<1>2. Head(c2s'[s]) = Message(id, x) /\ c2s'[s] # <<>>
  BY <1>1, One, Zenon
<1> QED
  BY <1>1, <1>2 DEF Asked, Quiet, Message

(* The only reply is received. *)
LEMMA Received ==
  ASSUME DOMAIN s2c = Ids, NEW s \in Ids, NEW id, Told(s, id), Receive(s), UNCHANGED c2s
  PROVE  Quiet(s)' /\ DOMAIN s2c' = Ids /\ \A t \in Ids \ {s} : s2c'[t] = s2c[t]
<1>1. Tail(s2c[s]) = <<>>
  BY One, Zenon DEF Told
<1> QED
  BY <1>1, Zenon DEF Receive, Quiet, Told

(* Only one message may be there. *)
LEMMA ArrivedTold ==
  ASSUME NEW s, Wire(s), NEW id, Arrived(s, id), id # "S_INIT"
  PROVE  Told(s, id)
BY One, Two, Zenon DEF Wire, Arrived, Quiet, Asked, Told, Booted

Places == {"init", "config", "object", "run", "get", "thread",
           "process", "clone", "fork", "close", "gone"}

(* A thread goes on; nothing else but one socket changes. *)
LEMMA GotoStep ==
  ASSUME Conversation, NEW i \in Ids, NEW s \in Ids,
         Alive(i), pc[i] # "finalize", s = i \/ (pc[i] \in Boots /\ arg[i] = s),
         \A t \in Ids \ {s} : c2s'[t] = c2s[t] /\ s2c'[t] = s2c[t],
         DOMAIN c2s' = Ids, DOMAIN s2c' = Ids,
         NEW next \in Places, NEW n, IF next = "get" THEN n \in Addrs ELSE n \in 0 .. N,
         Goto(i, next, n),
         UNCHANGED <<proc, csock, hdr, sv, ssock>>,
         Wire(s)', Using(i)', Booting(i)',
         next \in Boots => \/ pc[i] \in Boots /\ n = arg[i]
                           \/ /\ Given(i, n) /\ s = i /\ n # i /\ ~Told(s, "S_FD")',
         \A m \in Ids : Given(s, m)' => Given(s, m)
  PROVE  Conversation'
<1>1. /\ pc'[i] = next /\ arg'[i] = n
      /\ \A j \in Ids \ {i} : pc'[j] = pc[j] /\ arg'[j] = arg[j]
  BY ConversationParts, Zenon DEF Goto, Typed
<1>2. Typed'
  <2>1. pc' \in [Ids -> {"none", "init", "config", "object", "run", "get", "thread",
                     "process", "clone", "fork", "close", "finalize", "gone"}]
    BY ConversationParts, Zenon DEF Typed, Goto, Places
  <2>2. \A j \in Ids : arg'[j] \in IF pc'[j] = "get" THEN Addrs ELSE 0 .. N
    BY <1>1, Zenon, ConversationParts DEF Typed
  <2> QED
    BY <2>1, <2>2, ConversationParts, Zenon DEF Typed, Goto
<1>3. Numbered'
  BY <1>1, ConversationParts DEF Numbered, Alive, Places
<1>4. \A t \in Ids \ {s} : Same(t)
  BY Zenon DEF Same
<1> QED
  BY <1>1, <1>2, <1>3, <1>4, ThreadStep, Zenon DEF Places

(* A thread that ends goes to a place of its own. *)
LEMMA EndIsGoto ==
  ASSUME Typed, NEW i \in Ids, End({i})
  PROVE  Goto(i, "gone", 0)
BY Zenon DEF Typed, End, Goto

(* A thread that gives up on another returns to the guest; the main thread *)
(* that gives up on itself ends.                                           *)
LEMMA ReturnIsGoto ==
  ASSUME Typed, NEW i \in Ids, NEW closes \in BOOLEAN, Return(i, closes)
  PROVE  IF arg[i] = i THEN Goto(i, "gone", 0) ELSE Goto(i, "run", 0)
BY EndIsGoto, Zenon DEF Return

(* The thread's own socket, as the code names it. *)
LEMMA OwnSocket ==
  ASSUME Conversation, NEW i \in Ids, Alive(i), pc[i] # "finalize"
  PROVE  /\ csock[i] = i /\ ssock[i] = i /\ hdr[i] = "UNKNOWN"
         /\ Served(i) <=> Serving(i)
         /\ Wire(i) /\ Using(i) /\ Booting(i) /\ Typed
<1>1. Numbered
  BY ConversationParts, Zenon
<1> QED
  BY <1>1, ServedIsServing, ConversationParts, Zenon DEF Numbered

(* The one message on a socket is received and the thread goes on. *)
LEMMA TakeStep ==
  ASSUME Conversation, NEW i \in Ids, NEW s \in Ids,
         Alive(i), pc[i] # "finalize", s = i \/ (pc[i] \in Boots /\ arg[i] = s),
         NEW id \in {"S_OBJECT", "S_FD"}, Told(s, id), Receive(s), UNCHANGED c2s,
         NEW next \in Places \ {"get"}, NEW n \in 0 .. N, Goto(i, next, n),
         UNCHANGED <<proc, csock, hdr, sv, ssock>>,
         Quiet(s)' => Using(i)' /\ Booting(i)',
         next \in Boots => \/ pc[i] \in Boots /\ n = arg[i]
                           \/ Given(i, n) /\ s = i /\ n # i
  PROVE  Conversation'
<1>1. Quiet(s)' /\ DOMAIN s2c' = Ids /\ \A t \in Ids \ {s} : s2c'[t] = s2c[t]
  BY Received, Zenon, ConversationParts DEF Typed
<1>2. sv[s] \in {"loop", "exited"}
  BY ConversationParts, Zenon DEF Wire, Told, Asked, Quiet
<1>3. Wire(s)' /\ \A m : ~Told(s, m)'
  BY <1>1, <1>2, Zenon DEF Wire, Told, Quiet
<1>4. \A m \in Ids : ~Given(s, m)'
  BY <1>3, Zenon DEF Given
<1>5. DOMAIN c2s' = Ids /\ \A t \in Ids \ {s} : c2s'[t] = c2s[t]
  BY ConversationParts, Zenon DEF Typed
<1> QED
  BY <1>1, <1>3, <1>4, <1>5, GotoStep, Zenon

(* A thread with nothing to remember has argument 0, which is no number. *)
LEMMA NoArgument ==
  0 \in 0 .. N /\ \A k \in Ids : k \in 0 .. N /\ k # 0
BY TranslatorAssumption DEF Ids

(* The thread gives up on the socket it was setting up. *)
LEMMA ReturnStep ==
  ASSUME Conversation, NEW i \in Ids, NEW s \in Ids, pc[i] \in Boots, s = arg[i],
         IF s = i THEN Goto(i, "gone", 0) ELSE Goto(i, "run", 0),
         \A t \in Ids \ {s} : c2s'[t] = c2s[t] /\ s2c'[t] = s2c[t],
         DOMAIN c2s' = Ids, DOMAIN s2c' = Ids,
         UNCHANGED <<proc, csock, hdr, sv, ssock>>,
         Wire(s)', \A m \in Ids : Given(s, m)' => Given(s, m)
  PROVE  Conversation'
<1>1. Alive(i) /\ pc[i] # "finalize" /\ Using(i) /\ Typed
  BY ConversationParts, Zenon DEF Alive, Boots, Booting
<1>2. PICK next \in {"gone", "run"} : Goto(i, next, 0) /\ (s = i => next = "gone")
  BY Zenon
<1>3. pc'[i] = next
  BY <1>1, <1>2, Zenon DEF Goto, Typed
<1>4. CASE next = "gone"
  BY <1>1, <1>2, <1>3, <1>4, NoArgument, GotoStep, Zenon DEF Using, Booting, Boots,
     Forking, Places
<1>5. CASE s # i /\ next = "run"
  <2>1. Same(i) /\ Idle(i)
    BY <1>5, <1>1, Zenon DEF Same, Using, Boots
  <2>2. Using(i)' /\ Booting(i)'
    BY <2>1, <1>3, <1>5, SameSocket, Zenon DEF Using, Booting, Boots, Forking
  <2> QED
    BY <1>1, <1>2, <1>5, <2>2, NoArgument, GotoStep, Zenon DEF Places, Boots
<1> QED
  BY <1>2, <1>4, <1>5, Zenon

(* The socket a thread is setting up. *)
LEMMA BootSocket ==
  ASSUME Conversation, NEW i \in Ids, pc[i] \in Boots
  PROVE  /\ Alive(i) /\ pc[i] # "finalize" /\ Typed /\ Using(i) /\ Booting(i)
         /\ arg[i] \in Ids /\ Wire(arg[i])
         /\ Served(arg[i]) <=> Serving(arg[i])
<1>1. Numbered /\ arg[i] \in Ids
  BY ConversationParts, Zenon DEF Booting
<1> QED
  BY <1>1, ServedIsServing, ConversationParts, Zenon DEF Alive, Boots

(* Thread k comes to life on the socket that thread i has set up. *)
LEMMA BirthStep ==
  ASSUME Conversation, NEW i \in Ids, pc[i] \in {"clone", "fork"},
         NEW k \in Ids, k = arg[i], Typed',
         pc'[i] \in {"run", "close"}, pc'[k] \in {"run", "finalize"},
         \A j \in Ids \ {i, k} : pc'[j] = pc[j],
         \A j \in Ids \ {i} : arg'[j] = arg[j],
         \A j \in Ids \ {k} : csock'[j] = csock[j],
         pc'[k] = "run" => csock'[k] = k,
         UNCHANGED <<hdr, c2s, s2c, sv, ssock>>
  PROVE  Conversation'
<1>1. /\ pc[i] \in Boots /\ Typed /\ Using(i) /\ Booting(i) /\ k # i
      /\ pc[k] = "none" /\ Idle(k) /\ Idle(i) /\ sv[k] # "none"
  BY ConversationParts, Zenon DEF Using, Booting, Boots
<1>2. Numbered'
  <2>1. Numbered
    BY ConversationParts, Zenon
  <2>2. ASSUME NEW j \in Ids, Alive(j)' PROVE csock'[j] = j \/ pc'[j] = "finalize"
    BY <2>1, <2>2 DEF Numbered, Alive
  <2>3. ASSUME NEW j \in Ids, pc'[j] # "none" PROVE sv'[j] # "none"
    BY <2>1, <2>3, <1>1 DEF Numbered
  <2> QED
    BY <2>1, <2>2, <2>3, Zenon DEF Numbered
<1>3. \A t \in Ids : Same(t)
  BY Zenon DEF Same
<1>4. ASSUME NEW t \in Ids
      PROVE  Wire(t)' /\ (Idle(t)' <=> Idle(t)) /\ \A n \in Ids : Given(t, n)' <=> Given(t, n)
  BY <1>3, SameSocket, ConversationParts, Zenon
<1>5. ASSUME NEW j \in Ids PROVE Using(j)'
  <2>1. CASE j \in {i, k}
    BY <2>1, <1>1, <1>4, Zenon DEF Using, Forking
  <2>2. CASE j \notin {i, k}
    <3>1. Using(j) /\ Same(j)
      BY <1>3, ConversationParts, Zenon
    <3> QED
      BY <3>1, <2>2, SameSocket, Zenon DEF Using, Forking, Same
  <2> QED
    BY <2>1, <2>2, Zenon
<1>6. ASSUME NEW j \in Ids, pc'[j] \in Boots
      PROVE  j \notin {i, k} /\ pc[j] \in Boots /\ arg'[j] = arg[j] /\ arg[j] # k
  <2>1. j \notin {i, k}
    BY <1>6, Zenon DEF Boots
  <2> QED
    BY <2>1, <1>6, <1>1, ConversationParts, Zenon
<1>7. ASSUME NEW j \in Ids PROVE Booting(j)'
  <2>1. CASE pc'[j] \notin Boots
    BY <2>1, Zenon DEF Booting, Boots
  <2>2. CASE pc'[j] \in Boots
    <3>1. /\ Booting(j) /\ arg[j] \in Ids /\ Same(arg[j])
          /\ arg'[j] = arg[j] /\ pc'[j] = pc[j]
      BY <2>2, <1>6, <1>3, ConversationParts, Zenon DEF Booting
    <3>2. arg[j] # j => pc'[arg[j]] = "none"
      BY <3>1, <2>2, <1>1, <1>6, Zenon DEF Booting, Boots
    <3> QED
      BY <3>1, <3>2, SameSocket, Zenon DEF Booting, Same
  <2> QED
    BY <2>1, <2>2, Zenon
<1>8. ASSUME NEW t \in Ids, NEW n \in Ids, Given(t, n)' PROVE HandedOver(t, n)'
  <2>1. HandedOver(t, n)
    BY <1>8, <1>4, ConversationParts, Zenon
  <2>2. pc'[n] = "none"
    BY <2>1, <1>1, Zenon DEF HandedOver, Boots
  <2> QED
    BY <2>1, <2>2, <1>4, <1>6, Zenon DEF HandedOver
<1> QED
  BY <1>2, <1>4, <1>5, <1>6, <1>7, <1>8, ConversationParts, ConversationFold, Zenon

(* What leaves threads, sockets and servers alone. *)
LEMMA GuestConversation ==
  ASSUME Conversation, UNCHANGED <<client, c2s, s2c, sv, ssock>>
  PROVE  Conversation'
<1>1. /\ \A t : Same(t)
      /\ \A i : (Alive(i)' <=> Alive(i)) /\ (Forking(i)' <=> Forking(i))
  BY Zenon DEF Same, Alive, Forking, client
<1>2. Typed' /\ Numbered'
  BY <1>1, ConversationParts, Zenon DEF Typed, Numbered, client
<1>3. \A s \in Ids : Wire(s)'
  BY <1>1, SameSocket, ConversationParts, Zenon
<1>4. \A i \in Ids : Using(i)'
  BY <1>1, SameSocket, ConversationParts, Zenon DEF Using, client
<1>5. \A i \in Ids : Booting(i)'
  BY <1>1, SameSocket, ConversationParts, Zenon DEF Booting, client
<1>6. \A s, n \in Ids : Given(s, n)' => HandedOver(s, n)'
  BY <1>1, SameSocket, ConversationParts, Zenon DEF HandedOver, client
<1> QED
  BY <1>2, <1>3, <1>4, <1>5, <1>6, ConversationParts, ConversationFold, Zenon DEF client

----------------------------------------------------------------------------
(* Server *)

(* What a server knows of its socket. *)
LEMMA ServerSocket ==
  ASSUME Conversation, NEW k \in Ids
  PROVE  /\ ssock[k] = k /\ Typed /\ Numbered /\ Wire(k) /\ Using(k)
         /\ \A i \in Ids : Booting(i)
BY ConversationParts, Zenon DEF Numbered

(* The requests a server finds, where it looks for them. *)
LEMMA IncomingAsked ==
  ASSUME NEW k, Wire(k), c2s[k] # <<>>
  PROVE  Asked(k, Head(c2s[k]).id)
BY Zenon DEF Wire, Quiet, Asked, Told, Booted

(* The types, when only one server and its streams change. *)
LEMMA ServerTypes ==
  ASSUME Typed, Numbered, NEW k \in Ids, UNCHANGED <<client, ssock>>,
         DOMAIN c2s' = Ids, DOMAIN s2c' = Ids,
         NEW v \in {"loop", "read", "membuf", "exited"}, sv' = [sv EXCEPT ![k] = v]
  PROVE  /\ Typed' /\ Numbered'
         /\ sv'[k] = v /\ \A t \in Ids \ {k} : sv'[t] = sv[t]
<1>1. sv'[k] = v /\ \A t \in Ids \ {k} : sv'[t] = sv[t]
  BY Zenon DEF Typed
<1>2. Typed'
  BY Zenon DEF Typed, client
<1>3. Numbered'
  BY <1>1, Zenon DEF Numbered, client, Alive
<1> QED
  BY <1>1, <1>2, <1>3, Zenon

(* A server ends, whether it has read its last request or not. *)
LEMMA ServerEnds ==
  ASSUME Conversation, NEW k \in Ids, sv' = [sv EXCEPT ![k] = "exited"],
         DOMAIN c2s' = Ids, c2s'[k] \in {c2s[k], <<>>},
         \A t \in Ids \ {k} : c2s'[t] = c2s[t],
         UNCHANGED <<client, s2c, ssock>>
  PROVE  Conversation'
<1>1. Typed /\ Numbered /\ Wire(k) /\ Using(k) /\ \A i \in Ids : Booting(i)
  BY ServerSocket, Zenon
<1>2. /\ Typed' /\ Numbered'
      /\ sv'[k] = "exited" /\ \A t \in Ids \ {k} : sv'[t] = sv[t]
  BY <1>1, ServerTypes, Zenon DEF Typed
<1>3. CASE c2s'[k] = c2s[k]
  <2>1. /\ (Quiet(k)' <=> Quiet(k)) /\ (Booted(k)' <=> Booted(k))
        /\ \A id : (Asked(k, id)' <=> Asked(k, id)) /\ (Told(k, id)' <=> Told(k, id))
        /\ \A n : Given(k, n)' <=> Given(k, n)
    BY <1>3, Zenon DEF Quiet, Booted, Asked, Told, Given, Arg
  <2>2. \A at, to : Ready(k, at) => Ready(k, to)'
    BY <1>2, Zenon DEF Ready
  <2>3. Wire(k)'
    BY <1>1, <1>2, <2>1, Zenon DEF Wire, Arg
  <2>4. Using(k)'
    BY <1>1, <1>3, <2>1, <2>2, Zenon DEF Using, Forking, Idle, client
  <2>5. \A i \in Ids : pc[i] \in Boots /\ arg[i] = k => Booting(i)'
    BY <1>1, <1>2, <2>1, <2>2, SMTT(20) DEF Booting, Idle, client
  <2>6. \A t \in Ids \ {k} : Same(t)
    BY <1>2, Zenon DEF Same
  <2> QED
    BY <1>2, <2>1, <2>2, <2>3, <2>4, <2>5, <2>6, ServerStep, Zenon DEF Idle, client
<1>4. CASE c2s'[k] = <<>> /\ c2s[k] # <<>>
  <2>1. Asked(k, Head(c2s[k]).id)
    BY <1>1, <1>4, IncomingAsked, Zenon
  <2>2. Quiet(k)' /\ \A at : Ready(k, at)'
    BY <2>1, <1>2, <1>4, Zenon DEF Quiet, Asked, Ready
  <2>3. Wire(k)' /\ \A n \in Ids : ~Given(k, n)'
    BY <2>2, <1>2, Zenon DEF Wire, Given, Told, Quiet
  <2>4. Using(k)'
    BY <1>1, <2>1, <2>2, Zenon DEF Using, Forking, Idle, client, Asked, Told
  <2>5. \A i \in Ids : pc[i] \in Boots /\ arg[i] = k => Booting(i)'
    BY <1>1, <1>2, <2>1, <2>2, SMTT(20) DEF Booting, Idle, client, Asked, Told
  <2>6. \A t \in Ids \ {k} : Same(t)
    BY <1>2, Zenon DEF Same
  <2> QED
    BY <1>2, <2>2, <2>3, <2>4, <2>5, <2>6, ServerStep, Zenon DEF Idle, client
<1> QED
  BY <1>3, <1>4, Zenon

(* A request is read, and answered if the client is there. *)
LEMMA Consumed ==
  ASSUME Typed, NEW k \in Ids, NEW id, Asked(k, id), ssock[k] = k, Consume(k)
  PROVE  /\ c2s'[k] = <<>> /\ DOMAIN c2s' = Ids
         /\ \A t \in Ids \ {k} : c2s'[t] = c2s[t]
<1>1. Tail(c2s[k]) = <<>>
  BY One, Zenon DEF Asked
<1> QED
  BY <1>1, Zenon DEF Consume, Typed

(* A server answers with one message. *)
LEMMA Replied ==
  ASSUME Typed, NEW k \in Ids, s2c[k] = <<>>, ssock[k] = k,
         NEW m, NEW next, Reply(k, <<m>>, next)
  PROVE  \/ /\ s2c'[k] = <<m>> /\ sv' = [sv EXCEPT ![k] = next]
            /\ DOMAIN s2c' = Ids /\ \A t \in Ids \ {k} : s2c'[t] = s2c[t]
         \/ UNCHANGED s2c /\ sv' = [sv EXCEPT ![k] = "exited"]
BY One DEF Reply, Typed

(* What a reply does to its socket and its server, and to no other. *)
LEMMA ReplyParts ==
  ASSUME Typed, NEW k \in Ids, ssock[k] = k, NEW ms, NEW next, Reply(k, ms, next)
  PROVE  /\ \A t \in Ids \ {k} : s2c'[t] = s2c[t] /\ sv'[t] = sv[t]
         /\ \/ s2c'[k] = s2c[k] \o ms /\ sv'[k] = next
            \/ s2c'[k] = s2c[k] /\ sv'[k] = "exited"
<1>1. CASE s2c' = [s2c EXCEPT ![k] = @ \o ms] /\ sv' = [sv EXCEPT ![k] = next]
  BY <1>1, Zenon DEF Typed
<1>2. CASE UNCHANGED s2c /\ sv' = [sv EXCEPT ![k] = "exited"]
  BY <1>2, Zenon DEF Typed
<1> QED BY <1>1, <1>2, Zenon DEF Reply

(* The same for one message on an empty stream. *)
LEMMA ReplyOne ==
  ASSUME Typed, NEW k \in Ids, s2c[k] = <<>>, ssock[k] = k, NEW m, NEW next, Reply(k, <<m>>, next)
  PROVE  /\ \A t \in Ids \ {k} : s2c'[t] = s2c[t] /\ sv'[t] = sv[t]
         /\ \/ s2c'[k] = <<m>> /\ sv'[k] = next
            \/ s2c'[k] = <<>> /\ sv'[k] = "exited"
<1>1. <<>> \o <<m>> = <<m>>
  BY One, Zenon
<1> QED BY <1>1, ReplyParts, Zenon

(* Replies are told apart. *)
LEMMA Replies ==
  /\ "S_FD" # "S_OBJECT" /\ "S_FD" # "S_MEMREQ"
  /\ "S_MEMREQ" # "S_OBJECT" /\ "S_MEMREQ" # "S_FD" /\ "S_OBJECT" # "S_FD"
OBVIOUS

(* The stream to a client holds this message at most. *)
AtMost(s, id, x) == s2c[s] \in {<<>>, <<Message(id, x)>>}

(* Then the client is told nothing else. *)
LEMMA ToldOne ==
  ASSUME NEW k, NEW id, NEW x, AtMost(k, id, x)'
  PROVE  \A n : Told(k, n)' => n = id /\ Head(s2c'[k]).arg = x
<1>1. Message(id, x).id = id /\ Message(id, x).arg = x
  BY Zenon DEF Message
<1>2. Head(<<Message(id, x)>>) = Message(id, x)
  BY One, Zenon
<1> QED BY <1>1, <1>2, Zenon DEF Told, AtMost

(* The server goes on at v with its socket in a new state. *)
LEMMA ServerGoesOn ==
  ASSUME Conversation, NEW k \in Ids, UNCHANGED <<client, ssock>>,
         NEW v \in {"loop", "read", "membuf"}, sv' = [sv EXCEPT ![k] = v],
         DOMAIN c2s' = Ids, DOMAIN s2c' = Ids,
         \A t \in Ids \ {k} : c2s'[t] = c2s[t] /\ s2c'[t] = s2c[t],
         sv[k] \in {"init", "loop", "read", "membuf"}, ~Ready(k, {"loop"}),
         sv'[k] = v => Wire(k)' /\ Using(k)',
         \A i \in Ids : pc[i] = "config" /\ arg[i] = k => Booted(k)',
         \A i \in Ids : arg[i] = k => pc[i] \notin {"init", "object"},
         \A n \in Ids : ~Given(k, n)'
  PROVE  Conversation'
<1>1. Typed /\ Numbered /\ \A i \in Ids : Booting(i)
  BY ServerSocket, Zenon
<1>2. /\ Typed' /\ Numbered'
      /\ sv'[k] = v /\ \A t \in Ids \ {k} : sv'[t] = sv[t]
  BY <1>1, ServerTypes, Zenon
<1>3. \A t \in Ids \ {k} : Same(t)
  BY <1>2, Zenon DEF Same
<1>4. ASSUME NEW i \in Ids, pc[i] \in Boots, arg[i] = k PROVE Booting(i)'
  BY <1>1, <1>2, <1>4, Zenon DEF Booting, Boots, Idle, client
<1> QED
  BY <1>2, <1>3, <1>4, ServerStep, Zenon DEF Idle, client

(* While a call of translator_get is under way nobody sets up the socket.  *)
LEMMA Translating ==
  ASSUME Conversation, NEW k \in Ids,
         Asked(k, "C_TRANSLATE") \/ Asked(k, "C_FORK") \/ Asked(k, "C_MEMBUF") \/ sv[k] = "read",
         sv[k] \in {"loop", "read", "membuf"}
  PROVE  /\ \A i \in Ids : arg[i] = k => pc[i] \notin Boots
         /\ ~Ready(k, {"loop"})
         /\ pc[k] \in {"none", "gone", "get", "thread", "process"}
         /\ Asked(k, "C_FORK") => pc[k] # "get"
         /\ ~Asked(k, "C_FORK") => ~Forking(k)
<1>1. Wire(k) /\ Using(k) /\ Typed /\ \A i \in Ids : Booting(i)
  BY ServerSocket, Zenon
<1>2. ~Ready(k, {"loop"}) /\ ~Ready(k, {}) /\ ~Ready(k, {"init", "loop"}) /\ ~Idle(k)
  BY Zenon DEF Ready, Asked, Idle
<1>3. ~Booted(k) /\ ~Asked(k, "C_INIT") /\ \A id : ~Told(k, id)
  BY <1>1, Zenon DEF Wire, Asked, Told, Booted, Quiet
<1>4. \A i \in Ids : arg[i] = k => pc[i] \notin Boots
  BY <1>1, <1>2, <1>3, Zenon DEF Booting, Boots
<1>5. pc[k] \in {"none", "gone", "get", "thread", "process"}
  BY <1>1, <1>2, <1>4, Zenon DEF Using, Typed, Boots
<1>6. Asked(k, "C_FORK") => pc[k] # "get"
  BY <1>1, <1>3, Zenon DEF Using, Asked, Told, Ready
<1>7. ~Asked(k, "C_FORK") => ~Forking(k)
  BY <1>1, <1>2, <1>3, Zenon DEF Using
<1> QED
  BY <1>2, <1>4, <1>5, <1>6, <1>7, Zenon

(* A reply to translator_get. *)
LEMMA Answers ==
  ASSUME Conversation, NEW k \in Ids, sv[k] \in {"read", "membuf"}, s2c[k] = <<>>,
         sv[k] = "membuf" => Asked(k, "C_MEMBUF"),
         c2s'[k] = <<>>, DOMAIN c2s' = Ids, \A t \in Ids \ {k} : c2s'[t] = c2s[t],
         UNCHANGED <<client, ssock>>,
         NEW id \in {"S_MEMREQ", "S_OBJECT"}, NEW x, NEW next \in {"membuf", "loop"},
         next = (IF id = "S_OBJECT" THEN "loop" ELSE "membuf"),
         Reply(k, <<Message(id, x)>>, next)
  PROVE  Conversation'
<1>1. ssock[k] = k /\ Typed /\ Wire(k)
  BY ServerSocket, Zenon
<1>2. CASE UNCHANGED s2c /\ sv' = [sv EXCEPT ![k] = "exited"]
  BY <1>2, ServerEnds, Zenon
<1>3. CASE /\ s2c'[k] = <<Message(id, x)>> /\ sv' = [sv EXCEPT ![k] = next]
           /\ DOMAIN s2c' = Ids /\ \A t \in Ids \ {k} : s2c'[t] = s2c[t]
  <2>1. Told(k, id)'
    <3>1. Head(s2c'[k]) = Message(id, x) /\ s2c'[k] # <<>>
      BY <1>3, One, Zenon
    <3> QED
      BY <1>3, <3>1 DEF Told, Message
  <2>2. /\ \A i \in Ids : arg[i] = k => pc[i] \notin Boots
        /\ ~Ready(k, {"loop"}) /\ pc[k] \in {"none", "gone", "get"}
    <3>1. ~Asked(k, "C_FORK")
      BY <1>1, Zenon DEF Wire, Quiet, Asked, Told
    <3> QED
      BY <3>1, Translating, Zenon DEF Forking
  <2>3. sv'[k] = next => Wire(k)'
    BY <2>1, Zenon DEF Wire
  <2>4. Using(k)'
    BY <2>1, <2>2, Zenon DEF Using, Forking, client
  <2>5. \A n \in Ids : ~Given(k, n)'
    BY <2>1, Zenon DEF Given, Told
  <2> QED
    BY <1>3, <2>2, <2>3, <2>4, <2>5, ServerGoesOn, Zenon DEF Boots
<1> QED
  BY <1>1, <1>2, <1>3, Replied, Zenon

(* C_FORK makes server n and socket n, which nobody had before. *)
LEMMA ForkStep ==
  ASSUME Conversation, NEW k \in Ids, NEW n \in Ids, sv[n] = "none",
         sv[k] = "loop", Asked(k, "C_FORK"), Typed', Numbered',
         c2s'[k] = <<>>, sv'[n] = "loop",
         \/ Told(k, "S_FD")' /\ Head(s2c'[k]).arg = n /\ sv'[k] = "loop"
         \/ s2c'[k] = <<>> /\ sv'[k] = "exited",
         \A t \in Ids \ {k} : c2s'[t] = c2s[t] /\ s2c'[t] = s2c[t],
         \A t \in Ids \ {k, n} : sv'[t] = sv[t],
         UNCHANGED <<pc, arg>>
  PROVE  Conversation'
<1>1. /\ \A i \in Ids : arg[i] = k => pc[i] \notin Boots
      /\ ~Ready(k, {"loop"}) /\ pc[k] \in {"none", "gone", "thread", "process"}
  BY Translating, Zenon
<1>2. n # k /\ pc[n] = "none" /\ Quiet(n)
  BY ConversationParts, Zenon DEF Numbered, Wire
<1>3. \A i \in Ids : pc[i] \in Boots => arg[i] # n
  BY ConversationParts, Zenon DEF Booting
<1>4. \A t \in Ids \ {k, n} : Same(t)
  BY Zenon DEF Same
<1>5. Idle(n)' /\ Quiet(n)'
  BY <1>2, Zenon DEF Idle, Ready, Quiet
<1>6. \A r \in Ids : ~Given(r, n)
  BY ConversationParts, Zenon DEF HandedOver, Idle, Ready
<1>7. ASSUME NEW r \in Ids, NEW m \in Ids, Given(r, m)'
      PROVE  \/ r = k /\ m = n
             \/ r \notin {k, n} /\ Given(r, m) /\ m \notin {k, n}
  <2>1. CASE r = k
    BY <2>1, <1>7, Zenon DEF Given, Told, Arg
  <2>2. CASE r = n
    BY <2>2, <1>7, <1>5, Zenon DEF Given, Told, Quiet
  <2>3. CASE r \notin {k, n}
    <3>1. Given(r, m)
      BY <2>3, <1>4, <1>7, SameSocket, Zenon
    <3> QED
      BY <3>1, <2>3, <1>1, <1>6, ConversationParts, Zenon DEF
         HandedOver, Idle
  <2> QED
    BY <2>1, <2>2, <2>3, Zenon
<1>8. ASSUME NEW t \in Ids PROVE Wire(t)'
  <2>1. CASE t = k
    <3>1. Arg(k)' \in 0 .. N \/ s2c'[k] = <<>>
      BY NoArgument, Zenon DEF Arg
    <3> QED
      BY <2>1, <3>1, Zenon DEF Wire, Quiet
  <2>2. CASE t = n
    BY <2>2, <1>5, Zenon DEF Wire
  <2>3. CASE t \notin {k, n}
    BY <2>3, <1>4, SameSocket, ConversationParts, Zenon
  <2> QED
    BY <2>1, <2>2, <2>3, Zenon
<1>9. ASSUME NEW j \in Ids PROVE Using(j)'
  <2>1. CASE j = k
    BY <2>1, <1>1, Zenon DEF Using, Forking, Ready
  <2>2. CASE j = n
    BY <2>2, <1>2, Zenon DEF Using, Forking
  <2>3. CASE j \notin {k, n}
    <3>1. Same(j) /\ Using(j)
      BY <2>3, <1>4, ConversationParts, Zenon
    <3> QED
      BY <3>1, SameSocket, Zenon DEF Using, Forking, Same
  <2> QED
    BY <2>1, <2>2, <2>3, Zenon
<1>10. ASSUME NEW j \in Ids PROVE Booting(j)'
  <2>1. CASE pc[j] \notin Boots
    BY <2>1, Zenon DEF Booting, Boots
  <2>2. CASE pc[j] \in Boots
    <3>1. Booting(j) /\ Same(arg[j])
      BY <2>2, <1>1, <1>3, <1>4, ConversationParts, Zenon DEF Booting
    <3> QED
      BY <3>1, SameSocket, Zenon DEF Booting, Same
  <2> QED
    BY <2>1, <2>2, Zenon
<1>11. ASSUME NEW t \in Ids, NEW m \in Ids, Given(t, m)' PROVE HandedOver(t, m)'
  <2>1. CASE t = k /\ m = n
    BY <2>1, <1>2, <1>3, <1>5, <1>6, <1>7, Zenon DEF HandedOver
  <2>2. CASE t \notin {k, n} /\ Given(t, m) /\ m \notin {k, n}
    <3>1. HandedOver(t, m) /\ Same(m)
      BY <2>2, <1>4, ConversationParts, Zenon
    <3> QED
      BY <3>1, <2>2, <1>7, SameSocket, Zenon DEF HandedOver
  <2> QED
    BY <2>1, <2>2, <1>7, <1>11, Zenon
<1> QED
  BY <1>8, <1>9, <1>10, <1>11, ConversationParts, ConversationFold, Zenon

----------------------------------------------------------------------------
(* The first layer *)

(* At first there are the main thread and its server, in a fresh socket. *)
LEMMA InitConversation == Init => Conversation
<1> SUFFICES ASSUME Init PROVE Conversation
  BY Zenon
<1>1. 1 \in Ids /\ N \in Nat
  BY TranslatorAssumption DEF Ids
<1>2. Typed /\ Numbered
  BY <1>1 DEF Init, Typed, Numbered, Alive, Ids
<1>3. \A s \in Ids : Quiet(s) /\ sv[s] \in {"none", "init"}
  BY Zenon DEF Init, Quiet
<1>4. \A s \in Ids : Wire(s)
  BY <1>3, Zenon DEF Wire
<1>5. \A i \in Ids : /\ pc[i] \in {"none", "init"}
                     /\ pc[i] = "init" => i = 1 /\ arg[i] = 1 /\ sv[1] = "init"
  BY Zenon DEF Init
<1>6. \A i \in Ids : Using(i)
  BY <1>5, Zenon DEF Using, Forking
<1>7. \A i \in Ids : Booting(i)
  BY <1>1, <1>3, <1>5, Zenon DEF Booting, Boots, Ready, Quiet
<1>8. \A i, j \in Ids : pc[i] \in Boots /\ pc[j] \in Boots /\ arg[i] = arg[j] => i = j
  BY <1>5, Zenon DEF Boots
<1>9. \A s, n \in Ids : ~Given(s, n)
  BY <1>3, Zenon DEF Given, Told, Quiet
<1> QED
  BY <1>2, <1>4, <1>6, <1>7, <1>8, <1>9, Zenon DEF Conversation

(* Every step keeps the conversation: one step of the proof per action. *)
LEMMA NextConversation ==
  ASSUME Conversation, [Next]_vars
  PROVE  Conversation'
<1>Ask. ASSUME NEW i \in Ids, NEW a \in Addrs, Ask(i, a) PROVE Conversation'
  <2> USE <1>Ask
  <2>1. pc[i] = "run" /\ Alive(i)
    BY Zenon DEF Ask, Alive
  <2>2. csock[i] = i /\ hdr[i] = "UNKNOWN" /\ (Served(i) <=> Serving(i)) /\ Idle(i) /\ Typed
    BY <2>1, OwnSocket, Zenon DEF Using
  <2>3. CASE ~Served(i)
    <3>1. End({i}) /\ UNCHANGED <<proc, csock, hdr, c2s, s2c, sv, ssock>>
      BY <2>3, <2>2, Zenon DEF Ask, server
    <3> QED
      BY <3>1, <2>1, EndStep, Zenon
  <2>4. CASE Served(i)
    <3>1. /\ Send(i, Message("C_TRANSLATE", a)) /\ Goto(i, "get", a)
          /\ UNCHANGED <<proc, csock, hdr, s2c, sv, ssock>>
      BY <2>4, <2>2, Zenon DEF Ask, server
    <3>2. Quiet(i) /\ sv[i] = "loop"
      BY <2>4, <2>2, Zenon DEF Serving, Idle, Ready, Quiet
    <3>3. /\ Asked(i, "C_TRANSLATE")' /\ Head(c2s'[i]).arg = a
          /\ DOMAIN c2s' = Ids /\ \A t \in Ids \ {i} : c2s'[t] = c2s[t]
      BY <3>1, <3>2, <2>2, Sent, Zenon DEF Typed
    <3>4. pc'[i] = "get" /\ arg'[i] = a
      BY <3>1, <2>2, Zenon DEF Goto, Typed
    <3>5. Wire(i)'
      BY <3>1, <3>2, <3>3, Zenon DEF Wire
    <3>6. \A m \in Ids : ~Given(i, m)'
      BY <3>1, <3>2, <3>3, Zenon DEF Asked, Told, Given
    <3>7. Using(i)' /\ Booting(i)'
      BY <3>3, <3>4, Zenon DEF Using, Booting, Boots, Forking
    <3> QED
      BY <2>1, <2>2, <3>1, <3>3, <3>5, <3>6, <3>7, GotoStep, Zenon DEF Places, Boots,
         Typed
  <2> QED
    BY <2>3, <2>4, Zenon
<1>ServePage. ASSUME NEW i \in Ids, ServePage(i) PROVE Conversation'
  <2> USE <1>ServePage
  <2>1. pc[i] = "get" /\ Alive(i)
    BY Zenon DEF ServePage, Alive
  <2>2. csock[i] = i /\ Wire(i) /\ Booting(i) /\ Typed
    BY <2>1, OwnSocket, Zenon
  <2>3. Told(i, "S_MEMREQ") /\ sv[i] \in {"membuf", "exited"}
    <3>1. Told(i, "S_MEMREQ")
      BY <2>2, ArrivedTold, Zenon DEF ServePage
    <3> QED
      BY <3>1, <2>2, Zenon DEF Wire, Told, Asked, Quiet, Booted
  <2> DEFINE v == mem[proc[i]][Arg(i)]
  <2>4. /\ Receive(i) /\ Send(i, Message("C_MEMBUF", v))
        /\ UNCHANGED <<client, sv, ssock>>
    BY <2>2, Zenon DEF ServePage, server
  <2> HIDE DEF v
  <2>5. /\ s2c'[i] = <<>> /\ c2s'[i] = <<Message("C_MEMBUF", v)>>
        /\ DOMAIN c2s' = Ids /\ DOMAIN s2c' = Ids
        /\ \A t \in Ids \ {i} : c2s'[t] = c2s[t] /\ s2c'[t] = s2c[t]
    <3>1. Tail(s2c[i]) = <<>> /\ c2s[i] = <<>>
      BY <2>3, One, Zenon DEF Told
    <3> QED
      BY <3>1, <2>4, <2>2, One, Zenon DEF Receive, Send, Typed
  <2>6. Asked(i, "C_MEMBUF")'
    BY <2>5, One DEF Asked, Message
  <2>7. Wire(i)'
    BY <2>6, <2>3, <2>4, Zenon DEF Wire
  <2>8. \A m \in Ids : ~Given(i, m)'
    BY <2>6, Zenon DEF Asked, Told, Given
  <2>9. Using(i)' /\ Booting(i)'
    BY <2>6, <2>4, <2>1, Zenon DEF Using, Booting, Boots, Forking, client
  <2>10. Typed' /\ Numbered'
    BY <2>5, <2>4, ConversationParts DEF Typed, Numbered, client, Alive
  <2>11. \A t \in Ids \ {i} : Same(t)
    BY <2>5, <2>4, Zenon DEF Same
  <2> QED
    BY <2>1, <2>4, <2>7, <2>8, <2>9, <2>10, <2>11, ThreadStep, Zenon DEF client, Boots
<1>TakeObject. ASSUME NEW i \in Ids, TakeObject(i) PROVE Conversation'
  <2> USE <1>TakeObject
  <2>1. pc[i] = "get" /\ Alive(i)
    BY Zenon DEF TakeObject, Alive
  <2>2. csock[i] = i /\ Wire(i) /\ Typed
    BY <2>1, OwnSocket, Zenon
  <2>3. Told(i, "S_OBJECT")
    BY <2>2, ArrivedTold, Zenon DEF TakeObject
  <2>4. /\ Receive(i) /\ UNCHANGED <<c2s, proc, csock, hdr, sv, ssock>>
        /\ \E next \in {"gone", "run"} : Goto(i, next, 0)
    BY <2>2, EndIsGoto, Zenon DEF TakeObject, server
  <2>5. PICK next \in {"gone", "run"} : Goto(i, next, 0)
    BY <2>4, Zenon
  <2>6. sv[i] \in {"loop", "exited"}
    BY <2>2, <2>3, Zenon DEF Wire, Told, Asked, Quiet
  <2>7. pc'[i] \in {"gone", "run"}
    BY <2>5, <2>2, Zenon DEF Goto, Typed
  <2>8. Quiet(i)' => Using(i)' /\ Booting(i)'
    BY <2>7, <2>6, <2>4, Zenon DEF Using, Booting, Boots, Forking, Idle, Ready, Quiet
  <2> QED
    BY <2>1, <2>3, <2>4, <2>5, <2>8, NoArgument, TakeStep, Zenon DEF Places, Boots
(* Neither side is ever sent what it does not expect, so a call that fails *)
(* has met the end of the stream.                                          *)
<1>GetFails. ASSUME NEW i \in Ids, GetFails(i) PROVE Conversation'
  <2> USE <1>GetFails
  <2>1. pc[i] = "get" /\ Alive(i)
    BY Zenon DEF GetFails, Alive
  <2>2. csock[i] = i /\ Using(i)
    BY <2>1, OwnSocket, Zenon
  <2>3. s2c[i] = <<>>
    BY <2>1, <2>2, Zenon DEF GetFails, Using, Asked, Told, Ready, Arrived
  <2>4. End({i}) /\ UNCHANGED <<proc, csock, hdr, c2s, s2c, sv, ssock>>
    BY <2>2, <2>3, Zenon DEF GetFails, server
  <2> QED
    BY <2>1, <2>4, EndStep, Zenon
<1>AskFork. ASSUME NEW i \in Ids, NEW what \in {"thread", "process"}, AskFork(i, what)
            PROVE  Conversation'
  <2> USE <1>AskFork
  <2>1. pc[i] = "run" /\ Alive(i)
    BY Zenon DEF AskFork, Alive
  <2>2. csock[i] = i /\ (Served(i) <=> Serving(i)) /\ Idle(i) /\ Typed
    BY <2>1, OwnSocket, Zenon DEF Using
  <2>3. /\ Send(i, Message("C_FORK", 0)) /\ Goto(i, what, 0)
        /\ UNCHANGED <<proc, csock, hdr, s2c, sv, ssock>>
    BY <2>2, Zenon DEF AskFork, server
  <2>4. Quiet(i) /\ sv[i] = "loop"
    BY <2>2, Zenon DEF AskFork, Serving, Idle, Ready, Quiet
  <2>5. /\ Asked(i, "C_FORK")'
        /\ DOMAIN c2s' = Ids /\ \A t \in Ids \ {i} : c2s'[t] = c2s[t]
    BY <2>3, <2>4, <2>2, Sent, Zenon DEF Typed
  <2>6. pc'[i] = what
    BY <2>3, <2>2, Zenon DEF Goto, Typed
  <2>7. Wire(i)'
    BY <2>3, <2>4, <2>5, Zenon DEF Wire
  <2>8. \A m \in Ids : ~Given(i, m)'
    BY <2>5, Zenon DEF Asked, Told, Given
  <2>9. Using(i)' /\ Booting(i)'
    BY <2>5, <2>6, Zenon DEF Using, Booting, Boots, Forking
  <2> QED
    BY <2>1, <2>2, <2>3, <2>5, <2>7, <2>8, <2>9, NoArgument, GotoStep, SMTT(20)
       DEF Places, Boots, Typed
<1>TakeFd. ASSUME NEW i \in Ids, TakeFd(i) PROVE Conversation'
  <2> USE <1>TakeFd
  <2>1. Forking(i) /\ Alive(i) /\ pc[i] # "finalize"
    BY Zenon DEF TakeFd, Forking, Alive
  <2>2. csock[i] = i /\ Wire(i) /\ Typed
    BY <2>1, OwnSocket, Zenon
  <2>3. Told(i, "S_FD")
    BY <2>2, ArrivedTold, Zenon DEF TakeFd
  <2>4. Arg(i) \in 0 .. N /\ sv[i] \in {"loop", "exited"}
    BY <2>2, <2>3, Zenon DEF Wire, Told, Asked, Quiet, Booted
  <2>5. Receive(i) /\ UNCHANGED <<c2s, proc, csock, hdr, sv, ssock>>
    BY <2>2, Zenon DEF TakeFd, server
  <2>6. CASE Arg(i) = 0
    <3>1. Goto(i, "run", 0) /\ pc'[i] = "run"
      BY <2>6, <2>2, Zenon DEF TakeFd, Goto, Typed
    <3>2. Quiet(i)' => Using(i)' /\ Booting(i)'
      BY <3>1, <2>4, <2>5, Zenon DEF Using, Booting, Boots, Forking, Idle, Ready, Quiet
    <3> QED
      BY <2>1, <2>3, <2>5, <3>1, <3>2, NoArgument, TakeStep, Zenon DEF Places, Boots
  <2>7. CASE Arg(i) # 0
    <3>0. Arg(i) \in Ids
      BY <2>7, <2>4, TranslatorAssumption DEF Ids
    <3>1. PICK k \in Ids, next \in {"init", "fork"} : k = Arg(i) /\ Goto(i, next, k)
      BY <2>7, <2>2, <3>0, Zenon DEF TakeFd
    <3>2. Given(i, k) /\ HandedOver(i, k)
      BY <2>3, <3>1, ConversationParts, Zenon DEF Given
    <3>3. k # i /\ pc[k] = "none" /\ Idle(k)
      BY <3>2, <2>1, Zenon DEF HandedOver, Forking
    <3>4. pc'[i] \in {"init", "fork"} /\ arg'[i] = k /\ pc'[k] = "none"
      BY <3>1, <3>3, <2>2, Zenon DEF Goto, Typed
    <3>5. Same(k)
      BY <3>1, <3>3, <2>5, <2>2, Zenon DEF Same, Receive, Typed
    <3>6. Idle(k)' /\ Ready(k, {"init", "loop"})' /\ sv'[k] # "none"
      BY <3>3, <3>5, SameSocket, Zenon DEF Idle, Ready
    <3>7. Booting(i)'
      BY <3>1, <3>3, <3>4, <3>6, Zenon DEF Booting
    <3>8. Quiet(i)' => Using(i)'
      BY <3>4, <2>4, <2>5, Zenon DEF Using, Forking, Idle, Ready, Quiet
    <3>9. k \in 0 .. N /\ next \in Places \ {"get"}
      BY <3>1, NoArgument, Zenon DEF Places
    <3> QED
      BY <2>1, <2>3, <2>5, <3>1, <3>2, <3>3, <3>7, <3>8, <3>9, TakeStep, Zenon
  <2> QED
    BY <2>6, <2>7, Zenon
<1>FdFails. ASSUME NEW i \in Ids, FdFails(i) PROVE Conversation'
  <2> USE <1>FdFails
  <2>1. Forking(i) /\ Alive(i) /\ pc[i] # "finalize"
    BY Zenon DEF FdFails, Forking, Alive
  <2>2. csock[i] = i /\ Wire(i) /\ Using(i) /\ Typed /\ (Served(i) <=> Serving(i))
    BY <2>1, OwnSocket, Zenon
  <2>3. s2c[i] = <<>>
    BY <2>1, <2>2, Zenon DEF FdFails, Using, Asked, Told, Ready, Arrived
  <2>4. Goto(i, "run", 0) /\ UNCHANGED <<proc, csock, hdr, c2s, s2c, sv, ssock>> /\ ~Serving(i)
    BY <2>2, <2>3, Zenon DEF FdFails, server, Eof
  <2>5. sv[i] = "exited"
    BY <2>1, <2>2, <2>4, Zenon DEF Using, Wire, Serving, Asked, Told, Quiet, Ready, Booted
  <2>6. \A t \in Ids : Same(t)
    BY <2>4, Zenon DEF Same
  <2>7. Wire(i)' /\ \A m \in Ids : Given(i, m)' => Given(i, m)
    BY <2>6, <2>2, SameSocket, Zenon
  <2>8. pc'[i] = "run"
    BY <2>4, <2>2, Zenon DEF Goto, Typed
  <2>9. Using(i)' /\ Booting(i)'
    BY <2>8, <2>4, <2>3, <2>5, Zenon DEF Using, Booting, Boots, Forking, Idle, Ready
  <2> QED
    BY <2>1, <2>2, <2>4, <2>7, <2>9, NoArgument, GotoStep, Zenon DEF Places, Boots, Typed
<1>SendInit. ASSUME NEW i \in Ids, SendInit(i) PROVE Conversation'
  <2> USE <1>SendInit
  <2>1. pc[i] = "init" /\ pc[i] \in Boots
    BY Zenon DEF SendInit, Boots
  <2>2. PICK s \in Ids : s = arg[i]
    BY <2>1, BootSocket, Zenon
  <2>3. /\ Alive(i) /\ pc[i] # "finalize" /\ Typed /\ Using(i) /\ Booting(i)
        /\ Wire(s) /\ (Served(s) <=> Serving(s))
    BY <2>1, <2>2, BootSocket, Zenon
  <2>4. UNCHANGED <<proc, csock, hdr, s2c, sv, ssock>>
    BY Zenon DEF SendInit, server
  <2>5. CASE ~Served(s)
    <3>1. Return(i, TRUE) /\ UNCHANGED c2s
      BY <2>5, <2>2, Zenon DEF SendInit
    <3>2. \A t \in Ids : Same(t)
      BY <3>1, <2>4, Zenon DEF Same
    <3>3. IF s = i THEN Goto(i, "gone", 0) ELSE Goto(i, "run", 0)
      BY <3>1, <2>2, <2>3, ReturnIsGoto, Zenon
    <3> QED
      BY <3>1, <3>2, <3>3, <2>1, <2>2, <2>3, <2>4, SameSocket, ReturnStep, Zenon DEF Typed
  <2>6. CASE Served(s)
    <3>1. Send(s, Message("C_INIT", 0)) /\ Goto(i, "config", s)
      BY <2>6, <2>2, Zenon DEF SendInit
    <3>2. Quiet(s) /\ sv[s] \in {"init", "loop"}
      BY <2>6, <2>1, <2>2, <2>3, Zenon DEF Serving, Booting, Ready, Quiet
    <3>3. /\ Asked(s, "C_INIT")'
          /\ DOMAIN c2s' = Ids /\ \A t \in Ids \ {s} : c2s'[t] = c2s[t]
      BY <3>1, <3>2, <2>3, <2>4, Sent, Zenon DEF Typed
    <3>4. /\ pc'[i] = "config" /\ arg'[i] = s
          /\ \A j \in Ids \ {i} : pc'[j] = pc[j]
      BY <3>1, <2>3, Zenon DEF Goto, Typed
    <3>5. Wire(s)'
      BY <3>2, <3>3, <2>4, Zenon DEF Wire
    <3>6. \A m \in Ids : ~Given(s, m)'
      BY <3>3, Zenon DEF Asked, Told, Given
    <3>7. Using(i)'
      <4>1. CASE s = i
        BY <4>1, <3>4, Zenon DEF Using, Forking
      <4>2. CASE s # i
        <5>1. Same(i) /\ Idle(i)
          BY <4>2, <3>3, <2>1, <2>2, <2>3, <2>4, Zenon DEF Same, Using
        <5> QED
          BY <5>1, <3>4, SameSocket, Zenon DEF Using, Forking
      <4> QED
        BY <4>1, <4>2, Zenon
    <3>8. Booting(i)'
      BY <3>3, <3>4, <3>2, <2>4, <2>1, <2>2, <2>3, Zenon DEF Booting
    <3> QED
      BY <2>1, <2>2, <2>3, <2>4, <3>1, <3>3, <3>5, <3>6, <3>7, <3>8, NoArgument, GotoStep,
         Zenon DEF Places, Typed
  <2> QED
    BY <2>5, <2>6, Zenon
<1>TakeConfig. ASSUME NEW i \in Ids, TakeConfig(i) PROVE Conversation'
  <2> USE <1>TakeConfig
  <2>1. pc[i] = "config" /\ pc[i] \in Boots
    BY Zenon DEF TakeConfig, Boots
  <2>2. PICK s \in Ids : s = arg[i]
    BY <2>1, BootSocket, Zenon
  <2>3. /\ Alive(i) /\ pc[i] # "finalize" /\ Typed /\ Using(i) /\ Booting(i) /\ Wire(s)
    BY <2>1, <2>2, BootSocket, Zenon
  <2>4. UNCHANGED <<proc, csock, hdr, c2s, sv, ssock>> /\ Receive(s)
    BY <2>2, Zenon DEF TakeConfig, server
  <2>5. Booted(s) /\ sv[s] \in {"loop", "exited"}
    BY <2>1, <2>2, <2>3, Zenon DEF TakeConfig, Arrived, Booting, Wire, Asked, Ready, Told,
       Quiet, Booted
  <2>6. /\ s2c'[s] = <<Head(Tail(s2c[s]))>>
        /\ DOMAIN s2c' = Ids /\ \A t \in Ids \ {s} : s2c'[t] = s2c[t]
    BY <2>3, <2>4, <2>5, Two, Zenon DEF Receive, Booted, Typed
  <2>7. Told(s, "S_OBJECT")'
    BY <2>4, <2>5, <2>6, One, Zenon DEF Told, Booted
  <2>8. Wire(s)'
    BY <2>4, <2>5, <2>7, Zenon DEF Wire
  <2>9. \A m \in Ids : ~Given(s, m)'
    BY <2>7, Zenon DEF Told, Given
  <2>10. CASE Goto(i, "object", s)
    <3>1. /\ pc'[i] = "object" /\ arg'[i] = s
          /\ \A j \in Ids \ {i} : pc'[j] = pc[j]
      BY <2>10, <2>3, Zenon DEF Goto, Typed
    <3>2. Using(i)'
      <4>1. CASE s = i
        BY <4>1, <3>1, Zenon DEF Using, Forking
      <4>2. CASE s # i
        <5>1. Same(i) /\ Idle(i)
          BY <4>2, <2>6, <2>1, <2>2, <2>3, <2>4, Zenon DEF Same, Using
        <5> QED
          BY <5>1, <3>1, SameSocket, Zenon DEF Using, Forking
      <4> QED
        BY <4>1, <4>2, Zenon
    <3>3. Booting(i)'
      BY <3>1, <2>7, <2>5, <2>4, <2>1, <2>2, <2>3, Zenon DEF Booting
    <3> QED
      BY <2>1, <2>2, <2>3, <2>4, <2>6, <2>8, <2>9, <2>10, <3>2, <3>3, NoArgument,
         GotoStep, Zenon DEF Places, Typed
  <2>11. CASE Return(i, TRUE)
    <3>1. IF s = i THEN Goto(i, "gone", 0) ELSE Goto(i, "run", 0)
      BY <2>11, <2>2, <2>3, ReturnIsGoto, Zenon
    <3> QED
      BY <2>1, <2>2, <2>3, <2>4, <2>6, <2>8, <2>9, <3>1, ReturnStep, Zenon DEF Typed
  <2> QED
    BY <2>2, <2>10, <2>11, Zenon DEF TakeConfig
<1>TakeInitObject. ASSUME NEW i \in Ids, TakeInitObject(i) PROVE Conversation'
  <2> USE <1>TakeInitObject
  <2>1. pc[i] = "object" /\ pc[i] \in Boots
    BY Zenon DEF TakeInitObject, Boots
  <2>2. PICK s \in Ids : s = arg[i]
    BY <2>1, BootSocket, Zenon
  <2>3. /\ Alive(i) /\ pc[i] # "finalize" /\ Typed /\ Using(i) /\ Booting(i) /\ Wire(s)
    BY <2>1, <2>2, BootSocket, Zenon
  <2>4. /\ UNCHANGED <<proc, csock, hdr, c2s, sv, ssock>> /\ Receive(s)
        /\ IF s = i THEN Goto(i, "run", 0) ELSE Goto(i, "clone", s)
    BY <2>2, Zenon DEF TakeInitObject, server
  <2>5. Told(s, "S_OBJECT") /\ sv[s] \in {"loop", "exited"}
    BY <2>1, <2>2, <2>3, Zenon DEF Booting, Wire, Asked, Told, Quiet, Booted
  <2>6. CASE s = i
    <3>1. pc'[i] = "run"
      BY <2>3, <2>4, <2>6, Zenon DEF Goto, Typed
    <3>2. Quiet(s)' => Using(i)' /\ Booting(i)'
      BY <3>1, <2>6, <2>5, <2>4, Zenon DEF Using, Booting, Boots, Forking, Idle, Ready,
         Quiet
    <3> QED
      BY <2>3, <2>4, <2>5, <2>6, <3>2, NoArgument, TakeStep, Zenon DEF Places, Boots
  <2>7. CASE s # i
    <3>1. /\ pc'[i] = "clone" /\ arg'[i] = s
          /\ \A j \in Ids \ {i} : pc'[j] = pc[j]
      BY <2>3, <2>4, <2>7 DEF Goto, Typed
    <3>2. Same(i) /\ Idle(i)
      BY <2>7, <2>1, <2>2, <2>3, <2>4, Zenon DEF Same, Using, Receive, Typed
    <3>3. Using(i)'
      BY <3>1, <3>2, SameSocket, Zenon DEF Using, Forking
    <3>4. Quiet(s)' => Booting(i)'
      BY <3>1, <2>7, <2>5, <2>4, <2>1, <2>2, <2>3, Zenon DEF Booting, Idle, Ready, Quiet
    <3> QED
      BY <2>1, <2>2, <2>3, <2>4, <2>5, <2>7, <3>3, <3>4, NoArgument, TakeStep, Zenon DEF
         Places
  <2> QED
    BY <2>6, <2>7, Zenon
<1>BootFails. ASSUME NEW i \in Ids, BootFails(i) PROVE Conversation'
  <2> USE <1>BootFails
  <2>1. pc[i] \in {"config", "object"} /\ pc[i] \in Boots
    BY Zenon DEF BootFails, Boots
  <2>2. PICK s \in Ids : s = arg[i]
    BY <2>1, BootSocket, Zenon
  <2>3. /\ Alive(i) /\ pc[i] # "finalize" /\ Typed /\ Using(i) /\ Booting(i) /\ Wire(s)
    BY <2>1, <2>2, BootSocket, Zenon
  <2>4. s2c[s] = <<>>
    BY <2>1, <2>2, <2>3, Zenon DEF BootFails, Arrived, Booting, Asked, Told, Booted, Ready
  <2>5. Return(i, FALSE) /\ UNCHANGED <<proc, csock, hdr, c2s, s2c, sv, ssock>>
    BY <2>2, <2>4, Zenon DEF BootFails, server
  <2>6. \A t \in Ids : Same(t)
    BY <2>5, Zenon DEF Same
  <2>7. IF s = i THEN Goto(i, "gone", 0) ELSE Goto(i, "run", 0)
    BY <2>5, <2>2, <2>3, ReturnIsGoto, Zenon
  <2>8. Wire(s)' /\ \A m \in Ids : Given(s, m)' => Given(s, m)
    BY <2>3, <2>6, SameSocket, Zenon
  <2> QED
    BY <2>1, <2>2, <2>3, <2>5, <2>7, <2>8, ReturnStep, Zenon DEF Typed
<1>CloneThread. ASSUME NEW i \in Ids, CloneThread(i) PROVE Conversation'
  <2> USE <1>CloneThread
  <2>1. pc[i] = "clone" /\ pc[i] \in Boots
    BY Zenon DEF CloneThread, Boots
  <2>2. PICK k \in Ids : k = arg[i]
    BY <2>1, BootSocket, Zenon
  <2>3. Typed /\ Wire(k) /\ k # i /\ pc[k] = "none"
    BY <2>1, <2>2, BootSocket, Zenon DEF Booting
  <2>4. UNCHANGED <<hdr, c2s, s2c, sv, ssock>>
    BY Zenon DEF CloneThread, server
  <2>5. CASE /\ pc' = [pc EXCEPT ![i] = "run", ![k] = "run"]
             /\ arg' = [arg EXCEPT ![i] = 0]
             /\ proc' = [proc EXCEPT ![k] = proc[i]]
             /\ csock' = [csock EXCEPT ![k] = k]
    <3>1. /\ pc'[i] = "run" /\ pc'[k] = "run" /\ csock'[k] = k /\ arg'[i] = 0
          /\ \A j \in Ids \ {i, k} : pc'[j] = pc[j]
          /\ \A j \in Ids \ {i} : arg'[j] = arg[j]
          /\ \A j \in Ids \ {k} : csock'[j] = csock[j]
      BY <2>5, <2>3, Zenon DEF Typed
    <3>2. \A j \in Ids : arg'[j] \in IF pc'[j] = "get" THEN Addrs ELSE 0 .. N
      <4>1. ASSUME NEW j \in Ids, j # i
            PROVE  arg'[j] \in IF pc'[j] = "get" THEN Addrs ELSE 0 .. N
        BY <4>1, <2>3, <3>1, Zenon DEF Typed
      <4> QED
        BY <4>1, <2>1, <2>2, <3>1, NoArgument, Zenon
    <3>3. Typed'
      BY <2>3, <2>4, <2>5, <3>2, Zenon DEF Typed
    <3> QED
      BY <2>1, <2>2, <2>4, <3>1, <3>3, BirthStep, Zenon
  <2>6. CASE Goto(i, "run", 0) /\ UNCHANGED <<proc, csock>>
    <3>1. \A t \in Ids : Same(t)
      BY <2>4, Zenon DEF Same
    <3> QED
      BY <3>1, <2>1, <2>2, <2>3, <2>4, <2>6, SameSocket, ReturnStep, Zenon DEF Typed
  <2> QED
    BY <2>2, <2>5, <2>6, Zenon DEF CloneThread
<1>CloneProcess. ASSUME NEW i \in Ids, CloneProcess(i) PROVE Conversation'
  <2> USE <1>CloneProcess
  <2>1. pc[i] = "fork" /\ pc[i] \in Boots
    BY Zenon DEF CloneProcess, Boots
  <2>2. PICK k \in Ids : k = arg[i]
    BY <2>1, BootSocket, Zenon
  <2>3. Typed /\ Wire(k) /\ k # i /\ pc[k] = "none"
    BY <2>1, <2>2, BootSocket, Zenon DEF Booting
  <2>4. UNCHANGED <<hdr, c2s, s2c, sv, ssock>>
    BY Zenon DEF CloneProcess, server
  <2>5. CASE /\ pc' = [pc EXCEPT ![i] = "close", ![k] = "finalize"]
             /\ proc' = [proc EXCEPT ![k] = k]
             /\ csock' = [csock EXCEPT ![k] = csock[i]]
             /\ UNCHANGED arg
    <3>1. /\ pc'[i] = "close" /\ pc'[k] = "finalize" /\ arg' = arg
          /\ \A j \in Ids \ {i, k} : pc'[j] = pc[j]
          /\ \A j \in Ids \ {k} : csock'[j] = csock[j]
      BY <2>5, <2>3, Zenon DEF Typed
    <3>2. \A j \in Ids : arg'[j] \in IF pc'[j] = "get" THEN Addrs ELSE 0 .. N
      <4>1. ASSUME NEW j \in Ids, j # i
            PROVE  arg'[j] \in IF pc'[j] = "get" THEN Addrs ELSE 0 .. N
        BY <4>1, <2>3, <3>1, Zenon DEF Typed
      <4> QED
        BY <4>1, <2>1, <2>2, <3>1, NoArgument, Zenon
    <3>3. Typed'
      BY <2>3, <2>4, <2>5, <3>2, Zenon DEF Typed
    <3> QED
      BY <2>1, <2>2, <2>4, <3>1, <3>3, BirthStep, Zenon
  <2>6. CASE Goto(i, "run", 0) /\ UNCHANGED <<proc, csock>>
    <3>1. \A t \in Ids : Same(t)
      BY <2>4, Zenon DEF Same
    <3> QED
      BY <3>1, <2>1, <2>2, <2>3, <2>4, <2>6, SameSocket, ReturnStep, Zenon DEF Typed
  <2> QED
    BY <2>2, <2>5, <2>6, Zenon DEF CloneProcess
<1>ParentCloses. ASSUME NEW i \in Ids, ParentCloses(i) PROVE Conversation'
  <2> USE <1>ParentCloses
  <2>1. pc[i] = "close" /\ Alive(i)
    BY Zenon DEF ParentCloses, Alive
  <2>2. Typed /\ Wire(i) /\ Using(i)
    BY ConversationParts, Zenon
  <2>3. Goto(i, "run", 0) /\ UNCHANGED <<proc, csock, hdr, c2s, s2c, sv, ssock>>
    BY Zenon DEF ParentCloses, server
  <2>4. \A t \in Ids : Same(t)
    BY <2>3, Zenon DEF Same
  <2>5. pc'[i] = "run"
    BY <2>2, <2>3, Zenon DEF Goto, Typed
  <2>6. Using(i)' /\ Booting(i)'
    BY <2>1, <2>2, <2>4, <2>5, SameSocket, Zenon DEF Using, Booting, Boots, Forking
  <2>7. Wire(i)' /\ \A m \in Ids : Given(i, m)' => Given(i, m)
    BY <2>2, <2>4, SameSocket, Zenon
  <2> QED
    BY <2>1, <2>2, <2>3, <2>6, <2>7, NoArgument, GotoStep, Zenon DEF Places, Boots, Typed
<1>Finalize. ASSUME NEW k \in Ids, Finalize(k) PROVE Conversation'
  <2> USE <1>Finalize
  <2>1. pc[k] = "finalize" /\ Alive(k)
    BY Zenon DEF Finalize, Alive
  <2>2. Typed /\ Wire(k) /\ Using(k)
    BY ConversationParts, Zenon
  <2>3. /\ Goto(k, "run", 0) /\ csock' = [csock EXCEPT ![k] = k]
        /\ UNCHANGED <<proc, hdr, c2s, s2c, sv, ssock>>
    BY Zenon DEF Finalize, server
  <2>4. \A t \in Ids : Same(t)
    BY <2>3, Zenon DEF Same
  <2>5. /\ pc'[k] = "run" /\ arg'[k] = 0 /\ csock'[k] = k
        /\ \A j \in Ids \ {k} : pc'[j] = pc[j] /\ arg'[j] = arg[j] /\ csock'[j] = csock[j]
    BY <2>2, <2>3, Zenon DEF Goto, Typed
  <2>6. Using(k)' /\ Booting(k)'
    BY <2>1, <2>2, <2>4, <2>5, SameSocket, Zenon DEF Using, Booting, Boots, Forking
  <2>7. Wire(k)' /\ \A m \in Ids : Given(k, m)' => Given(k, m)
    BY <2>2, <2>4, SameSocket, Zenon
  <2>8. Typed'
    <3>1. \A j \in Ids : arg'[j] \in IF pc'[j] = "get" THEN Addrs ELSE 0 .. N
      BY <2>2, <2>5, NoArgument, Zenon DEF Typed
    <3> QED
      BY <2>2, <2>3, <3>1, Zenon DEF Typed, Goto
  <2>9. Numbered'
    BY <2>1, <2>3, <2>5, ConversationParts DEF Numbered, Alive
  <2> QED
    BY <2>1, <2>3, <2>4, <2>5, <2>6, <2>7, <2>8, <2>9, ThreadStep, Zenon DEF Boots
<1>Exit. ASSUME NEW i \in Ids, ExitThread(i) \/ ExitProcess(i) PROVE Conversation'
  <2> USE <1>Exit
  <2>1. CASE ExitThread(i)
    BY <2>1, EndStep, Zenon DEF ExitThread, server, Alive
  <2>2. CASE ExitProcess(i)
    BY <2>2, EndStep, Zenon DEF ExitProcess, server, Threads
  <2> QED
    BY <2>1, <2>2, Zenon
<1>RecvInit. ASSUME NEW k \in Ids, RecvInit(k) PROVE Conversation'
  <2> USE <1>RecvInit
  <2>1. ssock[k] = k /\ Typed /\ Wire(k) /\ Using(k) /\ \A i \in Ids : Booting(i)
    BY ServerSocket, Zenon
  <2>2. Asked(k, "C_INIT") /\ sv[k] \in {"init", "loop"}
    BY <2>1, IncomingAsked, Zenon DEF RecvInit, Incoming
  <2>3. /\ c2s'[k] = <<>> /\ DOMAIN c2s' = Ids /\ \A t \in Ids \ {k} : c2s'[t] = c2s[t]
        /\ UNCHANGED <<client, ssock>>
    BY <2>1, <2>2, Consumed, Zenon DEF RecvInit
  <2> DEFINE m == Message("S_INIT", 0)  n == Message("S_OBJECT", NoObject)
  <2>4. Reply(k, <<m, n>>, "loop")
    BY Zenon DEF RecvInit, SendObject
  <2> HIDE DEF m, n
  <2>5. CASE UNCHANGED s2c /\ sv' = [sv EXCEPT ![k] = "exited"]
    BY <2>3, <2>5, ServerEnds, Zenon
  <2>6. CASE s2c' = [s2c EXCEPT ![k] = @ \o <<m, n>>] /\ sv' = [sv EXCEPT ![k] = "loop"]
    <3>1. /\ s2c'[k] = <<m, n>> /\ DOMAIN s2c' = Ids
          /\ \A t \in Ids \ {k} : s2c'[t] = s2c[t]
      BY <2>1, <2>2, <2>6, Two, Zenon DEF Typed, Asked
    <3>2. Booted(k)'
      <4>1. Head(s2c'[k]) = m /\ Tail(s2c'[k]) = <<n>> /\ s2c'[k] # <<>>
        BY <3>1, Two, Zenon
      <4>2. Head(Tail(s2c'[k])) = n /\ Tail(s2c'[k]) # <<>>
        BY <4>1, One, Zenon
      <4> QED
        BY <2>3, <3>1, <4>1, <4>2 DEF Booted, m, n, Message
    <3>3. sv'[k] = "loop" => Wire(k)'
      BY <3>2, Zenon DEF Wire
    <3>4. Using(k)'
      BY <2>1, <2>2, <2>3, Zenon DEF Using, Forking, Asked, Told, Ready, Idle, client
    <3>5. \A i \in Ids : arg[i] = k => pc[i] \notin {"init", "object"}
      BY <2>1, <2>2 DEF Booting, Asked, Told, Ready
    <3>6. \A j \in Ids : ~Given(k, j)'
      BY <3>2, Zenon DEF Booted, Given, Told
    <3>7. ~Ready(k, {"loop"})
      BY <2>2, Zenon DEF Ready, Asked
    <3> QED
      BY <2>2, <2>3, <2>6, <3>1, <3>2, <3>3, <3>4, <3>5, <3>6, <3>7, ServerGoesOn, Zenon
  <2> QED
    BY <2>1, <2>4, <2>5, <2>6, Zenon DEF Reply
<1>RecvTranslate. ASSUME NEW k \in Ids, RecvTranslate(k) PROVE Conversation'
  <2> USE <1>RecvTranslate
  <2>1. ssock[k] = k /\ Typed /\ Wire(k)
    BY ServerSocket, Zenon
  <2>2. Asked(k, "C_TRANSLATE") /\ sv[k] = "loop"
    BY <2>1, IncomingAsked, Zenon DEF RecvTranslate, Incoming
  <2>3. /\ c2s'[k] = <<>> /\ DOMAIN c2s' = Ids /\ \A t \in Ids \ {k} : c2s'[t] = c2s[t]
        /\ UNCHANGED <<client, s2c, ssock>> /\ sv' = [sv EXCEPT ![k] = "read"]
    BY <2>1, <2>2, Consumed, Zenon DEF RecvTranslate
  <2>4. /\ \A i \in Ids : arg[i] = k => pc[i] \notin Boots
        /\ ~Ready(k, {"loop"}) /\ pc[k] \in {"none", "gone", "get"}
    BY <2>2, Translating, Zenon DEF Forking, Asked
  <2>5. Quiet(k)' /\ \A n \in Ids : ~Given(k, n)'
    BY <2>2, <2>3, Zenon DEF Quiet, Given, Told, Asked
  <2>6. sv'[k] = "read" => Wire(k)' /\ Using(k)'
    BY <2>3, <2>4, <2>5, Zenon DEF Wire, Using, Forking, Ready, Quiet, client
  <2> QED
    BY <2>1, <2>2, <2>3, <2>4, <2>5, <2>6, ServerGoesOn, Zenon DEF Typed, Boots
<1>GetPage. ASSUME NEW k \in Ids, GetPage(k) PROVE Conversation'
  <2> USE <1>GetPage
  <2>1. Typed /\ Wire(k) /\ sv[k] = "read" /\ UNCHANGED <<client, c2s, ssock>>
    BY ServerSocket, Zenon DEF GetPage
  <2>2. Quiet(k)
    BY <2>1, Zenon DEF Wire
  <2>3. \/ UNCHANGED <<s2c, sv>>
        \/ \E g : Reply(k, <<Message("S_MEMREQ", g)>>, "membuf")
    BY Zenon DEF GetPage
  <2>4. CASE UNCHANGED <<s2c, sv>>
    BY <2>1, <2>4, GuestConversation, Zenon
  <2>5. ASSUME NEW g, Reply(k, <<Message("S_MEMREQ", g)>>, "membuf") PROVE Conversation'
    BY <2>1, <2>2, <2>5, Answers, Zenon DEF Quiet, Typed
  <2> QED
    BY <2>3, <2>4, <2>5, Zenon
<1>RecvMembuf. ASSUME NEW k \in Ids, RecvMembuf(k) PROVE Conversation'
  <2> USE <1>RecvMembuf
  <2>1. ssock[k] = k /\ Typed /\ Wire(k)
    BY ServerSocket, Zenon
  <2>2. Asked(k, "C_MEMBUF") /\ sv[k] = "membuf"
    BY <2>1, IncomingAsked, Zenon DEF RecvMembuf, Incoming
  <2>3. /\ c2s'[k] = <<>> /\ DOMAIN c2s' = Ids /\ \A t \in Ids \ {k} : c2s'[t] = c2s[t]
        /\ UNCHANGED <<client, ssock>>
    BY <2>1, <2>2, Consumed, Zenon DEF RecvMembuf
  <2>4. \/ sv' = [sv EXCEPT ![k] = "read"] /\ UNCHANGED s2c
        \/ Reply(k, <<Message("S_OBJECT", NoObject)>>, "loop")
    BY Zenon DEF RecvMembuf, SendObject
  <2>5. CASE sv' = [sv EXCEPT ![k] = "read"] /\ UNCHANGED s2c
    <3>1. /\ \A i \in Ids : arg[i] = k => pc[i] \notin Boots
          /\ ~Ready(k, {"loop"}) /\ pc[k] \in {"none", "gone", "get"}
      BY <2>2, Translating, Zenon DEF Forking, Asked
    <3>2. Quiet(k)' /\ \A n \in Ids : ~Given(k, n)'
      BY <2>2, <2>3, <2>5, Zenon DEF Quiet, Given, Told, Asked
    <3>3. sv'[k] = "read" => Wire(k)' /\ Using(k)'
      BY <2>3, <3>1, <3>2, Zenon DEF Wire, Using, Forking, Ready, Quiet, client
    <3> QED
      BY <2>1, <2>2, <2>3, <2>5, <3>1, <3>2, <3>3, ServerGoesOn, Zenon DEF Typed, Boots
  <2>6. CASE Reply(k, <<Message("S_OBJECT", NoObject)>>, "loop")
    BY <2>2, <2>3, <2>6, Answers, Zenon DEF Asked
  <2> QED
    BY <2>4, <2>5, <2>6, Zenon
<1>Translated. ASSUME NEW k \in Ids, Translated(k) PROVE Conversation'
  <2> USE <1>Translated
  <2>1. Typed /\ Wire(k) /\ sv[k] = "read" /\ UNCHANGED <<client, c2s, ssock>>
    BY ServerSocket, Zenon DEF Translated
  <2>2. Quiet(k)
    BY <2>1, Zenon DEF Wire
  <2>3. PICK o : Reply(k, <<Message("S_OBJECT", o)>>, "loop")
    BY Zenon DEF Translated, SendObject
  <2> QED
    BY <2>1, <2>2, <2>3, Answers, Zenon DEF Quiet, Typed
<1>Unexpected. ASSUME NEW k \in Ids, Unexpected(k) \/ Crash(k) PROVE Conversation'
  <2> USE <1>Unexpected
  <2>1. ssock[k] = k /\ Typed /\ Wire(k)
    BY ServerSocket, Zenon
  <2>2. UNCHANGED <<client, c2s, s2c, ssock>> /\ sv' = [sv EXCEPT ![k] = "exited"]
    <3>1. CASE Unexpected(k)
      <4>1. c2s[k] = <<>>
        BY <3>1, <2>1, IncomingAsked, Zenon DEF Unexpected, Incoming, Wire, Asked, Told,
           Quiet, Booted
      <4> QED
        BY <3>1, <4>1, <2>1, Zenon DEF Unexpected
    <3>2. CASE Crash(k)
      BY <3>2, Zenon DEF Crash
    <3> QED
      BY <3>1, <3>2, Zenon
  <2> QED
    BY <2>1, <2>2, ServerEnds, Zenon DEF Typed
<1>RecvFork. ASSUME NEW k \in Ids, RecvFork(k) PROVE Conversation'
  <2> USE <1>RecvFork
  <2>1. ssock[k] = k /\ Typed /\ Numbered /\ Wire(k)
    BY ServerSocket, Zenon
  <2>2. Asked(k, "C_FORK") /\ sv[k] = "loop"
    BY <2>1, IncomingAsked, Zenon DEF RecvFork, Incoming
  <2>3. /\ c2s'[k] = <<>> /\ DOMAIN c2s' = Ids /\ \A t \in Ids \ {k} : c2s'[t] = c2s[t]
        /\ UNCHANGED client
    BY <2>1, <2>2, Consumed, Zenon DEF RecvFork
  <2>4. ASSUME NEW n \in Ids, sv[n] = "none", ssock' = [ssock EXCEPT ![n] = n],
               \/ /\ s2c' = [s2c EXCEPT ![k] = Append(@, Message("S_FD", n))]
                  /\ sv' = [sv EXCEPT ![n] = "loop"]
               \/ UNCHANGED s2c /\ sv' = [sv EXCEPT ![n] = "loop", ![k] = "exited"]
        PROVE  Conversation'
    <3>1. n # k
      BY <2>2, <2>4, Zenon
    <3>2. /\ DOMAIN s2c' = Ids /\ \A t \in Ids \ {k} : s2c'[t] = s2c[t]
          /\ sv'[n] = "loop" /\ \A t \in Ids \ {k, n} : sv'[t] = sv[t]
          /\ \/ s2c'[k] = <<Message("S_FD", n)>> /\ sv'[k] = "loop"
             \/ s2c'[k] = <<>> /\ sv'[k] = "exited"
      BY <2>1, <2>2, <2>4, <3>1, One DEF Typed, Asked
    <3>3. sv' \in [Ids -> {"none", "init", "loop", "read", "membuf", "exited", "lost"}]
      BY <2>1, <2>4, Zenon DEF Typed
    <3>4. Typed'
      BY <2>1, <2>3, <3>2, <3>3, Zenon DEF Typed, client
    <3>5. Numbered'
      <4>1. \A t \in Ids : ssock'[t] = t /\ ssock' = [j \in Ids |-> ssock'[j]]
        BY <2>1, <2>4, Zenon DEF Numbered
      <4>2. \A t \in Ids : pc[t] # "none" => sv'[t] # "none"
        BY <2>1, <3>2 DEF Numbered
      <4> QED
        BY <2>1, <2>3, <4>1, <4>2, Zenon DEF Numbered, client, Alive
    <3>6. \/ Told(k, "S_FD")' /\ Head(s2c'[k]).arg = n /\ sv'[k] = "loop"
          \/ s2c'[k] = <<>> /\ sv'[k] = "exited"
      <4>1. CASE s2c'[k] = <<Message("S_FD", n)>> /\ sv'[k] = "loop"
        <5>1. Head(s2c'[k]) = Message("S_FD", n) /\ s2c'[k] # <<>>
          BY <4>1, One, Zenon
        <5> QED
          BY <2>3, <4>1, <5>1 DEF Told, Message
      <4> QED
        BY <3>2, <4>1, Zenon
    <3> QED
      BY <2>2, <2>3, <2>4, <3>2, <3>4, <3>5, <3>6, ForkStep, Zenon DEF client
  <2>5. ASSUME Reply(k, <<Message("S_FD", 0)>>, "loop"), UNCHANGED ssock
        PROVE  Conversation'
    <3>1. CASE UNCHANGED s2c /\ sv' = [sv EXCEPT ![k] = "exited"]
      BY <2>3, <2>5, <3>1, ServerEnds, Zenon
    <3>2. CASE /\ s2c'[k] = <<Message("S_FD", 0)>> /\ sv' = [sv EXCEPT ![k] = "loop"]
               /\ DOMAIN s2c' = Ids /\ \A t \in Ids \ {k} : s2c'[t] = s2c[t]
      <4>1. Head(s2c'[k]) = Message("S_FD", 0) /\ s2c'[k] # <<>>
        BY <3>2, One, Zenon
      <4>2. Told(k, "S_FD")' /\ Arg(k)' = 0
        BY <2>3, <3>2, <4>1 DEF Told, Message, Arg
      <4>3. /\ \A i \in Ids : arg[i] = k => pc[i] \notin Boots
            /\ ~Ready(k, {"loop"}) /\ pc[k] \in {"none", "gone", "thread", "process"}
        BY <2>2, Translating, Zenon
      <4>4. sv'[k] = "loop" => Wire(k)'
        BY <4>2, NoArgument, Zenon DEF Wire
      <4>5. Using(k)'
        BY <2>3, <4>2, <4>3, Zenon DEF Using, Forking, client
      <4>6. \A n \in Ids : ~Given(k, n)'
        BY <4>2, NoArgument, Zenon DEF Given
      <4> QED
        BY <2>2, <2>3, <2>5, <3>2, <4>3, <4>4, <4>5, <4>6, ServerGoesOn, Zenon DEF Boots
    <3> QED
      BY <2>1, <2>2, <2>5, <3>1, <3>2, Replied, Zenon DEF Asked
  <2> QED
    BY <2>1, <2>4, <2>5, Zenon DEF RecvFork
<1>1. ASSUME NEW i \in Ids, Client(i) PROVE Conversation'
  BY <1>1, <1>ServePage, <1>TakeObject, <1>GetFails,
     <1>TakeFd, <1>FdFails, <1>SendInit,
     <1>TakeConfig, <1>TakeInitObject, <1>BootFails,
     <1>CloneThread, <1>CloneProcess, <1>ParentCloses,
     <1>Finalize, Zenon DEF Client
<1>2. ASSUME NEW i \in Ids, NEW g \in Pages, Store(i, g) PROVE Conversation'
  BY <1>2, GuestConversation, Zenon DEF Store, server
<1>3. ASSUME NEW i \in Ids, Guest(i) PROVE Conversation'
  BY <1>2, <1>3, <1>Ask, <1>AskFork, <1>Exit, Zenon DEF Guest
<1>4. ASSUME NEW k \in Ids, Server(k) \/ Crash(k) PROVE Conversation'
  BY <1>4, <1>RecvInit, <1>RecvTranslate, <1>GetPage,
     <1>RecvMembuf, <1>Translated, <1>RecvFork,
     <1>Unexpected, Zenon DEF Server
<1>5. ASSUME UNCHANGED vars PROVE Conversation'
  BY <1>5, GuestConversation, Zenon DEF vars, server
<1> QED
  BY <1>1, <1>3, <1>4, <1>5, Zenon DEF Next

(* On every socket the messages under way are those of one call, and the   *)
(* server and the thread that uses the socket are at the places of that    *)
(* call: translator.c and connection.cc follow one protocol.               *)
THEOREM ConversationHolds == Spec => []Conversation
<1>1. Init => Conversation
  BY InitConversation, Zenon
<1>2. Conversation /\ [Next]_vars => Conversation'
  BY NextConversation, Zenon
<1> QED
  BY <1>1, <1>2, PTL DEF Spec

(* A socket has one server and one thread, through clone, fork and every   *)
(* failure of them.                                                        *)
THEOREM SocketsOneEach == Spec => []OneEach
<1>1. Conversation => OneEach
  BY ConversationParts DEF Numbered, OneEach
<1> QED
  BY <1>1, ConversationHolds, PTL


(* Which processes have a socket open: a thread's process its own, and the *)
(* process that sets up a new one that one; the parent closes the socket   *)
(* of a child that is another process, the child the one of its parent     *)
(* before it has made a thread.                                            *)
Held ==
  /\ holders \in [Ids -> SUBSET Ids]
  /\ \A i \in Ids : Alive(i) => proc[i] \in holders[i] /\ pc[proc[i]] # "none"
  /\ \A i \in Ids : pc[i] \in Boots => proc[i] \in holders[arg[i]]
  /\ \A i \in Ids : pc[i] = "close" =>
       /\ arg[i] \in Ids /\ pc[arg[i]] # "none"
       /\ proc[arg[i]] = arg[i] /\ proc[i] # arg[i]
  /\ \A k \in Ids : pc[k] = "finalize" =>
       /\ proc[k] = k /\ csock[k] # k
       /\ \A j \in Ids : Alive(j) /\ proc[j] = k => j = k

----------------------------------------------------------------------------
(* The second layer *)

(* Taking it apart and putting it together. *)
LEMMA HeldParts ==
  ASSUME Held
  PROVE  /\ holders \in [Ids -> SUBSET Ids]
         /\ \A i \in Ids : Alive(i) => proc[i] \in holders[i] /\ pc[proc[i]] # "none"
         /\ \A i \in Ids : pc[i] \in Boots => proc[i] \in holders[arg[i]]
         /\ \A i \in Ids : pc[i] = "close" =>
              /\ arg[i] \in Ids /\ pc[arg[i]] # "none"
              /\ proc[arg[i]] = arg[i] /\ proc[i] # arg[i]
         /\ \A k \in Ids : pc[k] = "finalize" =>
              /\ proc[k] = k /\ csock[k] # k
              /\ \A j \in Ids : Alive(j) /\ proc[j] = k => j = k
BY Zenon DEF Held

(* Putting Held together after a step. *)
LEMMA HeldFold ==
  ASSUME holders' \in [Ids -> SUBSET Ids],
         \A i \in Ids : Alive(i)' => proc'[i] \in holders'[i] /\ pc'[proc'[i]] # "none",
         \A i \in Ids : pc'[i] \in Boots => proc'[i] \in holders'[arg'[i]],
         \A i \in Ids : pc'[i] = "close" =>
              /\ arg'[i] \in Ids /\ pc'[arg'[i]] # "none"
              /\ proc'[arg'[i]] = arg'[i] /\ proc'[i] # arg'[i],
         \A k \in Ids : pc'[k] = "finalize" =>
              /\ proc'[k] = k /\ csock'[k] # k
              /\ \A j \in Ids : Alive(j)' /\ proc'[j] = k => j = k
  PROVE  Held'
BY Zenon DEF Held

(* A step of a server changes nothing of this. *)
LEMMA HeldSame ==
  ASSUME Held, UNCHANGED <<client, holders>>
  PROVE  Held'
BY HeldParts, HeldFold, Zenon DEF client, Alive

(* The main thread has its socket open. *)
LEMMA InitHeld == Init => Held
<1> SUFFICES ASSUME Init PROVE Held
  BY Zenon
<1>1. 1 \in Ids
  BY TranslatorAssumption DEF Ids
<1> QED
  BY <1>1, Zenon DEF Init, Held, Alive, Boots

(* One thread goes on, and the sockets in use stay open. *)
LEMMA HeldStep ==
  ASSUME Held, NEW i \in Ids, Alive(i), UNCHANGED proc,
         \A j \in Ids \ {i} : pc'[j] = pc[j] /\ arg'[j] = arg[j] /\ csock'[j] = csock[j],
         pc'[i] \notin {"none", "close", "finalize"},
         holders' \in [Ids -> SUBSET Ids],
         \A j \in Ids : Alive(j)' => proc[j] \in holders'[j],
         \A j \in Ids : pc'[j] \in Boots => proc[j] \in holders'[arg'[j]]
  PROVE  Held'
BY HeldParts, HeldFold DEF Alive

(* holders as it is. *)
LEMMA HeldGoto ==
  ASSUME Held, Typed, NEW i \in Ids, Alive(i), UNCHANGED <<proc, csock, holders>>,
         NEW next, NEW n, Goto(i, next, n), next \notin {"none", "close", "finalize"},
         next \in Boots => proc[i] \in holders[n]
  PROVE  Held'
<1>1. /\ pc'[i] = next /\ arg'[i] = n
      /\ \A j \in Ids \ {i} : pc'[j] = pc[j] /\ arg'[j] = arg[j]
  BY Zenon DEF Goto, Typed
<1>2. \A j \in Ids : Alive(j)' => Alive(j)
  BY <1>1, Zenon DEF Alive
<1> QED
  BY <1>1, <1>2, HeldStep, HeldParts, Zenon

(* The process of a thread that goes back to the guest closes socket s. *)
LEMMA HeldClose ==
  ASSUME Held, Typed, NEW i \in Ids, Alive(i), UNCHANGED proc,
         \A j \in Ids \ {i} : csock'[j] = csock[j],
         NEW s \in Ids, Close(proc[i], s), Goto(i, "run", 0),
         ~(Alive(s) /\ proc[s] = proc[i]),
         \A j \in Ids \ {i} : pc[j] \in Boots /\ arg[j] = s => proc[j] # proc[i],
         \A j \in Ids : pc[j] \in Boots => arg[j] \in Ids
  PROVE  Held'
<1>1. /\ pc'[i] = "run" /\ arg'[i] = 0
      /\ \A j \in Ids \ {i} : pc'[j] = pc[j] /\ arg'[j] = arg[j]
  BY Zenon DEF Goto, Typed
<1>2. /\ holders' \in [Ids -> SUBSET Ids]
      /\ holders'[s] = holders[s] \ {proc[i]} /\ \A t \in Ids \ {s} : holders'[t] = holders[t]
  BY HeldParts, Zenon DEF Close
<1>3. ASSUME NEW j \in Ids, Alive(j)' PROVE proc[j] \in holders'[j]
  <2>1. Alive(j) /\ proc[j] \in holders[j]
    BY <1>1, <1>3, HeldParts, Zenon DEF Alive
  <2> QED
    BY <1>2, <2>1, Zenon
<1>4. ASSUME NEW j \in Ids, pc'[j] \in Boots PROVE proc[j] \in holders'[arg'[j]]
  <2>1. j # i /\ pc[j] \in Boots /\ arg'[j] = arg[j] /\ proc[j] \in holders[arg[j]]
    BY <1>1, <1>4, HeldParts, Zenon DEF Boots
  <2> QED
    BY <1>2, <2>1, Zenon
<1> QED
  BY <1>1, <1>2, <1>3, <1>4, HeldStep, Zenon

(* Threads end. *)
LEMMA HeldEnd ==
  ASSUME Held, Typed, NEW S \in SUBSET Ids, End(S), UNCHANGED <<proc, csock>>,
         \A i \in S : Alive(i), \A j \in Ids : pc[j] \in Boots => arg[j] \in Ids
  PROVE  Held'
<1>1. /\ \A j \in S : pc'[j] = "gone"
      /\ \A j \in Ids \ S : pc'[j] = pc[j] /\ arg'[j] = arg[j]
      /\ \A s \in Ids : holders'[s] = {p \in holders[s] : Threads(p) \ S # {}}
      /\ holders' \in [Ids -> SUBSET Ids]
  BY HeldParts, Zenon DEF End
<1>2. ASSUME NEW j \in Ids, Alive(j)' PROVE Alive(j) /\ j \notin S /\ Threads(proc[j]) \ S # {}
  <2>1. j \notin S /\ Alive(j)
    BY <1>1, <1>2, Zenon DEF Alive
  <2>2. j \in Threads(proc[j])
    BY <2>1, Zenon DEF Threads
  <2> QED
    BY <2>1, <2>2, Zenon
<1>3. \A j \in Ids : Alive(j)' => proc[j] \in holders'[j] /\ pc'[proc[j]] # "none"
  BY <1>1, <1>2, HeldParts DEF Typed
<1>4. ASSUME NEW j \in Ids, pc'[j] \in Boots PROVE proc[j] \in holders'[arg'[j]]
  <2>1. Alive(j)'
    BY <1>4, Zenon DEF Alive, Boots
  <2> QED
    BY <1>1, <1>2, <1>4, <2>1, HeldParts
<1>5. ASSUME NEW j \in Ids, pc'[j] = "close"
      PROVE  /\ arg'[j] \in Ids /\ pc'[arg'[j]] # "none"
             /\ proc[arg'[j]] = arg'[j] /\ proc[j] # arg'[j]
  <2>1. j \notin S /\ pc[j] = "close" /\ arg'[j] = arg[j]
    BY <1>1, <1>5, Zenon
  <2> QED
    BY <1>1, <2>1, HeldParts
<1>6. ASSUME NEW k \in Ids, pc'[k] = "finalize"
      PROVE  /\ proc[k] = k /\ csock[k] # k
             /\ \A j \in Ids : Alive(j)' /\ proc[j] = k => j = k
  <2>1. k \notin S /\ pc[k] = "finalize"
    BY <1>1, <1>6, Zenon
  <2> QED
    BY <1>2, <2>1, HeldParts, Zenon
<1> QED
  BY <1>1, <1>3, <1>4, <1>5, <1>6, HeldFold, Zenon

(* A thread that sets up another has the number of that one as argument. *)
LEMMA BootArguments ==
  ASSUME Conversation
  PROVE  /\ Typed /\ \A j \in Ids : pc[j] \in Boots => arg[j] \in Ids /\ Alive(j)
         /\ \A i, j \in Ids : pc[i] \in Boots /\ pc[j] \in Boots /\ arg[i] = arg[j] => i = j
BY ConversationParts, Zenon DEF Booting, Alive, Boots

(* handle_clone gives up, or the main thread does. *)
LEMMA HeldReturn ==
  ASSUME Conversation, Held, NEW i \in Ids, pc[i] \in Boots, NEW closes \in BOOLEAN,
         Return(i, closes), UNCHANGED <<proc, csock>>
  PROVE  Held'
<1>1. arg[i] \in Ids /\ Alive(i) /\ Typed
  BY BootArguments, Zenon
<1>2. CASE arg[i] = i
  BY <1>1, <1>2, BootArguments, HeldEnd, Zenon DEF Return
<1>3. CASE arg[i] # i /\ Goto(i, "run", 0) /\ UNCHANGED holders
  BY <1>1, <1>3, HeldGoto, Zenon DEF Boots
<1>4. CASE arg[i] # i /\ Goto(i, "run", 0) /\ Close(proc[i], arg[i])
  <2>1. ~Alive(arg[i])
    BY <1>4, ConversationParts, Zenon DEF Booting, Alive
  <2> QED
    BY <1>1, <1>4, <2>1, BootArguments, HeldClose, Zenon
<1> QED
  BY <1>2, <1>3, <1>4, Zenon DEF Return

(* Every step keeps the sockets in use open. *)
LEMMA NextHeld ==
  ASSUME Conversation, Held, [Next]_vars
  PROVE  Held'
<1>TakeFd. ASSUME NEW i \in Ids, TakeFd(i) PROVE Held'
  <2> USE <1>TakeFd
  <2>1. Alive(i) /\ csock[i] = i /\ Typed /\ Wire(i)
    BY OwnSocket, Zenon DEF TakeFd, Forking, Alive
  <2>2. CASE Arg(i) = 0
    BY <2>1, <2>2, HeldGoto, Zenon DEF TakeFd, Boots
  <2>3. CASE Arg(i) # 0
    <3>1. Arg(i) \in Ids
      <4>1. Told(i, "S_FD") /\ Arg(i) \in 0 .. N
        BY <2>1, ArrivedTold, Zenon DEF TakeFd, Wire, Told, Booted, Asked, Quiet, Arrived
      <4> QED
        BY <2>3, <4>1 DEF Ids
    <3>2. PICK k \in Ids : k = Arg(i)
      BY <3>1, Zenon
    <3>3. /\ Goto(i, IF pc[i] = "thread" THEN "init" ELSE "fork", k)
          /\ holders' = [holders EXCEPT ![k] = @ \union {proc[i]}]
          /\ UNCHANGED <<proc, csock>>
      BY <2>1, <2>3, <3>2, Zenon DEF TakeFd
    <3>4. /\ pc'[i] \in {"init", "fork"} /\ arg'[i] = k
          /\ \A j \in Ids \ {i} : pc'[j] = pc[j] /\ arg'[j] = arg[j]
      BY <2>1, <3>3, Zenon DEF Goto, Typed
    <3>5. /\ holders' \in [Ids -> SUBSET Ids] /\ proc[i] \in holders'[k]
          /\ \A s \in Ids : holders[s] \subseteq holders'[s]
      BY <2>1, <3>3, HeldParts DEF Typed
    <3>6. ASSUME NEW j \in Ids PROVE Alive(j)' => proc[j] \in holders'[j]
      BY <2>1, <3>4, <3>5, HeldParts, Zenon DEF Alive
    <3>7. ASSUME NEW j \in Ids, pc'[j] \in Boots PROVE proc[j] \in holders'[arg'[j]]
      BY <3>4, <3>5, <3>7, BootArguments, HeldParts, Zenon
    <3> QED
      BY <2>1, <3>3, <3>4, <3>5, <3>6, <3>7, HeldStep, Zenon
  <2> QED
    BY <2>2, <2>3, Zenon
<1>CloneThread. ASSUME NEW i \in Ids, CloneThread(i) PROVE Held'
  <2> USE <1>CloneThread
  <2>1. pc[i] = "clone" /\ pc[i] \in Boots
    BY Zenon DEF CloneThread, Boots
  <2>2. arg[i] \in Ids /\ arg[i] # i /\ pc[arg[i]] = "none" /\ Typed /\ Alive(i)
    BY <2>1, BootArguments, ConversationParts, Zenon DEF Booting
  <2>3. PICK k \in Ids : k = arg[i]
    BY <2>2, Zenon
  <2>4. CASE MayFail /\ Goto(i, "run", 0) /\ UNCHANGED <<proc, csock, holders>>
    BY <2>2, <2>4, HeldGoto, Zenon DEF Boots
  <2>5. CASE MayFail /\ Goto(i, "run", 0) /\ UNCHANGED <<proc, csock>> /\ Close(proc[i], arg[i])
    <3>1. ~Alive(arg[i])
      BY <2>2, Zenon DEF Alive
    <3> QED
      BY <2>1, <2>2, <2>5, <3>1, BootArguments, HeldClose, Zenon
  <2>6. CASE /\ pc' = [pc EXCEPT ![i] = "run", ![k] = "run"]
             /\ arg' = [arg EXCEPT ![i] = 0]
             /\ proc' = [proc EXCEPT ![k] = proc[i]]
             /\ csock' = [csock EXCEPT ![k] = k]
             /\ UNCHANGED holders
    <3>1. /\ pc'[i] = "run" /\ pc'[k] = "run" /\ arg'[i] = 0
          /\ \A j \in Ids \ {i, k} : pc'[j] = pc[j]
          /\ \A j \in Ids \ {i} : arg'[j] = arg[j]
          /\ proc'[k] = proc[i] /\ \A j \in Ids \ {k} : proc'[j] = proc[j] /\ csock'[j] = csock[j]
      BY <2>2, <2>3, <2>6, Zenon DEF Typed
    <3>2. proc[i] \in holders[k] /\ pc[proc[i]] # "none" /\ proc[i] \in Ids
      BY <2>1, <2>2, <2>3, HeldParts, Zenon DEF Typed
    <3>3. \A j \in Ids : Alive(j)' => j = k \/ Alive(j)
      BY <2>2, <3>1, Zenon DEF Alive
    <3>4. \A j \in Ids : Alive(j)' => proc'[j] \in holders[j] /\ pc'[proc'[j]] # "none"
      BY <2>2, <2>3, <3>1, <3>2, <3>3, HeldParts DEF Typed
    <3>5. ASSUME NEW j \in Ids, pc'[j] \in Boots PROVE proc'[j] \in holders[arg'[j]]
      BY <3>1, <3>5, HeldParts, Zenon DEF Boots
    <3>6. ASSUME NEW j \in Ids, pc'[j] = "close"
          PROVE  /\ arg'[j] \in Ids /\ pc'[arg'[j]] # "none"
                 /\ proc'[arg'[j]] = arg'[j] /\ proc'[j] # arg'[j]
      <4>1. j \notin {i, k} /\ pc[j] = "close" /\ arg'[j] = arg[j] /\ arg[j] # k
        BY <2>2, <2>3, <3>1, <3>6, HeldParts
      <4> QED
        BY <3>1, <4>1, HeldParts
    <3>7. ASSUME NEW m \in Ids, pc'[m] = "finalize"
          PROVE  /\ proc'[m] = m /\ csock'[m] # m
                 /\ \A j \in Ids : Alive(j)' /\ proc'[j] = m => j = m
      <4>1. m \notin {i, k} /\ pc[m] = "finalize"
        BY <3>1, <3>7, Zenon
      <4> QED
        BY <2>2, <3>1, <3>3, <4>1, HeldParts
    <3> QED
      BY <2>6, <3>4, <3>5, <3>6, <3>7, HeldParts, HeldFold, Zenon
  <2> QED
    BY <2>3, <2>4, <2>5, <2>6, Zenon DEF CloneThread
<1>CloneProcess. ASSUME NEW i \in Ids, CloneProcess(i) PROVE Held'
  <2> USE <1>CloneProcess
  <2>1. pc[i] = "fork" /\ pc[i] \in Boots
    BY Zenon DEF CloneProcess, Boots
  <2>2. arg[i] \in Ids /\ arg[i] # i /\ pc[arg[i]] = "none" /\ Typed /\ Alive(i) /\ csock[i] = i
    BY <2>1, BootArguments, OwnSocket, ConversationParts, Zenon DEF Booting
  <2>3. PICK k \in Ids : k = arg[i]
    BY <2>2, Zenon
  <2>4. CASE Goto(i, "run", 0) /\ UNCHANGED <<proc, csock>> /\ Close(proc[i], k)
    <3>1. ~Alive(arg[i])
      BY <2>2, Zenon DEF Alive
    <3> QED
      BY <2>1, <2>2, <2>3, <2>4, <3>1, BootArguments, HeldClose, Zenon
  <2>5. CASE /\ pc' = [pc EXCEPT ![i] = "close", ![k] = "finalize"]
             /\ proc' = [proc EXCEPT ![k] = k]
             /\ csock' = [csock EXCEPT ![k] = csock[i]]
             /\ holders' = [s \in Ids |-> IF proc[i] \in holders[s]
                                          THEN holders[s] \union {k} ELSE holders[s]]
             /\ UNCHANGED arg
    <3>1. /\ pc'[i] = "close" /\ pc'[k] = "finalize"
          /\ \A j \in Ids \ {i, k} : pc'[j] = pc[j]
          /\ proc'[k] = k /\ csock'[k] = i
          /\ \A j \in Ids \ {k} : proc'[j] = proc[j] /\ csock'[j] = csock[j]
          /\ UNCHANGED arg
      BY <2>2, <2>3, <2>5, Zenon DEF Typed
    <3>2. /\ proc[i] \in Ids /\ pc[proc[i]] # "none" /\ k \in holders'[k]
          /\ \A s \in Ids : holders[s] \subseteq holders'[s]
          /\ holders' \in [Ids -> SUBSET Ids]
      BY <2>1, <2>2, <2>3, <2>5, HeldParts, Zenon DEF Typed
    <3>3. \A j \in Ids : Alive(j)' => j = k \/ Alive(j)
      BY <2>2, <3>1, Zenon DEF Alive
    <3>4. \A j \in Ids : Alive(j)' => proc'[j] \in holders'[j] /\ pc'[proc'[j]] # "none"
      BY <2>2, <2>3, <3>1, <3>2, <3>3, HeldParts DEF Typed
    <3>5. ASSUME NEW j \in Ids, pc'[j] \in Boots PROVE proc'[j] \in holders'[arg'[j]]
      BY <3>1, <3>2, <3>5, BootArguments, HeldParts, Zenon DEF Boots
    <3>6. ASSUME NEW j \in Ids, pc'[j] = "close"
          PROVE  /\ arg'[j] \in Ids /\ pc'[arg'[j]] # "none"
                 /\ proc'[arg'[j]] = arg'[j] /\ proc'[j] # arg'[j]
      <4>1. CASE j = i
        BY <2>2, <2>3, <3>1, <3>2, <4>1, Zenon
      <4>2. CASE j # i
        <5>1. j # k /\ pc[j] = "close" /\ arg[j] # k
          BY <2>2, <2>3, <3>1, <3>6, <4>2, HeldParts
        <5> QED
          BY <3>1, <4>2, <5>1, HeldParts
      <4> QED
        BY <4>1, <4>2, Zenon
    <3>7. ASSUME NEW m \in Ids, pc'[m] = "finalize"
          PROVE  /\ proc'[m] = m /\ csock'[m] # m
                 /\ \A j \in Ids : Alive(j)' /\ proc'[j] = m => j = m
      <4>1. CASE m = k
        BY <2>2, <2>3, <3>1, <3>3, <4>1, HeldParts
      <4>2. CASE m # k
        <5>1. m # i /\ pc[m] = "finalize"
          BY <3>1, <3>7, <4>2, Zenon
        <5> QED
          BY <2>2, <3>1, <3>3, <4>2, <5>1, HeldParts
      <4> QED
        BY <4>1, <4>2, Zenon
    <3> QED
      BY <3>2, <3>4, <3>5, <3>6, <3>7, HeldFold, Zenon
  <2> QED
    BY <2>3, <2>4, <2>5, Zenon DEF CloneProcess
<1>ParentCloses. ASSUME NEW i \in Ids, ParentCloses(i) PROVE Held'
  <2> USE <1>ParentCloses
  <2>1. pc[i] = "close" /\ Alive(i) /\ Typed
    BY BootArguments, Zenon DEF ParentCloses, Alive
  <2>2. arg[i] \in Ids /\ pc[arg[i]] # "none" /\ proc[arg[i]] = arg[i] /\ proc[i] # arg[i]
    BY <2>1, HeldParts, Zenon
  <2>3. \A j \in Ids \ {i} : pc[j] \in Boots /\ arg[j] = arg[i] => proc[j] # proc[i]
    BY <2>2, ConversationParts DEF Booting
  <2> QED
    BY <2>1, <2>2, <2>3, BootArguments, HeldClose, Zenon DEF ParentCloses
<1>Finalize. ASSUME NEW k \in Ids, Finalize(k) PROVE Held'
  <2> USE <1>Finalize
  <2>1. pc[k] = "finalize" /\ Alive(k) /\ Typed /\ csock[k] \in Ids
    BY BootArguments, Zenon DEF Finalize, Alive, Typed
  <2>2. proc[k] = k /\ csock[k] # k /\ \A j \in Ids : Alive(j) /\ proc[j] = k => j = k
    BY <2>1, HeldParts, Zenon
  <2>3. \A j \in Ids \ {k} : csock'[j] = csock[j]
    BY DEF Finalize
  <2>4. \A j \in Ids \ {k} : pc[j] \in Boots => proc[j] # proc[k]
    BY <2>2, BootArguments, Zenon
  <2> QED
    BY <2>1, <2>2, <2>3, <2>4, BootArguments, HeldClose, Zenon DEF Finalize
<1>Client. ASSUME NEW i \in Ids, Client(i) PROVE Held'
  <2> USE <1>Client
  <2>1. ASSUME Alive(i), End({i}), UNCHANGED <<proc, csock>> PROVE Held'
    BY <2>1, BootArguments, HeldEnd, Zenon
  <2>2. CASE ServePage(i)
    BY <2>2, HeldSame, Zenon DEF ServePage
  <2>3. CASE TakeObject(i)
    BY <2>1, <2>3, BootArguments, HeldGoto, Zenon DEF TakeObject, Alive, Boots
  <2>4. CASE GetFails(i)
    BY <2>1, <2>4, Zenon DEF GetFails, Alive
  <2>5. CASE FdFails(i)
    BY <2>5, BootArguments, HeldGoto, Zenon DEF FdFails, Forking, Alive, Boots
  <2>6. CASE SendInit(i)
    <3>1. Alive(i) /\ pc[i] \in Boots /\ proc[i] \in holders[arg[i]]
      BY <2>6, HeldParts, Zenon DEF SendInit, Alive, Boots
    <3> QED
      BY <2>6, <3>1, BootArguments, HeldGoto, HeldReturn, Zenon DEF SendInit
  <2>7. CASE TakeConfig(i)
    <3>1. Alive(i) /\ pc[i] \in Boots /\ proc[i] \in holders[arg[i]]
      BY <2>7, HeldParts, Zenon DEF TakeConfig, Alive, Boots
    <3> QED
      BY <2>7, <3>1, BootArguments, HeldGoto, HeldReturn, Zenon DEF TakeConfig
  <2>8. CASE TakeInitObject(i)
    <3>1. Alive(i) /\ pc[i] \in Boots /\ proc[i] \in holders[arg[i]]
      BY <2>8, HeldParts, Zenon DEF TakeInitObject, Alive, Boots
    <3> QED
      BY <2>8, <3>1, BootArguments, HeldGoto, Zenon DEF TakeInitObject, Boots
  <2>9. CASE BootFails(i)
    BY <2>9, HeldReturn, Zenon DEF BootFails, Boots
  <2> QED
    BY <2>2, <2>3, <2>4, <2>5, <2>6, <2>7, <2>8, <2>9, <1>TakeFd, <1>CloneThread,
       <1>CloneProcess, <1>ParentCloses, <1>Finalize, Zenon DEF Client
<1>1. ASSUME NEW i \in Ids, Guest(i) PROVE Held'
  <2>1. ASSUME NEW a \in Addrs, Ask(i, a) PROVE Held'
    <3>1. Alive(i)
      BY <2>1, Zenon DEF Ask, Alive
    <3> QED
      BY <2>1, <3>1, BootArguments, HeldEnd, HeldGoto, Zenon DEF Ask, Boots
  <2>2. ASSUME NEW what \in {"thread", "process"}, AskFork(i, what) PROVE Held'
    BY <2>2, BootArguments, HeldGoto, Zenon DEF AskFork, Alive, Boots
  <2>3. ASSUME NEW g \in Pages, Store(i, g) PROVE Held'
    BY <2>3, HeldSame, Zenon DEF Store
  <2>4. CASE ExitThread(i)
    BY <2>4, BootArguments, HeldEnd, Zenon DEF ExitThread, Alive
  <2>5. CASE ExitProcess(i)
    BY <2>5, BootArguments, HeldEnd, Zenon DEF ExitProcess, Threads
  <2> QED
    BY <1>1, <2>1, <2>2, <2>3, <2>4, <2>5, Zenon DEF Guest
<1>2. ASSUME NEW k \in Ids, Server(k) \/ Crash(k) PROVE UNCHANGED <<client, holders>>
  BY <1>2, Zenon DEF Server, Crash, RecvInit, RecvTranslate, GetPage, RecvMembuf,
     Translated, RecvFork, Unexpected
<1>3. UNCHANGED vars => UNCHANGED <<client, holders>>
  BY Zenon DEF vars
<1> QED
  BY <1>1, <1>2, <1>3, HeldSame, <1>Client, Zenon DEF Next

(* Between the steps of clone and fork in two processes, a socket is open  *)
(* in the process whose thread uses it or sets it up.                      *)
THEOREM HeldHolds == Spec => []Held
<1>1. Init => Held
  BY InitHeld, Zenon
<1>2. Conversation /\ Held /\ [Next]_vars => Held'
  BY NextHeld, Zenon
<1> QED
  BY <1>1, <1>2, ConversationHolds, PTL DEF Spec

(* A thread in the guest or in a call has its socket open in its process,  *)
(* whatever parent and child of a fork have closed.                        *)
THEOREM SocketsConnected == Spec => []Connected
<1>1. Conversation /\ Held => Connected
  <2> SUFFICES ASSUME Conversation, Held, NEW i \in Ids,
                      pc[i] \in {"run", "get", "thread", "process"}
               PROVE  proc[i] \in holders[csock[i]]
    BY Zenon DEF Connected
  <2>1. Alive(i) /\ pc[i] # "finalize"
    BY Zenon DEF Alive
  <2> QED
    BY <2>1, OwnSocket, HeldParts, Zenon
<1> QED
  BY <1>1, ConversationHolds, HeldHolds, PTL

------------------------------------------------------------------------------
(* The third layer: where the bytes that a server translates come from. It *)
(* shows that a thread is sent the object it asked for (AnsweredRight) and,*)
(* with the types of everything that is stored or sent, that no party      *)
(* reads a message it cannot (InSync).                                     *)

(* Bytes that process p had in memory at some time: cached by server k, or *)
(* in the code S.                                                          *)
From(k, p) == \A g \in Pages : pages[k][g] = Absent \/ pages[k][g] \in seen[p][g]
Code(S, p) == \A c \in S : c[1] \in Pages /\ c[2] \in seen[p][c[1]]

(* Bytes are Absent or numbered by stamp; seen remembers all of them.      *)
Memory ==
  /\ mem \in [Ids -> [Pages -> Absent .. MaxStamp]]
  /\ seen \in [Ids -> [Pages -> SUBSET (Absent .. MaxStamp)]]
  /\ pages \in [Ids -> [Pages -> Absent .. MaxStamp]]
  /\ stamp \in 0 .. MaxStamp
  /\ \A p \in Ids, g \in Pages : mem[p][g] \in seen[p][g]

(* The server of a thread that waits works for the address the thread sent *)
(* and on bytes of the thread's process; so is what it replies.            *)
Answering(i) ==
  /\ sv[i] \in {"read", "membuf"} => job[i].of = arg[i] /\ Code(job[i].code, proc[i])
  /\ sv[i] = "membuf" /\ Told(i, "S_MEMREQ") => Arg(i) = Head(job[i].todo)
  /\ sv[i] = "membuf" /\ Asked(i, "C_MEMBUF") =>
       Head(c2s[i]).arg \in seen[proc[i]][Head(job[i].todo)]
  /\ Told(i, "S_OBJECT") => Arg(i).of \in {0, arg[i]} /\ Code(Arg(i).code, proc[i])

Jobs == job \in [Ids -> [of : Addrs \union {0}, todo : Seq(Pages),
                         code : SUBSET (Pages \X (Absent .. MaxStamp))]]

(* What the messages carry, and what a server that waits for bytes reads.  *)
Carried(s) ==
  /\ Asked(s, "C_TRANSLATE") => Head(c2s[s]).arg \in Addrs
  /\ Asked(s, "C_MEMBUF") => Head(c2s[s]).arg \in Absent .. MaxStamp
  /\ Told(s, "S_MEMREQ") => Arg(s) \in Pages
  /\ sv[s] = "membuf" => job[s].todo # <<>>

Sourced ==
  /\ Memory /\ Jobs
  /\ \A s \in Ids : Carried(s)
  /\ \A i \in Ids : Alive(i) => From(i, proc[i])
  /\ \A i \in Ids : pc[i] \in Boots => From(arg[i], proc[i])
  /\ \A i, n \in Ids : Forking(i) /\ Given(i, n) => From(n, proc[i])
  /\ \A i \in Ids : pc[i] = "get" => Answering(i)

(* Taking it apart and putting it together. *)
LEMMA SourcedParts ==
  ASSUME Sourced
  PROVE  /\ Memory
         /\ Jobs
         /\ \A s \in Ids : Carried(s)
         /\ \A i \in Ids : Alive(i) => From(i, proc[i])
         /\ \A i \in Ids : pc[i] \in Boots => From(arg[i], proc[i])
         /\ \A i, n \in Ids : Forking(i) /\ Given(i, n) => From(n, proc[i])
         /\ \A i \in Ids : pc[i] = "get" => Answering(i)
BY Zenon DEF Sourced

(* Code that process p had stays so with one more page of p. *)
LEMMA MoreCode ==
  ASSUME NEW S, NEW p, NEW g \in Pages, NEW v \in seen[p][g], Code(S, p)
  PROVE  Code(S \union {<<g, v>>}, p)
BY DEF Code

(* Putting it together after a step. *)
LEMMA SourcedFold ==
  ASSUME Memory',
         Jobs',
         \A s \in Ids : Carried(s)',
         \A i \in Ids : Alive(i)' => From(i, proc[i])',
         \A i \in Ids : pc'[i] \in Boots => From(arg[i], proc[i])',
         \A i, n \in Ids : Forking(i)' /\ Given(i, n)' => From(n, proc[i])',
         \A i \in Ids : pc'[i] = "get" => Answering(i)'
  PROVE  Sourced'
BY Zenon DEF Sourced

(* Nothing is cached, asked or answered at first. *)
LEMMA InitSourced == Init => Sourced
<1> SUFFICES ASSUME Init PROVE Sourced
  BY Zenon
<1>1. Absent = -1 /\ MaxStamp \in Nat /\ NoJob \in [of : Addrs \union {0}, todo : Seq(Pages),
                         code : SUBSET (Pages \X (Absent .. MaxStamp))]
  BY TranslatorAssumption DEF Absent, NoJob
<1>2. Memory /\ Jobs
  BY <1>1 DEF Init, Memory, Jobs
<1>3. \A s \in Ids : Carried(s)
  BY Zenon DEF Init, Carried, Asked, Told
<1>4. \A k, p \in Ids : From(k, p)
  BY Zenon DEF Init, From
<1>5. \A i, n \in Ids : pc[i] # "get" /\ ~Given(i, n) /\ pc[i] \in {"init", "none"}
  BY Zenon DEF Init, Given, Told
<1>6. \A i \in Ids : proc[i] \in Ids /\ (pc[i] \in Boots => arg[i] \in Ids)
  BY TranslatorAssumption DEF Init, Ids, Boots
<1> QED
  BY <1>2, <1>3, <1>4, <1>5, <1>6, Zenon DEF Sourced

(* Pages and bytes of a process whose memory has been what it was, too. *)
LEMMA FromGrows ==
  ASSUME NEW k, NEW p, pages'[k] = pages[k], \A g \in Pages : seen[p][g] \subseteq seen'[p][g],
         From(k, p)
  PROVE  From(k, p)'
BY Zenon DEF From

(* A thread whose socket, server and job stay as they are. *)
LEMMA AnsweringSame ==
  ASSUME Jobs, NEW i \in Ids, Carried(i), Answering(i), Same(i), job'[i] = job[i],
         arg'[i] = arg[i], proc'[i] = proc[i],
         \A g \in Pages : seen[proc[i]][g] \subseteq seen'[proc[i]][g]
  PROVE  Answering(i)'
<1>1. \A id : (Asked(i, id)' <=> Asked(i, id)) /\ (Told(i, id)' <=> Told(i, id))
  BY SameSocket, Zenon
<1>2. /\ sv'[i] = sv[i] /\ c2s'[i] = c2s[i] /\ Arg(i)' = Arg(i)
  BY Zenon DEF Same, Arg
<1>3. \A S : Code(S, proc[i]) => \A c \in S : c[1] \in Pages /\ c[2] \in seen'[proc'[i]][c[1]]
  BY Zenon DEF Code
<1>4. sv[i] = "membuf" => Head(job[i].todo) \in Pages
  BY DEF Carried, Jobs
<1> QED
  BY <1>1, <1>2, <1>3, <1>4, Zenon DEF Answering, Code

(* A socket whose streams, server and job stay as they are. *)
LEMMA CarriedSame ==
  ASSUME NEW s, Carried(s), Same(s), job'[s] = job[s]
  PROVE  Carried(s)'
BY SameSocket, Zenon DEF Carried, Same, Arg

(* Thread i goes on, with socket s. *)
LEMMA SourcedClient ==
  ASSUME Sourced, NEW i \in Ids, NEW s \in Ids, Alive(i),
         UNCHANGED <<guest, sv, pages, job>>,
         \A j \in Ids \ {i} : pc'[j] = pc[j] /\ arg'[j] = arg[j], UNCHANGED proc,
         \A t \in Ids \ {s} : c2s'[t] = c2s[t] /\ s2c'[t] = s2c[t],
         s = i \/ pc[s] = "none", Carried(s)',
         pc'[i] \in Boots => From(arg'[i], proc[i]),
         \A n \in Ids : Forking(i)' /\ Given(i, n)' => From(n, proc[i]),
         pc'[i] = "get" => Answering(i)'
  PROVE  Sourced'
<1>1. \A t \in Ids \ {s} : Same(t)
  BY Zenon DEF Same
<1>2. Memory' /\ Jobs'
  BY SourcedParts, Zenon DEF Memory, Jobs, guest
<1>3. \A t \in Ids : Carried(t)'
  BY <1>1, CarriedSame, SourcedParts, Zenon
<1>4. \A t, p : From(t, p)' <=> From(t, p)
  BY Zenon DEF From, guest
<1>5. ASSUME NEW j \in Ids, j # i, pc[j] = "get" \/ Forking(j) PROVE Same(j)
  BY <1>1, <1>5, Zenon DEF Forking
<1>6. ASSUME NEW j \in Ids, Alive(j)' PROVE From(j, proc[j])'
  BY <1>4, <1>6, SourcedParts, Zenon DEF Alive
<1>7. ASSUME NEW j \in Ids, pc'[j] \in Boots PROVE From(arg[j], proc[j])'
  BY <1>4, <1>7, SourcedParts, Zenon
<1>8. ASSUME NEW j \in Ids, NEW n \in Ids, Forking(j)', Given(j, n)' PROVE From(n, proc[j])'
  <2>1. CASE j = i
    BY <1>4, <1>8, <2>1, Zenon
  <2>2. CASE j # i
    <3>1. Forking(j) /\ Given(j, n)
      BY <1>5, <1>8, <2>2, SameSocket, Zenon DEF Forking
    <3> QED
      BY <1>4, <3>1, SourcedParts, Zenon
  <2> QED
    BY <2>1, <2>2, Zenon
<1>9. ASSUME NEW j \in Ids, pc'[j] = "get" PROVE Answering(j)'
  <2>1. CASE j # i
    BY <1>5, <1>9, <2>1, AnsweringSame, SourcedParts, Zenon DEF guest
  <2> QED
    BY <1>9, <2>1, Zenon
<1> QED
  BY <1>2, <1>3, <1>6, <1>7, <1>8, <1>9, SourcedFold, Zenon

(* A socket from which something has been received. *)
LEMMA CarriedRest ==
  ASSUME NEW s, Carried(s), sv'[s] = sv[s], job'[s] = job[s],
         ~Asked(s, "C_TRANSLATE")', ~Asked(s, "C_MEMBUF")', ~Told(s, "S_MEMREQ")'
  PROVE  Carried(s)'
BY Zenon DEF Carried

(* What a client leaves on a socket it has received from. *)
LEMMA Taken ==
  ASSUME Conversation, NEW s \in Ids, s2c[s] # <<>>, Receive(s), UNCHANGED c2s
  PROVE  /\ ~Told(s, "S_MEMREQ")' /\ \A id : ~Asked(s, id)'
         /\ \A t \in Ids \ {s} : c2s'[t] = c2s[t] /\ s2c'[t] = s2c[t]
<1>1. Wire(s) /\ Typed
  BY ConversationParts, Zenon
<1>2. s2c'[s] = Tail(s2c[s]) /\ \A t \in Ids \ {s} : c2s'[t] = c2s[t] /\ s2c'[t] = s2c[t]
  BY <1>1, Zenon DEF Receive, Typed
<1>3. c2s[s] = <<>>
  BY <1>1, Zenon DEF Wire, Asked, Told, Booted, Quiet
<1>4. CASE Booted(s)
  <2>1. s2c'[s] = <<Head(Tail(s2c[s]))>> /\ Head(Tail(s2c[s])).id = "S_OBJECT"
    BY <1>2, <1>4, Two, Zenon DEF Booted
  <2> QED
    BY <1>2, <1>3, <2>1, One, Zenon DEF Told, Asked
<1>5. CASE \E id : Told(s, id)
  <2>1. s2c'[s] = <<>>
    BY <1>2, <1>5, One, Zenon DEF Told
  <2> QED
    BY <1>2, <1>3, <2>1, Zenon DEF Told, Asked
<1> QED
  BY <1>1, <1>4, <1>5, Zenon DEF Wire, Asked, Quiet

(* A thread receives, or sees the end of a stream, and its call or that    *)
(* part of it is over.                                                     *)
LEMMA SourcedTakes ==
  ASSUME Conversation, Sourced, NEW i \in Ids, NEW s \in Ids, Alive(i), s = i \/ pc[s] = "none",
         UNCHANGED <<proc, guest, server, c2s>>,
         (s2c[s] # <<>> /\ Receive(s)) \/ UNCHANGED s2c,
         NEW next, NEW n, Goto(i, next, n), next \notin {"get", "thread", "process"},
         next \in Boots => From(n, proc[i])
  PROVE  Sourced'
<1>1. /\ pc'[i] = next /\ arg'[i] = n
      /\ \A j \in Ids \ {i} : pc'[j] = pc[j] /\ arg'[j] = arg[j]
  BY BootArguments, Zenon DEF Goto, Typed
<1>2. UNCHANGED <<sv, pages, job>>
  BY Zenon DEF server
<1>3. \A t \in Ids \ {s} : c2s'[t] = c2s[t] /\ s2c'[t] = s2c[t]
  BY Taken, Zenon
<1>4. Carried(s)'
  BY <1>2, Taken, CarriedRest, CarriedSame, SourcedParts, Zenon DEF Same
<1> QED
  BY <1>1, <1>2, <1>3, <1>4, SourcedClient, Zenon DEF Forking

(* A thread goes back to the guest, or ends where it cannot. *)
LEMMA ReturnSourced ==
  ASSUME Conversation, Sourced, NEW i \in Ids, pc[i] \in Boots,
         UNCHANGED <<proc, guest, server, c2s>>,
         (s2c[arg[i]] # <<>> /\ Receive(arg[i])) \/ UNCHANGED s2c,
         NEW closes \in BOOLEAN, Return(i, closes)
  PROVE  Sourced'
<1>1. Typed /\ Alive(i) /\ arg[i] \in Ids /\ (arg[i] = i \/ pc[arg[i]] = "none")
  BY BootArguments, ConversationParts, Zenon DEF Booting
<1>2. Goto(i, "gone", 0) \/ Goto(i, "run", 0)
  BY <1>1, ReturnIsGoto, Zenon
<1> QED
  BY <1>1, <1>2, SourcedTakes, Zenon DEF Boots

(* Server k goes on; it keeps its pages, or has one more of the process    *)
(* of the thread that waits for it.                                        *)
LEMMA SourcedServer ==
  ASSUME Conversation, Sourced, NEW k \in Ids, UNCHANGED <<client, guest>>,
         \A t \in Ids \ {k} : Same(t) /\ job'[t] = job[t] /\ pages'[t] = pages[t],
         Jobs', pages' \in [Ids -> [Pages -> Absent .. MaxStamp]], Carried(k)',
         \/ pages'[k] = pages[k]
         \/ /\ Alive(k) => From(k, proc[k])'
            /\ \A i \in Ids : arg[i] = k => pc[i] \notin Boots
            /\ \A i \in Ids : ~Given(i, k),
         \A n \in Ids : Given(k, n)' => Given(k, n),
         pc[k] = "get" => Answering(k)'
  PROVE  Sourced'
<1>1. UNCHANGED <<pc, arg, proc, mem, seen, stamp>>
  BY Zenon DEF client, guest
<1>2. Memory'
  BY <1>1, SourcedParts, Zenon DEF Memory
<1>3. \A t \in Ids : Carried(t)'
  BY CarriedSame, SourcedParts, Zenon
<1>4. \A t \in Ids \ {k}, p \in Ids : From(t, p)' <=> From(t, p)
  BY <1>1, Zenon DEF From
<1>5. pages'[k] = pages[k] => \A p \in Ids : From(k, p)' <=> From(k, p)
  BY <1>1, Zenon DEF From
<1>6. \A j \in Ids : proc[j] \in Ids
  BY BootArguments, Zenon DEF Typed
<1>7. ASSUME NEW j \in Ids, Alive(j)' PROVE From(j, proc[j])'
  BY <1>1, <1>4, <1>5, <1>6, <1>7, SourcedParts, Zenon DEF Alive
<1>8. ASSUME NEW j \in Ids, pc'[j] \in Boots PROVE From(arg[j], proc[j])'
  BY <1>1, <1>4, <1>5, <1>6, <1>8, BootArguments, SourcedParts, Zenon
<1>9. ASSUME NEW j \in Ids, NEW n \in Ids, Forking(j)', Given(j, n)' PROVE From(n, proc[j])'
  <2>1. Forking(j) /\ Given(j, n)
    BY <1>1, <1>9, SameSocket, Zenon DEF Forking
  <2> QED
    BY <1>1, <1>4, <1>5, <1>6, <2>1, SourcedParts, Zenon
<1>10. ASSUME NEW j \in Ids, pc'[j] = "get" PROVE Answering(j)'
  BY <1>1, <1>10, AnsweringSame, SourcedParts, Zenon
<1> QED
  BY <1>2, <1>3, <1>7, <1>8, <1>9, <1>10, SourcedFold, Zenon

(* A server whose job is over: it has sent object o or the initial one,    *)
(* another file descriptor, or has ended.                                  *)
LEMMA DoneSourced ==
  ASSUME Conversation, Sourced, NEW k \in Ids, UNCHANGED <<client, guest, pages>>,
         c2s'[k] = <<>>, sv'[k] \in {"loop", "exited"},
         \A t \in Ids \ {k} : Same(t) /\ job'[t] = job[t], Jobs',
         ~Told(k, "S_MEMREQ")', \A n \in Ids : ~Given(k, n)',
         pc[k] = "get" /\ Told(k, "S_OBJECT")'
           => Head(s2c'[k]).arg.of \in {0, arg[k]} /\ Code(Head(s2c'[k]).arg.code, proc[k])
  PROVE  Sourced'
<1>1. Carried(k)'
  BY Zenon DEF Carried, Asked
<1>2. pc[k] = "get" => Answering(k)'
  BY Zenon DEF Answering, Arg, Code, client, guest, Asked
<1>3. pages' \in [Ids -> [Pages -> Absent .. MaxStamp]]
  BY SourcedParts, Zenon DEF Memory
<1> QED
  BY <1>1, <1>2, <1>3, SourcedServer, Zenon

(* The bytes of a page are added to what has been read. *)
LEMMA ReadJob ==
  ASSUME Jobs, NEW k \in Ids, NEW g \in Pages, NEW v \in Absent .. MaxStamp,
         job[k].todo # <<>>, Read(k, g, v)
  PROVE  /\ Jobs' /\ job'[k].of = job[k].of /\ job'[k].code = job[k].code \union {<<g, v>>}
         /\ \A t \in Ids \ {k} : job'[t] = job[t]
<1>1. job[k] \in [of : Addrs \union {0}, todo : Seq(Pages),
                  code : SUBSET (Pages \X (Absent .. MaxStamp))]
  BY Zenon DEF Jobs
<1>2. Tail(job[k].todo) \in Seq(Pages)
  BY <1>1
<1>3. /\ job'[k] = [[job[k] EXCEPT !.todo = Tail(@)] EXCEPT !.code = @ \union {<<g, v>>}]
      /\ \A t \in Ids \ {k} : job'[t] = job[t]
      /\ DOMAIN job' = Ids /\ job' = [t \in Ids |-> job'[t]]
  BY <1>1, Zenon DEF Read, Jobs
<1>4. /\ job'[k] \in [of : Addrs \union {0}, todo : Seq(Pages),
                      code : SUBSET (Pages \X (Absent .. MaxStamp))]
      /\ job'[k].of = job[k].of /\ job'[k].code = job[k].code \union {<<g, v>>}
  <2> DEFINE Read2 == Pages \X (Absent .. MaxStamp)
  <2>1. <<g, v>> \in Read2
    BY Zenon
  <2>2. job[k].code \in SUBSET Read2
    BY <1>1, Zenon
  <2>3. job[k].code \union {<<g, v>>} \in SUBSET Read2
    <3> HIDE DEF Read2
    <3> QED
      BY <2>1, <2>2, Zenon
  <2>4. PICK S \in SUBSET (Pages \X (Absent .. MaxStamp)) : S = job[k].code \union {<<g, v>>}
    BY <2>3, Zenon
  <2>5. job'[k] = [of |-> job[k].of, todo |-> Tail(job[k].todo), code |-> S]
    BY <1>1, <1>3, <2>4, Zenon
  <2> QED
    BY <1>1, <1>2, <2>4, <2>5
<1> QED
  BY <1>3, <1>4, Zenon DEF Jobs

(* Every step keeps it: one step of the proof per action. *)
LEMMA NextSourced ==
  ASSUME Conversation, Held, Sourced, [Next]_vars
  PROVE  Sourced'
<1>Ask. ASSUME NEW i \in Ids, NEW a \in Addrs, Ask(i, a) PROVE Sourced'
  <2> USE <1>Ask
  <2>1. /\ pc[i] = "run" /\ Alive(i) /\ csock[i] = i /\ Typed /\ Using(i)
        /\ Served(i) <=> Serving(i)
    BY OwnSocket, Zenon DEF Ask, Alive
  <2>2. CASE End({i}) /\ UNCHANGED c2s
    BY <2>1, <2>2, EndIsGoto, SourcedTakes, Zenon DEF Ask, Boots
  <2>3. CASE Serving(i) /\ Send(i, Message("C_TRANSLATE", a)) /\ Goto(i, "get", a)
    <3>1. c2s[i] = <<>> /\ s2c[i] = <<>> /\ sv[i] = "loop"
      BY <2>1, <2>3, Zenon DEF Using, Idle, Ready, Serving
    <3>2. /\ pc'[i] = "get" /\ arg'[i] = a
          /\ \A j \in Ids \ {i} : pc'[j] = pc[j] /\ arg'[j] = arg[j]
      BY <2>1, <2>3, Zenon DEF Goto, Typed
    <3>3. /\ c2s'[i] = <<Message("C_TRANSLATE", a)>> /\ s2c'[i] = <<>>
          /\ \A t \in Ids \ {i} : c2s'[t] = c2s[t] /\ s2c'[t] = s2c[t]
      BY <2>1, <2>3, <3>1, One, Zenon DEF Send, Typed, Ask
    <3>4. Head(c2s'[i]).id = "C_TRANSLATE" /\ Head(c2s'[i]).arg = a
      BY <3>3, One DEF Message
    <3>5. UNCHANGED <<sv, pages, job, guest, proc>>
      BY Zenon DEF Ask, server
    <3>6. Carried(i)'
      BY <3>1, <3>3, <3>4, <3>5, Zenon DEF Carried, Asked, Told
    <3>7. Answering(i)'
      BY <3>1, <3>3, <3>5, Zenon DEF Answering, Told
    <3> QED
      BY <2>1, <3>2, <3>3, <3>5, <3>6, <3>7, SourcedClient, Zenon DEF Forking, Boots
  <2> QED
    BY <2>1, <2>2, <2>3, Zenon DEF Ask
<1>ServePage. ASSUME NEW i \in Ids, ServePage(i) PROVE Sourced'
  <2> USE <1>ServePage
  <2>1. /\ pc[i] = "get" /\ Alive(i) /\ csock[i] = i /\ Typed /\ Wire(i)
        /\ s2c[i] # <<>> /\ Head(s2c[i]).id = "S_MEMREQ"
    BY OwnSocket, Zenon DEF ServePage, Alive, Arrived
  <2>2. Told(i, "S_MEMREQ")
    BY <2>1, Zenon DEF Wire, Quiet, Asked, Told, Booted
  <2>3. PICK g \in Pages : g = Arg(i)
    BY <2>2, SourcedParts, Zenon DEF Carried
  <2>4. PICK v \in Absent .. MaxStamp : v = mem[proc[i]][g] /\ v \in seen[proc[i]][g]
    BY <2>1, SourcedParts DEF Memory, Typed
  <2>5. /\ c2s'[i] = <<Message("C_MEMBUF", v)>> /\ s2c'[i] = <<>>
        /\ \A t \in Ids \ {i} : c2s'[t] = c2s[t] /\ s2c'[t] = s2c[t]
    <3>1. c2s[i] = <<>> /\ Tail(s2c[i]) = <<>>
      BY <2>2, One, Zenon DEF Told
    <3> QED
      BY <2>1, <2>3, <2>4, <3>1, One, Zenon DEF ServePage, Send, Receive, Typed
  <2>6. Head(c2s'[i]).id = "C_MEMBUF" /\ Head(c2s'[i]).arg = v
    BY <2>5, One DEF Message
  <2>7. UNCHANGED <<sv, pages, job, guest, proc, pc, arg>>
    BY Zenon DEF ServePage, server, client
  <2>8. Carried(i)'
    BY <2>5, <2>6, <2>7, SourcedParts, Zenon DEF Carried, Asked, Told
  <2>9. Answering(i)'
    <3>1. Answering(i)
      BY <2>1, SourcedParts, Zenon
    <3>2. sv[i] = "membuf" => v \in seen[proc[i]][Head(job[i].todo)]
      BY <2>2, <2>3, <2>4, <3>1, Zenon DEF Answering
    <3> QED
      BY <2>5, <2>6, <2>7, <3>1, <3>2, Zenon DEF Answering, Told, Asked, Code, guest
  <2> QED
    BY <2>1, <2>5, <2>7, <2>8, <2>9, SourcedClient, Zenon DEF Forking, Boots
<1>Get. ASSUME NEW i \in Ids, TakeObject(i) \/ GetFails(i) PROVE Sourced'
  <2> USE <1>Get
  <2>1. Alive(i) /\ csock[i] = i /\ Typed
    BY OwnSocket, Zenon DEF TakeObject, GetFails, Alive
  <2>2. Goto(i, "gone", 0) \/ Goto(i, "run", 0)
    BY <2>1, EndIsGoto, Zenon DEF TakeObject, GetFails
  <2>3. /\ UNCHANGED <<proc, guest, server, c2s>>
        /\ (s2c[i] # <<>> /\ Receive(i)) \/ UNCHANGED s2c
    BY <2>1, Zenon DEF TakeObject, GetFails, Arrived
  <2> QED
    BY <2>1, <2>2, <2>3, SourcedTakes, Zenon DEF Boots
<1>AskFork. ASSUME NEW i \in Ids, NEW what \in {"thread", "process"}, AskFork(i, what)
            PROVE  Sourced'
  <2> USE <1>AskFork
  <2>1. /\ pc[i] = "run" /\ Alive(i) /\ csock[i] = i /\ Typed /\ Using(i)
        /\ Serving(i)
    BY OwnSocket, Zenon DEF AskFork, Alive
  <2>2. c2s[i] = <<>> /\ s2c[i] = <<>>
    BY <2>1, Zenon DEF Using, Idle, Ready, Serving
  <2>3. /\ pc'[i] = what /\ \A j \in Ids \ {i} : pc'[j] = pc[j] /\ arg'[j] = arg[j]
    BY <2>1, Zenon DEF AskFork, Goto, Typed
  <2>4. /\ c2s'[i] = <<Message("C_FORK", 0)>> /\ s2c'[i] = <<>>
        /\ \A t \in Ids \ {i} : c2s'[t] = c2s[t] /\ s2c'[t] = s2c[t]
    BY <2>1, <2>2, One, Zenon DEF AskFork, Send, Typed
  <2>5. Head(c2s'[i]).id = "C_FORK"
    BY <2>4, One DEF Message
  <2>6. UNCHANGED <<sv, pages, job, guest, proc>>
    BY Zenon DEF AskFork, server
  <2>7. Carried(i)' /\ \A n \in Ids : ~Given(i, n)'
    BY <2>4, <2>5, <2>6, SourcedParts, Zenon DEF Carried, Asked, Told, Given
  <2> QED
    BY <2>1, <2>3, <2>4, <2>6, <2>7, SourcedClient, Zenon DEF Boots
<1>Fd. ASSUME NEW i \in Ids, TakeFd(i) \/ FdFails(i) PROVE Sourced'
  <2> USE <1>Fd
  <2>1. Forking(i) /\ Alive(i) /\ csock[i] = i /\ Typed /\ Wire(i)
    BY OwnSocket, Zenon DEF TakeFd, FdFails, Forking, Alive
  <2>2. CASE FdFails(i)
    BY <2>1, <2>2, SourcedTakes, Zenon DEF FdFails, Boots
  <2>3. CASE TakeFd(i)
    <3>1. Told(i, "S_FD") /\ Arg(i) \in 0 .. N
      BY <2>1, <2>3, Zenon DEF TakeFd, Wire, Told, Booted, Asked, Quiet, Arrived
    <3>2. CASE Arg(i) = 0
      BY <2>1, <2>3, <3>2, SourcedTakes, Zenon DEF TakeFd, Boots, Arrived
    <3>3. CASE Arg(i) # 0
      <4>1. Arg(i) \in Ids
        BY <3>1, <3>3 DEF Ids
      <4>2. PICK k \in Ids : k = Arg(i)
        BY <4>1, Zenon
      <4>3. From(k, proc[i])
        BY <2>1, <3>1, <4>2, SourcedParts, Zenon DEF Given
      <4>4. Goto(i, "init", k) \/ Goto(i, "fork", k)
        BY <2>1, <2>3, <3>3, <4>2, Zenon DEF TakeFd
      <4> QED
        BY <2>1, <2>3, <4>3, <4>4, SourcedTakes, Zenon DEF TakeFd, Arrived
    <3> QED
      BY <3>2, <3>3, Zenon
  <2> QED
    BY <2>2, <2>3, Zenon
<1>Boot. ASSUME NEW i \in Ids, SendInit(i) \/ TakeConfig(i) \/ TakeInitObject(i) \/ BootFails(i)
         PROVE  Sourced'
  <2> USE <1>Boot
  <2>1. pc[i] \in {"init", "config", "object"} /\ pc[i] \in Boots
    BY Zenon DEF SendInit, TakeConfig, TakeInitObject, BootFails, Boots
  <2>2. PICK s \in Ids : s = arg[i]
    BY <2>1, BootSocket, Zenon
  <2>3. /\ Typed /\ Alive(i) /\ (s = i \/ pc[s] = "none") /\ From(s, proc[i]) /\ Booting(i)
        /\ Served(s) <=> Serving(s)
    BY <2>1, <2>2, BootSocket, ConversationParts, SourcedParts, Zenon DEF Booting
  <2>4. CASE TakeConfig(i) \/ TakeInitObject(i) \/ BootFails(i)
    <3>1. /\ UNCHANGED <<proc, guest, server, c2s>>
          /\ (s2c[s] # <<>> /\ Receive(s)) \/ UNCHANGED s2c
      BY <2>2, <2>4, Zenon DEF TakeConfig, TakeInitObject, BootFails, Arrived
    <3>2. \/ \E next \in {"object", "clone"} : Goto(i, next, s)
          \/ Goto(i, "run", 0) \/ \E closes \in BOOLEAN : Return(i, closes)
      BY <2>2, <2>4, Zenon DEF TakeConfig, TakeInitObject, BootFails
    <3> QED
      BY <2>1, <2>2, <2>3, <3>1, <3>2, SourcedTakes, ReturnSourced, Zenon DEF Boots
  <2>5. CASE SendInit(i) /\ Return(i, TRUE) /\ UNCHANGED c2s
    BY <2>1, <2>5, ReturnSourced, Zenon DEF SendInit
  <2>6. CASE SendInit(i) /\ Serving(s) /\ Send(s, Message("C_INIT", 0)) /\ Goto(i, "config", s)
    <3>1. c2s[s] = <<>> /\ s2c[s] = <<>>
      BY <2>2, <2>3, <2>6, Zenon DEF SendInit, Booting, Ready, Serving
    <3>2. /\ pc'[i] = "config" /\ arg'[i] = s
          /\ \A j \in Ids \ {i} : pc'[j] = pc[j] /\ arg'[j] = arg[j]
      BY <2>3, <2>6, Zenon DEF Goto, Typed
    <3>3. /\ c2s'[s] = <<Message("C_INIT", 0)>> /\ s2c'[s] = <<>>
          /\ \A t \in Ids \ {s} : c2s'[t] = c2s[t] /\ s2c'[t] = s2c[t]
      BY <2>3, <2>6, <3>1, One, Zenon DEF SendInit, Send, Typed
    <3>4. Head(c2s'[s]).id = "C_INIT"
      BY <3>3, One DEF Message
    <3>5. UNCHANGED <<sv, pages, job, guest, proc>>
      BY <2>6, Zenon DEF SendInit, server
    <3>6. Carried(s)'
      BY <3>3, <3>4, <3>5, SourcedParts, Zenon DEF Carried, Asked, Told
    <3> QED
      BY <2>3, <3>2, <3>3, <3>5, <3>6, SourcedClient, Zenon DEF Forking, Boots
  <2> QED
    BY <2>2, <2>3, <2>4, <2>5, <2>6, Zenon DEF SendInit
<1>CloneThread. ASSUME NEW i \in Ids, CloneThread(i) PROVE Sourced'
  <2> USE <1>CloneThread
  <2>1. pc[i] = "clone" /\ pc[i] \in Boots
    BY Zenon DEF CloneThread, Boots
  <2>2. PICK k \in Ids : k = arg[i]
    BY <2>1, BootSocket, Zenon
  <2>3. k # i /\ pc[k] = "none" /\ Typed /\ Alive(i) /\ From(k, proc[i])
    BY <2>1, <2>2, BootSocket, SourcedParts, Zenon DEF Booting
  <2>4. UNCHANGED <<guest, server, c2s, s2c>>
    BY Zenon DEF CloneThread
  <2>5. CASE Goto(i, "run", 0) /\ UNCHANGED proc
    BY <2>3, <2>4, <2>5, SourcedTakes, Zenon DEF Boots
  <2>6. CASE /\ pc' = [pc EXCEPT ![i] = "run", ![k] = "run"]
             /\ arg' = [arg EXCEPT ![i] = 0]
             /\ proc' = [proc EXCEPT ![k] = proc[i]]
    <3>1. /\ pc'[i] = "run" /\ pc'[k] = "run"
          /\ \A j \in Ids \ {i, k} : pc'[j] = pc[j] /\ arg'[j] = arg[j]
          /\ proc'[k] = proc[i] /\ \A j \in Ids \ {k} : proc'[j] = proc[j]
      BY <2>3, <2>6, Zenon DEF Typed
    <3>2. \A t \in Ids : Same(t) /\ job'[t] = job[t]
      BY <2>4, Zenon DEF Same, server
    <3>3. \A t, p : From(t, p)' <=> From(t, p)
      BY <2>4, Zenon DEF From, guest, server
    <3>4. Memory' /\ Jobs' /\ \A t \in Ids : Carried(t)'
      BY <2>4, <3>2, CarriedSame, SourcedParts, Zenon DEF Memory, Jobs, guest, server
    <3>5. \A j \in Ids : Alive(j)' => From(j, proc'[j])
      BY <2>3, <3>1, SourcedParts, Zenon DEF Alive
    <3>6. \A j \in Ids : pc'[j] \in Boots => From(arg'[j], proc'[j])
      BY <3>1, SourcedParts, Zenon DEF Boots
    <3>7. \A j, n \in Ids : Forking(j)' /\ Given(j, n)' => From(n, proc'[j])
      BY <3>1, <3>2, SameSocket, SourcedParts, Zenon DEF Forking
    <3>8. \A j \in Ids : pc'[j] = "get" => Answering(j)'
      BY <2>4, <3>1, <3>2, AnsweringSame, SourcedParts, Zenon DEF guest
    <3> QED
      BY <3>3, <3>4, <3>5, <3>6, <3>7, <3>8, SourcedFold, Zenon
  <2> QED
    BY <2>2, <2>5, <2>6, Zenon DEF CloneThread
<1>CloneProcess. ASSUME NEW i \in Ids, CloneProcess(i) PROVE Sourced'
  <2> USE <1>CloneProcess
  <2>1. pc[i] = "fork" /\ pc[i] \in Boots
    BY Zenon DEF CloneProcess, Boots
  <2>2. PICK k \in Ids : k = arg[i]
    BY <2>1, BootSocket, Zenon
  <2>3. k # i /\ pc[k] = "none" /\ Typed /\ Alive(i) /\ From(k, proc[i]) /\ proc[i] \in Ids
    BY <2>1, <2>2, BootSocket, SourcedParts, Zenon DEF Booting, Typed
  <2>4. UNCHANGED <<stamp, server, c2s, s2c>>
    BY Zenon DEF CloneProcess
  <2>5. CASE Goto(i, "run", 0) /\ UNCHANGED <<proc, mem, seen>>
    BY <2>3, <2>4, <2>5, SourcedTakes, Zenon DEF Boots, guest
  <2>6. CASE /\ pc' = [pc EXCEPT ![i] = "close", ![k] = "finalize"]
             /\ proc' = [proc EXCEPT ![k] = k]
             /\ mem' = [mem EXCEPT ![k] = mem[proc[i]]]
             /\ seen' = [seen EXCEPT ![k] = seen[proc[i]]]
             /\ UNCHANGED arg
    <3>1. /\ pc'[i] = "close" /\ pc'[k] = "finalize"
          /\ \A j \in Ids \ {i, k} : pc'[j] = pc[j] /\ arg'[j] = arg[j]
          /\ proc'[k] = k /\ \A j \in Ids \ {k} : proc'[j] = proc[j]
      BY <2>3, <2>6, Zenon DEF Typed
    <3>2. \A t \in Ids : Same(t) /\ job'[t] = job[t]
      BY <2>4, Zenon DEF Same, server
    <3>3. /\ seen'[k] = seen[proc[i]] /\ mem'[k] = mem[proc[i]]
          /\ \A p \in Ids \ {k} : seen'[p] = seen[p] /\ mem'[p] = mem[p]
          /\ UNCHANGED pages
      BY <2>4, <2>6, SourcedParts, Zenon DEF Memory, server
    <3>4. /\ \A t \in Ids, p \in Ids \ {k} : From(t, p)' <=> From(t, p)
          /\ From(k, k)'
      BY <2>3, <3>3, Zenon DEF From
    <3>5. Memory'
      BY <2>3, <2>4, <2>6, <3>3, SourcedParts, Zenon DEF Memory
    <3>6. Jobs' /\ \A t \in Ids : Carried(t)'
      BY <2>4, <3>2, CarriedSame, SourcedParts, Zenon DEF Jobs, server
    <3>7. \A j \in Ids \ {k} : Alive(j)' => Alive(j) /\ proc'[j] = proc[j] /\ proc[j] \in Ids \ {k}
      BY <2>3, <3>1, HeldParts DEF Alive, Typed
    <3>8. \A j \in Ids : Alive(j)' => From(j, proc[j])'
      BY <3>1, <3>4, <3>7, SourcedParts, Zenon
    <3>9. ASSUME NEW j \in Ids, pc'[j] \in Boots PROVE From(arg[j], proc[j])'
      <4>1. j \notin {i, k} /\ pc[j] \in Boots /\ arg'[j] = arg[j] /\ Alive(j)'
        BY <3>1, <3>9, Zenon DEF Boots, Alive
      <4>2. arg[j] \in Ids /\ From(arg[j], proc[j])
        BY <4>1, BootArguments, SourcedParts, Zenon
      <4> QED
        BY <3>4, <3>7, <4>1, <4>2, Zenon
    <3>10. ASSUME NEW j \in Ids, NEW n \in Ids, Forking(j)', Given(j, n)' PROVE From(n, proc[j])'
      <4>1. j \notin {i, k} /\ Forking(j) /\ Given(j, n) /\ Alive(j)'
        BY <3>1, <3>2, <3>10, SameSocket, Zenon DEF Forking, Alive
      <4>2. From(n, proc[j])
        BY <4>1, SourcedParts, Zenon
      <4> QED
        BY <3>4, <3>7, <4>1, <4>2, Zenon
    <3>11. ASSUME NEW j \in Ids, pc'[j] = "get" PROVE Answering(j)'
      <4>1. j \notin {i, k} /\ pc[j] = "get" /\ arg'[j] = arg[j] /\ Alive(j)'
        BY <3>1, <3>11, Zenon DEF Alive
      <4>2. proc'[j] = proc[j] /\ seen'[proc[j]] = seen[proc[j]]
        BY <3>3, <3>7, <4>1, Zenon
      <4> QED
        BY <3>2, <4>1, <4>2, AnsweringSame, SourcedParts, Zenon
    <3> QED
      BY <3>5, <3>6, <3>8, <3>9, <3>10, <3>11, SourcedFold, Zenon
  <2> QED
    BY <2>2, <2>5, <2>6, Zenon DEF CloneProcess
<1>Forked. ASSUME NEW i \in Ids, ParentCloses(i) \/ Finalize(i) PROVE Sourced'
  <2> USE <1>Forked
  <2>1. Alive(i) /\ Goto(i, "run", 0) /\ UNCHANGED <<proc, guest, server, c2s, s2c>>
    BY Zenon DEF ParentCloses, Finalize, Alive
  <2> QED
    BY <2>1, SourcedTakes, Zenon DEF Boots
<1>Store. ASSUME NEW i \in Ids, NEW h \in Pages, Store(i, h) PROVE Sourced'
  <2> USE <1>Store
  <2>1. stamp < MaxStamp /\ stamp' = stamp + 1 /\ UNCHANGED <<client, c2s, s2c, server>>
    BY Zenon DEF Store
  <2>2. PICK p \in Ids : p = proc[i]
    BY BootArguments, Zenon DEF Typed
  <2>3. PICK v \in {stamp + 1, Absent} :
          /\ mem' = [mem EXCEPT ![p][h] = v]
          /\ seen' = [seen EXCEPT ![p][h] = @ \union {v}]
    BY <2>2, Zenon DEF Store
  <2>4. MaxStamp \in Nat /\ Absent = -1 /\ stamp \in 0 .. MaxStamp
    BY TranslatorAssumption, SourcedParts, Zenon DEF Memory, Absent
  <2>5. v \in Absent .. MaxStamp /\ stamp' \in 0 .. MaxStamp
    BY <2>1, <2>4
  <2>6. \A q \in Ids, g \in Pages : seen[q][g] \subseteq seen'[q][g]
    BY <2>3, SourcedParts, Zenon DEF Memory
  <2>7. Memory'
    <3>1. mem' \in [Ids -> [Pages -> Absent .. MaxStamp]]
      BY <2>3, <2>5, SourcedParts, Zenon DEF Memory
    <3>2. seen' \in [Ids -> [Pages -> SUBSET (Absent .. MaxStamp)]]
      BY <2>3, <2>5, SourcedParts, Zenon DEF Memory
    <3>3. pages' \in [Ids -> [Pages -> Absent .. MaxStamp]]
      BY <2>1, SourcedParts, Zenon DEF Memory, server
    <3>4. \A q \in Ids, g \in Pages : mem'[q][g] \in seen'[q][g]
      BY <2>3, SourcedParts, Zenon DEF Memory
    <3> QED
      BY <2>5, <3>1, <3>2, <3>3, <3>4, Zenon DEF Memory
  <2>8. \A t, q \in Ids : From(t, q) => From(t, q)'
    BY <2>1, <2>6, Zenon DEF From, server
  <2>9. \A t \in Ids : Same(t) /\ job'[t] = job[t]
    BY <2>1, Zenon DEF Same, server
  <2>10. Jobs' /\ \A t \in Ids : Carried(t)'
    BY <2>1, <2>9, CarriedSame, SourcedParts, Zenon DEF Jobs, server
  <2>11. UNCHANGED <<pc, arg, proc>> /\ \A j \in Ids : proc[j] \in Ids
    BY <2>1, BootArguments, Zenon DEF client, Typed
  <2>12. \A j \in Ids : Alive(j)' => From(j, proc[j])'
    BY <2>8, <2>11, SourcedParts, Zenon DEF Alive
  <2>13. \A j \in Ids : pc'[j] \in Boots => From(arg[j], proc[j])'
    BY <2>8, <2>11, BootArguments, SourcedParts, Zenon
  <2>14. \A j, n \in Ids : Forking(j)' /\ Given(j, n)' => From(n, proc[j])'
    BY <2>8, <2>9, <2>11, SameSocket, SourcedParts, Zenon DEF Forking
  <2>15. \A j \in Ids : pc'[j] = "get" => Answering(j)'
    BY <2>6, <2>9, <2>11, AnsweringSame, SourcedParts, Zenon
  <2> QED
    BY <2>7, <2>10, <2>12, <2>13, <2>14, <2>15, SourcedFold, Zenon
<1>Exit. ASSUME NEW S \in SUBSET Ids, End(S), UNCHANGED <<proc, guest, server, c2s, s2c>>
         PROVE  Sourced'
  <2> USE <1>Exit
  <2>1. /\ \A j \in S : pc'[j] = "gone"
        /\ \A j \in Ids \ S : pc'[j] = pc[j] /\ arg'[j] = arg[j]
    BY Zenon DEF End
  <2>2. \A t \in Ids : Same(t) /\ job'[t] = job[t]
    BY Zenon DEF Same, server
  <2>3. \A t, q : From(t, q)' <=> From(t, q)
    BY Zenon DEF From, server, guest
  <2>4. Memory' /\ Jobs' /\ \A t \in Ids : Carried(t)'
    BY <2>2, CarriedSame, SourcedParts, Zenon DEF Memory, Jobs, server, guest
  <2>5. \A j \in Ids : Alive(j)' => From(j, proc[j])'
    BY <2>1, <2>3, SourcedParts, Zenon DEF Alive
  <2>6. \A j \in Ids : pc'[j] \in Boots => From(arg[j], proc[j])'
    BY <2>1, <2>3, SourcedParts, Zenon DEF Boots
  <2>7. \A j, n \in Ids : Forking(j)' /\ Given(j, n)' => From(n, proc[j])'
    BY <2>1, <2>2, <2>3, SameSocket, SourcedParts, Zenon DEF Forking
  <2>8. \A j \in Ids : pc'[j] = "get" => Answering(j)'
    BY <2>1, <2>2, AnsweringSame, SourcedParts, Zenon DEF guest
  <2> QED
    BY <2>4, <2>5, <2>6, <2>7, <2>8, SourcedFold, Zenon
(* A server that has ended. *)
<1>Stop. ASSUME NEW k \in Ids, Unexpected(k) \/ Crash(k) PROVE Sourced'
  <2> USE <1>Stop
  <2>1. Typed
    BY BootArguments, Zenon
  <2>2. /\ sv'[k] \in {"exited", "lost"} /\ \A t \in Ids \ {k} : sv'[t] = sv[t]
        /\ UNCHANGED <<client, guest, c2s, s2c, pages, job>>
    BY <2>1, Zenon DEF Unexpected, Crash, Typed
  <2>3. /\ \A id : (Asked(k, id)' <=> Asked(k, id)) /\ (Told(k, id)' <=> Told(k, id))
        /\ Arg(k)' = Arg(k) /\ \A n : Given(k, n)' => Given(k, n)
    BY <2>2, Zenon DEF Asked, Told, Arg, Given
  <2>4. Carried(k)'
    BY <2>2, <2>3, SourcedParts, Zenon DEF Carried
  <2>5. pc[k] = "get" => Answering(k)'
    BY <2>2, <2>3, SourcedParts, Zenon DEF Answering, Code, client, guest
  <2>6. Jobs' /\ pages' \in [Ids -> [Pages -> Absent .. MaxStamp]]
    BY <2>2, SourcedParts, Zenon DEF Jobs, Memory
  <2> QED
    BY <2>2, <2>3, <2>4, <2>5, <2>6, SourcedServer, Zenon DEF Same
<1>RecvInit. ASSUME NEW k \in Ids, RecvInit(k) PROVE Sourced'
  <2> USE <1>RecvInit
  <2>1. ssock[k] = k /\ Typed /\ Wire(k)
    BY ServerSocket, Zenon
  <2>2. Asked(k, "C_INIT")
    BY <2>1, IncomingAsked, Zenon DEF RecvInit, Incoming
  <2>3. /\ c2s'[k] = <<>> /\ \A t \in Ids \ {k} : c2s'[t] = c2s[t]
        /\ UNCHANGED <<client, guest, pages, job>>
    BY <2>1, <2>2, Consumed, Zenon DEF RecvInit
  <2> DEFINE m == Message("S_INIT", 0)  n == Message("S_OBJECT", NoObject)
  <2>4. Reply(k, <<m, n>>, "loop")
    BY Zenon DEF RecvInit, SendObject
  <2> HIDE DEF m, n
  <2>5. /\ \A t \in Ids \ {k} : s2c'[t] = s2c[t] /\ sv'[t] = sv[t]
        /\ s2c'[k] \in {<<>>, <<m, n>>} /\ sv'[k] \in {"loop", "exited"}
    <3>1. s2c[k] = <<>> /\ <<>> \o <<m, n>> = <<m, n>>
      BY <2>2, Two, Zenon DEF Asked
    <3> QED
      BY <2>1, <2>4, <3>1, ReplyParts, Zenon
  <2>6. \A id : ~Told(k, id)'
    BY <2>5, Two DEF Told
  <2>7. Jobs'
    BY <2>3, SourcedParts, Zenon DEF Jobs
  <2> QED
    BY <2>3, <2>5, <2>6, <2>7, DoneSourced, Zenon DEF Same, Given
<1>Translated. ASSUME NEW k \in Ids, Translated(k) PROVE Sourced'
  <2> USE <1>Translated
  <2>1. ssock[k] = k /\ Typed /\ Wire(k) /\ sv[k] = "read" /\ UNCHANGED <<client, guest, c2s, pages>>
    BY ServerSocket, Zenon DEF Translated
  <2>2. Quiet(k)
    BY <2>1, Zenon DEF Wire
  <2>3. PICK o : /\ o \in {[of |-> job[k].of, code |-> job[k].code], NoObject}
                 /\ Reply(k, <<Message("S_OBJECT", o)>>, "loop")
    BY Zenon DEF Translated, SendObject
  <2>4. pc[k] = "get" => o.of \in {0, arg[k]} /\ Code(o.code, proc[k])
    <3>1. NoObject.of = 0 /\ Code(NoObject.code, proc[k])
      BY Zenon DEF NoObject, Code
    <3>2. pc[k] = "get" => job[k].of = arg[k] /\ Code(job[k].code, proc[k])
      BY <2>1, SourcedParts, Zenon DEF Answering
    <3>3. CASE o = [of |-> job[k].of, code |-> job[k].code]
      <4>1. o.of = job[k].of /\ o.code = job[k].code
        BY <3>3, Zenon
      <4> QED
        BY <3>2, <4>1, Zenon
    <3> QED
      BY <2>3, <3>1, <3>3, Zenon
  <2>5. /\ \A t \in Ids \ {k} : s2c'[t] = s2c[t] /\ sv'[t] = sv[t]
        /\ s2c'[k] \in {<<>>, <<Message("S_OBJECT", o)>>} /\ sv'[k] \in {"loop", "exited"}
    <3>1. s2c[k] = <<>>
      BY <2>2, Zenon DEF Quiet
    <3> QED
      BY <2>1, <2>3, <3>1, ReplyOne, Zenon
  <2>6. /\ \A id : Told(k, id)' => id = "S_OBJECT" /\ Head(s2c'[k]).arg = o
        /\ \A n : ~Given(k, n)'
    BY <2>5, One DEF Told, Message, Given
  <2>7. Jobs' /\ \A t \in Ids \ {k} : job'[t] = job[t]
    BY SourcedParts, Zenon DEF Jobs, Translated, NoJob
  <2> QED
    BY <2>1, <2>2, <2>4, <2>5, <2>6, <2>7, DoneSourced DEF Same, Quiet
<1>RecvTranslate. ASSUME NEW k \in Ids, RecvTranslate(k) PROVE Sourced'
  <2> USE <1>RecvTranslate
  <2>1. ssock[k] = k /\ Typed /\ Wire(k) /\ Using(k)
    BY ServerSocket, Zenon
  <2>2. Asked(k, "C_TRANSLATE") /\ sv[k] = "loop"
    BY <2>1, IncomingAsked, Zenon DEF RecvTranslate, Incoming
  <2>3. /\ c2s'[k] = <<>> /\ \A t \in Ids \ {k} : c2s'[t] = c2s[t]
        /\ UNCHANGED <<client, guest, pages, s2c>>
    BY <2>1, <2>2, Consumed, Zenon DEF RecvTranslate
  <2>4. PICK a \in Addrs : a = Head(c2s[k]).arg
    BY <2>2, SourcedParts, Zenon DEF Carried
  <2>5. /\ sv'[k] = "read" /\ \A t \in Ids \ {k} : sv'[t] = sv[t] /\ job'[t] = job[t]
        /\ job'[k] = [of |-> a, todo |-> Reads[a], code |-> {}]
    BY <2>1, <2>4, SourcedParts, Zenon DEF RecvTranslate, Typed, Jobs
  <2>6. Jobs'
    <3>1. [of |-> a, todo |-> Reads[a], code |-> {}] \in
            [of : Addrs \union {0}, todo : Seq(Pages), code : SUBSET (Pages \X (Absent .. MaxStamp))]
      BY TranslatorAssumption, Zenon
    <3> QED
      BY <2>1, <2>4, <3>1, SourcedParts, Zenon DEF RecvTranslate, Jobs
  <2>7. s2c'[k] = <<>>
    BY <2>2, <2>3, Zenon DEF Asked
  <2>8. Carried(k)' /\ \A n \in Ids : ~Given(k, n)'
    BY <2>3, <2>5, <2>7, Zenon DEF Carried, Asked, Told, Given
  <2>9. pc[k] = "get" => Answering(k)'
    <3>1. pc[k] = "get" => a = arg[k]
      BY <2>1, <2>2, <2>4, Zenon DEF Using, Asked, Told, Ready
    <3>2. \A id : ~Told(k, id)' /\ ~Asked(k, id)'
      BY <2>3, <2>7, Zenon DEF Told, Asked
    <3>3. job'[k].of = a /\ job'[k].code = {}
      BY <2>5
    <3>4. pc[k] = "get" => (job[k].of = arg[k] /\ Code(job[k].code, proc[k]))'
      BY <2>3, <3>1, <3>3, Zenon DEF Code, client
    <3> QED
      BY <3>2, <3>4, Zenon DEF Answering
  <2>10. pages' \in [Ids -> [Pages -> Absent .. MaxStamp]]
    BY <2>3, SourcedParts, Zenon DEF Memory
  <2> QED
    BY <2>3, <2>5, <2>6, <2>8, <2>9, <2>10, SourcedServer, Zenon DEF Same
<1>GetPage. ASSUME NEW k \in Ids, GetPage(k) PROVE Sourced'
  <2> USE <1>GetPage
  <2>1. /\ ssock[k] = k /\ Typed /\ Wire(k) /\ sv[k] = "read" /\ job[k].todo # <<>>
        /\ UNCHANGED <<client, guest, c2s, pages>>
    BY ServerSocket, Zenon DEF GetPage
  <2>2. Quiet(k)
    BY <2>1, Zenon DEF Wire
  <2>3. PICK g \in Pages : g = Head(job[k].todo)
    BY <2>1, SourcedParts DEF Jobs
  <2>4. pages' \in [Ids -> [Pages -> Absent .. MaxStamp]] /\ pages[k][g] \in Absent .. MaxStamp
    BY <2>1, SourcedParts, Zenon DEF Memory
  <2>5. CASE pages[k][g] # Absent /\ Read(k, g, pages[k][g]) /\ UNCHANGED <<s2c, sv>>
    <3>1. /\ Jobs' /\ job'[k].of = job[k].of
          /\ job'[k].code = job[k].code \union {<<g, pages[k][g]>>}
          /\ \A t \in Ids \ {k} : job'[t] = job[t]
      <4>1. PICK v \in Absent .. MaxStamp : v = pages[k][g]
        BY <2>4, Zenon
      <4>2. Read(k, g, v)
        BY <2>5, <4>1, Zenon
      <4>3. /\ Jobs' /\ job'[k].of = job[k].of /\ job'[k].code = job[k].code \union {<<g, v>>}
            /\ \A t \in Ids \ {k} : job'[t] = job[t]
        BY <2>1, <4>2, ReadJob, SourcedParts, Zenon
      <4> QED
        BY <4>1, <4>3, Zenon
    <3>2. Carried(k)' /\ \A n \in Ids : ~Given(k, n)'
      BY <2>1, <2>2, <2>5, Zenon DEF Carried, Asked, Told, Given, Quiet
    <3>3. ASSUME pc[k] = "get" PROVE Answering(k)'
      <4>1. job[k].of = arg[k] /\ Code(job[k].code, proc[k]) /\ From(k, proc[k])
        BY <2>1, <3>3, SourcedParts, Zenon DEF Answering, Alive
      <4>2. pages[k][g] \in seen[proc[k]][g]
        BY <2>5, <4>1, Zenon DEF From
      <4>3. Code(job'[k].code, proc[k])
        <5>1. Code(job[k].code \union {<<g, pages[k][g]>>}, proc[k])
          BY <4>1, <4>2, MoreCode, Zenon
        <5> QED
          BY <3>1, <5>1, Zenon
      <4>4. Quiet(k)' /\ sv'[k] = "read"
        BY <2>1, <2>2, <2>5, Zenon DEF Quiet
      <4> QED
        BY <2>1, <3>1, <4>1, <4>3, <4>4, Zenon DEF Answering, Code, Told, Quiet, client,
           guest
    <3> QED
      BY <2>1, <2>4, <2>5, <3>1, <3>2, <3>3, SourcedServer, Zenon DEF Same
  <2>6. CASE Reply(k, <<Message("S_MEMREQ", g)>>, "membuf") /\ UNCHANGED job
    <3>1. Jobs'
      BY <2>6, SourcedParts, Zenon DEF Jobs
    <3>2. /\ \A t \in Ids \ {k} : s2c'[t] = s2c[t] /\ sv'[t] = sv[t]
          /\ \/ s2c'[k] = <<Message("S_MEMREQ", g)>> /\ sv'[k] = "membuf"
             \/ s2c'[k] = <<>> /\ sv'[k] = "exited"
      <4>1. s2c[k] = <<>>
        BY <2>2, Zenon DEF Quiet
      <4> QED
        BY <2>1, <2>6, <4>1, ReplyOne, Zenon
    <3>3. \A id : Told(k, id)' => id = "S_MEMREQ" /\ Head(s2c'[k]).arg = g
      <4>1. AtMost(k, "S_MEMREQ", g)'
        BY <3>2, Zenon DEF AtMost
      <4> QED
        BY <4>1, ToldOne, Zenon
    <3>4. c2s'[k] = <<>>
      BY <2>1, <2>2, Zenon DEF Quiet
    <3>5. Carried(k)' /\ \A n \in Ids : ~Given(k, n)'
      <4>1. \A id : ~Asked(k, id)'
        BY <3>4, Zenon DEF Asked
      <4>2. Told(k, "S_MEMREQ")' => Arg(k)' \in Pages
        BY <3>3, Zenon DEF Arg
      <4>3. ~Told(k, "S_FD")'
        BY <3>3, Replies, Zenon
      <4>4. job'[k].todo # <<>>
        BY <2>1, <2>6, Zenon
      <4> QED
        BY <4>1, <4>2, <4>3, <4>4, Zenon DEF Carried, Given
    <3>6. ASSUME pc[k] = "get" PROVE Answering(k)'
      <4>1. job[k].of = arg[k] /\ Code(job[k].code, proc[k])
        BY <2>1, <3>6, SourcedParts, Zenon DEF Answering
      <4>2. (job[k].of = arg[k] /\ Code(job[k].code, proc[k]))'
        BY <2>1, <2>6, <4>1, Zenon DEF Code, client, guest
      <4>3. Told(k, "S_MEMREQ")' => (Arg(k) = Head(job[k].todo))'
        BY <2>3, <2>6, <3>3, Zenon DEF Arg
      <4>4. ~Told(k, "S_OBJECT")' /\ ~Asked(k, "C_MEMBUF")'
        BY <3>3, <3>4, Replies, Zenon DEF Asked
      <4> QED
        BY <4>2, <4>3, <4>4, Zenon DEF Answering
    <3> QED
      BY <2>1, <2>4, <2>6, <3>1, <3>2, <3>5, <3>6, SourcedServer, Zenon DEF Same
  <2> QED
    BY <2>3, <2>5, <2>6, Zenon DEF GetPage
<1>RecvMembuf. ASSUME NEW k \in Ids, RecvMembuf(k) PROVE Sourced'
  <2> USE <1>RecvMembuf
  <2>1. ssock[k] = k /\ Typed /\ Wire(k)
    BY ServerSocket, Zenon
  <2>2. Asked(k, "C_MEMBUF") /\ sv[k] = "membuf"
    BY <2>1, IncomingAsked, Zenon DEF RecvMembuf, Incoming
  <2>3. /\ c2s'[k] = <<>> /\ \A t \in Ids \ {k} : c2s'[t] = c2s[t]
        /\ UNCHANGED <<client, guest>>
    BY <2>1, <2>2, Consumed, Zenon DEF RecvMembuf
  <2>4. PICK g \in Pages : g = Head(job[k].todo) /\ job[k].todo # <<>>
    <3>1. job[k].todo \in Seq(Pages) /\ job[k].todo # <<>>
      BY <2>2, SourcedParts, Zenon DEF Jobs, Carried
    <3> QED
      BY <3>1
  <2>5. PICK v \in Absent .. MaxStamp : v = Head(c2s[k]).arg
    BY <2>2, SourcedParts, Zenon DEF Carried
  <2>6. /\ \A i \in Ids : arg[i] = k => pc[i] \notin Boots
        /\ pc[k] \in {"none", "gone", "get"} /\ ~Ready(k, {"loop"})
    BY <2>2, Translating, Zenon DEF Forking, Asked
  <2>7. \A i \in Ids : ~Given(i, k)
    BY <2>6, ConversationParts, Zenon DEF HandedOver, Idle
  <2>8. pc[k] = "get" => /\ job[k].of = arg[k] /\ Code(job[k].code, proc[k])
                         /\ From(k, proc[k]) /\ v \in seen[proc[k]][g]
    BY <2>2, <2>4, <2>5, SourcedParts, Zenon DEF Answering, Alive
  <2>9. s2c[k] = <<>>
    BY <2>2, Zenon DEF Asked
  <2>10. CASE /\ pages' = [pages EXCEPT ![k][g] = v] /\ Read(k, g, v)
              /\ sv' = [sv EXCEPT ![k] = "read"] /\ UNCHANGED s2c
    <3>1. /\ Jobs' /\ job'[k].of = job[k].of
          /\ job'[k].code = job[k].code \union {<<g, v>>}
          /\ \A t \in Ids \ {k} : job'[t] = job[t]
      BY <2>4, <2>10, ReadJob, SourcedParts, Zenon
    <3>2. /\ pages' \in [Ids -> [Pages -> Absent .. MaxStamp]]
          /\ pages'[k] = [pages[k] EXCEPT ![g] = v] /\ \A t \in Ids \ {k} : pages'[t] = pages[t]
      BY <2>10, SourcedParts, Zenon DEF Memory
    <3>3. sv'[k] = "read" /\ Quiet(k)' /\ \A t \in Ids \ {k} : sv'[t] = sv[t]
      BY <2>1, <2>3, <2>9, <2>10, Zenon DEF Typed, Quiet
    <3>4. Carried(k)' /\ \A n \in Ids : ~Given(k, n)'
      BY <3>3, Zenon DEF Carried, Asked, Told, Given, Quiet
    <3>5. Alive(k) => From(k, proc[k])'
      <4>1. pages[k] \in [Pages -> Absent .. MaxStamp]
        BY SourcedParts, Zenon DEF Memory
      <4> QED
        BY <2>3, <2>6, <2>8, <3>2, <4>1, Zenon DEF From, Alive, client, guest
    <3>6. pc[k] = "get" => Answering(k)'
      <4>1. pc[k] = "get" => Code(job'[k].code, proc[k])
        <5>1. pc[k] = "get" => Code(job[k].code \union {<<g, v>>}, proc[k])
          BY <2>8, MoreCode, Zenon
        <5> QED
          BY <3>1, <5>1, Zenon
      <4> QED
        BY <2>3, <2>8, <3>1, <3>3, <4>1, Zenon DEF Answering, Code, Told, Quiet, client,
           guest
    <3> QED
      BY <2>3, <2>6, <2>7, <2>10, <3>1, <3>2, <3>3, <3>4, <3>5, <3>6, SourcedServer, Zenon
         DEF Same
  <2>11. CASE /\ Reply(k, <<Message("S_OBJECT", NoObject)>>, "loop")
              /\ job' = [job EXCEPT ![k] = NoJob] /\ UNCHANGED pages
    <3>1. /\ \A t \in Ids \ {k} : s2c'[t] = s2c[t] /\ sv'[t] = sv[t]
          /\ s2c'[k] \in {<<>>, <<Message("S_OBJECT", NoObject)>>} /\ sv'[k] \in {"loop", "exited"}
      BY <2>1, <2>9, <2>11, ReplyOne, Zenon
    <3>2. /\ \A id : Told(k, id)' => id = "S_OBJECT" /\ Head(s2c'[k]).arg = NoObject
          /\ \A n : ~Given(k, n)'
      <4>1. AtMost(k, "S_OBJECT", NoObject)'
        BY <3>1, Zenon DEF AtMost
      <4>2. \A id : Told(k, id)' => id = "S_OBJECT" /\ Head(s2c'[k]).arg = NoObject
        BY <4>1, ToldOne, Zenon
      <4>3. ~Told(k, "S_FD")'
        BY <4>2, Replies, Zenon
      <4> QED
        BY <4>2, <4>3, Zenon DEF Given
    <3>3. Jobs' /\ \A t \in Ids \ {k} : job'[t] = job[t]
      BY <2>11, SourcedParts DEF Jobs, NoJob
    <3>4. NoObject.of = 0 /\ Code(NoObject.code, proc[k])
      BY Zenon DEF NoObject, Code
    <3> QED
      <4>1. ~Told(k, "S_MEMREQ")'
        BY <3>2, Replies, Zenon
      <4>2. Told(k, "S_OBJECT")' => /\ Head(s2c'[k]).arg.of \in {0, arg[k]}
                                    /\ Code(Head(s2c'[k]).arg.code, proc[k])
        BY <3>2, <3>4, Zenon
      <4> QED
        BY <2>3, <2>11, <3>1, <3>2, <3>3, <4>1, <4>2, DoneSourced, Zenon DEF Same
  <2>12. CASE /\ job' = [job EXCEPT ![k].todo = Tail(@)] /\ UNCHANGED <<pages, s2c>>
              /\ sv' = [sv EXCEPT ![k] = "read"]
    <3>1. /\ Jobs' /\ job'[k].of = job[k].of /\ job'[k].code = job[k].code
          /\ \A t \in Ids \ {k} : job'[t] = job[t]
      <4>1. job[k] \in [of : Addrs \union {0}, todo : Seq(Pages),
                        code : SUBSET (Pages \X (Absent .. MaxStamp))]
        BY SourcedParts, Zenon DEF Jobs
      <4>2. Tail(job[k].todo) \in Seq(Pages)
        BY <2>4, <4>1
      <4>3. /\ job'[k] = [job[k] EXCEPT !.todo = Tail(@)]
            /\ \A t \in Ids \ {k} : job'[t] = job[t]
            /\ job' = [t \in Ids |-> job'[t]]
        BY <2>12, <4>1, SourcedParts, Zenon DEF Jobs
      <4>4. /\ job'[k] \in [of : Addrs \union {0}, todo : Seq(Pages),
                            code : SUBSET (Pages \X (Absent .. MaxStamp))]
            /\ job'[k].of = job[k].of /\ job'[k].code = job[k].code
        BY <4>1, <4>2, <4>3, Zenon
      <4> QED
        BY <4>3, <4>4, SourcedParts, Zenon DEF Jobs
    <3>2. sv'[k] = "read" /\ Quiet(k)' /\ \A t \in Ids \ {k} : sv'[t] = sv[t]
      BY <2>1, <2>3, <2>9, <2>12, Zenon DEF Typed, Quiet
    <3>3. Carried(k)' /\ \A n \in Ids : ~Given(k, n)'
      BY <3>2, Zenon DEF Carried, Asked, Told, Given, Quiet
    <3>4. pc[k] = "get" => Answering(k)'
      BY <2>3, <2>8, <3>1, <3>2, Zenon DEF Answering, Code, Told, Quiet, client, guest
    <3>5. pages' \in [Ids -> [Pages -> Absent .. MaxStamp]]
      BY <2>12, SourcedParts, Zenon DEF Memory
    <3> QED
      BY <2>3, <2>12, <3>1, <3>2, <3>3, <3>4, <3>5, SourcedServer, Zenon DEF Same
  <2> QED
    BY <2>1, <2>4, <2>5, <2>10, <2>11, <2>12, Zenon DEF RecvMembuf, SendObject
<1>RecvFork. ASSUME NEW k \in Ids, RecvFork(k) PROVE Sourced'
  <2> USE <1>RecvFork
  <2>1. ssock[k] = k /\ Typed /\ Numbered /\ Wire(k)
    BY ServerSocket, Zenon
  <2>2. Asked(k, "C_FORK") /\ sv[k] = "loop"
    BY <2>1, IncomingAsked, Zenon DEF RecvFork, Incoming
  <2>3. /\ c2s'[k] = <<>> /\ \A t \in Ids \ {k} : c2s'[t] = c2s[t]
        /\ UNCHANGED <<client, guest, job>>
    BY <2>1, <2>2, Consumed, Zenon DEF RecvFork
  <2>4. s2c[k] = <<>> /\ Jobs'
    BY <2>2, <2>3, SourcedParts, Zenon DEF Asked, Jobs
  <2>5. CASE Reply(k, <<Message("S_FD", 0)>>, "loop") /\ UNCHANGED pages
    <3>1. /\ \A t \in Ids \ {k} : s2c'[t] = s2c[t] /\ sv'[t] = sv[t]
          /\ s2c'[k] \in {<<>>, <<Message("S_FD", 0)>>} /\ sv'[k] \in {"loop", "exited"}
      BY <2>1, <2>4, <2>5, ReplyOne, Zenon
    <3>2. /\ \A id : Told(k, id)' => id = "S_FD" /\ Head(s2c'[k]).arg = 0
          /\ \A n \in Ids : ~Given(k, n)'
      <4>1. AtMost(k, "S_FD", 0)'
        BY <3>1, Zenon DEF AtMost
      <4>2. \A id : Told(k, id)' => id = "S_FD" /\ Head(s2c'[k]).arg = 0
        BY <4>1, ToldOne, Zenon
      <4> QED
        BY <4>2, NoArgument, Zenon DEF Given, Arg
    <3> QED
      <4>1. ~Told(k, "S_MEMREQ")' /\ ~Told(k, "S_OBJECT")'
        BY <3>2, Replies, Zenon
      <4> QED
        BY <2>3, <2>4, <2>5, <3>1, <3>2, <4>1, DoneSourced, Zenon DEF Same
  <2>6. ASSUME NEW n \in Ids, sv[n] = "none", pages' = [pages EXCEPT ![n] = pages[k]],
               \/ /\ s2c' = [s2c EXCEPT ![k] = Append(@, Message("S_FD", n))]
                  /\ sv' = [sv EXCEPT ![n] = "loop"]
               \/ UNCHANGED s2c /\ sv' = [sv EXCEPT ![n] = "loop", ![k] = "exited"]
        PROVE  Sourced'
    <3>1. /\ n # k /\ pc[n] = "none" /\ Quiet(n) /\ ~Idle(n)
          /\ \A i \in Ids : pc[i] \in Boots => arg[i] # n
      BY <2>1, <2>2, <2>6, ConversationParts, Zenon DEF Numbered, Wire, Booting, Idle,
         Ready
    <3>2. \A r \in Ids : ~Given(r, n)
      BY <3>1, ConversationParts, Zenon DEF HandedOver
    <3>3. /\ \A t \in Ids \ {k} : s2c'[t] = s2c[t]
          /\ \A t \in Ids \ {k, n} : sv'[t] = sv[t]
          /\ s2c'[k] \in {<<>>, <<Message("S_FD", n)>>} /\ sv'[k] \in {"loop", "exited"}
          /\ sv'[n] = "loop"
      <4>1. Append(s2c[k], Message("S_FD", n)) = <<Message("S_FD", n)>> /\ sv[k] = "loop"
        BY <2>2, <2>4, One, Zenon
      <4>2. s2c'[k] \in {<<>>, <<Message("S_FD", n)>>} /\ \A t \in Ids \ {k} : s2c'[t] = s2c[t]
        BY <2>1, <2>4, <2>6, <4>1, Zenon DEF Typed
      <4> QED
        BY <2>1, <2>6, <3>1, <4>1, <4>2, Zenon DEF Typed
    <3>4. /\ \A id : Told(k, id)' => id = "S_FD" /\ Head(s2c'[k]).arg = n
          /\ \A m : Given(k, m)' => m = n
      <4>1. AtMost(k, "S_FD", n)'
        BY <3>3, Zenon DEF AtMost
      <4>2. \A id : Told(k, id)' => id = "S_FD" /\ Head(s2c'[k]).arg = n
        BY <4>1, ToldOne, Zenon
      <4> QED
        BY <4>2, Zenon DEF Given, Arg
    <3>5. /\ pages' \in [Ids -> [Pages -> Absent .. MaxStamp]]
          /\ pages'[n] = pages[k] /\ \A t \in Ids \ {n} : pages'[t] = pages[t]
      BY <2>6, SourcedParts, Zenon DEF Memory
    <3>6. UNCHANGED <<pc, arg, proc, mem, seen, stamp, job>>
      BY <2>3, Zenon DEF client, guest
    <3>7. Memory'
      BY <3>5, <3>6, SourcedParts, Zenon DEF Memory
    <3>8. \A t \in Ids \ {k, n} : Same(t)
      BY <2>3, <3>3, Zenon DEF Same
    <3>9. ASSUME NEW t \in Ids PROVE Carried(t)'
      <4>1. CASE t = k
        <5>1. \A id : ~Asked(k, id)'
          BY <2>3, Zenon DEF Asked
        <5>2. ~Told(k, "S_MEMREQ")'
          BY <3>4, Replies, Zenon
        <5>3. sv'[k] # "membuf"
          BY <3>3
        <5> QED BY <4>1, <5>1, <5>2, <5>3, Zenon DEF Carried
      <4>2. CASE t = n
        BY <2>3, <3>1, <3>3, <4>2, Zenon DEF Carried, Asked, Told, Quiet
      <4>3. CASE t \notin {k, n}
        BY <3>6, <3>8, <4>3, CarriedSame, SourcedParts, Zenon
      <4> QED
        BY <4>1, <4>2, <4>3, Zenon
    <3>10. /\ \A t \in Ids \ {n}, p \in Ids : From(t, p)' <=> From(t, p)
           /\ \A p \in Ids : From(n, p)' <=> From(k, p)
      BY <3>5, <3>6, Zenon DEF From
    <3>11. \A j \in Ids : proc[j] \in Ids
      BY <2>1, Zenon DEF Typed
    <3>12. \A j \in Ids : Alive(j)' => From(j, proc[j])'
      BY <3>1, <3>6, <3>10, <3>11, SourcedParts, Zenon DEF Alive
    <3>13. \A j \in Ids : pc'[j] \in Boots => From(arg[j], proc[j])'
      BY <3>1, <3>6, <3>10, <3>11, BootArguments, SourcedParts, Zenon
    <3>14. ASSUME NEW j \in Ids, NEW m \in Ids, Forking(j)', Given(j, m)' PROVE From(m, proc[j])'
      <4>1. Forking(j) /\ Alive(j)
        BY <3>6, <3>14, Zenon DEF Forking, Alive
      <4>2. CASE j = k
        BY <3>4, <3>6, <3>10, <3>11, <3>14, <4>1, <4>2, SourcedParts, Zenon
      <4>3. CASE j # k
        <5>1. Given(j, m) /\ m # n
          BY <3>1, <3>2, <3>8, <3>14, <4>1, <4>3, SameSocket, Zenon DEF Forking
        <5> QED
          BY <3>6, <3>10, <3>11, <4>1, <5>1, SourcedParts, Zenon
      <4> QED
        BY <4>2, <4>3, Zenon
    <3>15. ASSUME NEW j \in Ids, pc'[j] = "get" PROVE Answering(j)'
      <4>1. pc[j] = "get" /\ j \notin {k, n}
        BY <2>2, <3>1, <3>6, <3>15, Translating, Zenon
      <4> QED
        BY <3>6, <3>8, <4>1, AnsweringSame, SourcedParts, Zenon
    <3> QED
      BY <2>4, <3>7, <3>9, <3>12, <3>13, <3>14, <3>15, SourcedFold, Zenon
  <2> QED
    BY <2>1, <2>5, <2>6, Zenon DEF RecvFork
<1>1. ASSUME NEW i \in Ids, Client(i) PROVE Sourced'
  BY <1>1, <1>ServePage, <1>Get, <1>Fd, <1>Boot, <1>CloneThread,
     <1>CloneProcess, <1>Forked, Zenon DEF Client
<1>2. ASSUME NEW i \in Ids, ExitThread(i) \/ ExitProcess(i) PROVE Sourced'
  BY <1>2, <1>Exit, Zenon DEF ExitThread, ExitProcess, Threads
<1>3. ASSUME NEW i \in Ids, Guest(i) PROVE Sourced'
  BY <1>2, <1>3, <1>Ask, <1>AskFork, <1>Store, Zenon DEF Guest
<1>4. ASSUME NEW k \in Ids, Server(k) \/ Crash(k) PROVE Sourced'
  BY <1>4, <1>RecvInit, <1>RecvTranslate, <1>GetPage, <1>RecvMembuf,
     <1>Translated, <1>RecvFork, <1>Stop, Zenon DEF Server
<1>5. ASSUME UNCHANGED vars PROVE Sourced'
  BY <1>5, SourcedParts, SourcedFold, Zenon DEF vars, client, guest, server, Memory,
     Jobs, Carried, Answering, From, Code, Given, Told, Asked, Arg, Forking, Alive
<1> QED
  BY <1>1, <1>3, <1>4, <1>5, Zenon DEF Next

(* What a server has read and cached, and the bytes on their way to it,    *)
(* are bytes that the process of its thread has had in memory, also after  *)
(* the server and the process have been forked.                            *)
THEOREM SourcedHolds == Spec => []Sourced
<1>1. Init => Sourced
  BY InitSourced, Zenon
<1>2. Conversation /\ Held /\ Sourced /\ [Next]_vars => Sourced'
  BY NextSourced, Zenon
<1> QED
  BY <1>1, <1>2, ConversationHolds, HeldHolds, PTL DEF Spec

(* The object a thread is sent is the one it asked for, made from bytes of *)
(* its own process.                                                        *)
THEOREM ThreadsAnsweredRight == Spec => []AnsweredRight
<1>1. Conversation /\ Sourced => AnsweredRight
  <2> SUFFICES ASSUME Conversation, Sourced, NEW i \in Ids, pc[i] = "get",
                      Arrived(csock[i], "S_OBJECT")
               PROVE  /\ Arg(csock[i]).of \in {0, arg[i]}
                      /\ \A c \in Arg(csock[i]).code : c[2] \in seen[proc[i]][c[1]]
    BY Zenon DEF AnsweredRight
  <2>1. csock[i] = i /\ Wire(i) /\ Using(i)
    BY OwnSocket, Zenon DEF Alive
  <2>2. Told(i, "S_OBJECT")
    BY <2>1, Zenon DEF Arrived, Using, Asked, Told, Ready
  <2> QED
    BY <2>1, <2>2, SourcedParts, Zenon DEF Answering, Code
<1> QED
  BY <1>1, ConversationHolds, SourcedHolds, PTL

(* Client and server stay in step: every variable keeps its type, no       *)
(* header is left over for a later call, and no server meets a message it  *)
(* does not expect.                                                        *)
THEOREM StreamsInSync == Spec => []InSync
<1>1. Conversation /\ Held /\ Sourced => InSync
  <2> SUFFICES ASSUME Conversation, Held, Sourced PROVE InSync
    BY Zenon
  <2>1. Typed /\ Numbered /\ Memory
    BY ConversationParts, SourcedParts, Zenon
  <2>2. ASSUME NEW s \in Ids PROVE Len(c2s[s]) <= 1 /\ Len(s2c[s]) <= 2
    <3> DEFINE m == Head(c2s[s])  n == Head(s2c[s])  o == Head(Tail(s2c[s]))
    <3>1. /\ c2s[s] = <<>> \/ c2s[s] = <<m>>
          /\ s2c[s] = <<>> \/ s2c[s] = <<n>> \/ s2c[s] = <<n, o>>
      BY ConversationParts, Zenon DEF Wire, Quiet, Asked, Told, Booted
    <3> HIDE DEF m, n, o
    <3>2. Len(<<>>) = 0 /\ Len(<<m>>) = 1 /\ Len(<<n>>) = 1 /\ Len(<<n, o>>) = 2
      BY Zenon
    <3>3. Len(c2s[s]) \in {0, 1} /\ Len(s2c[s]) \in {0, 1, 2}
      BY <3>1, <3>2, Zenon
    <3>4. (\A x \in {0, 1} : x <= 1) /\ (\A x \in {0, 1, 2} : x <= 2)
      OBVIOUS
    <3> QED
      BY <3>3, <3>4, Zenon
  <2>3. /\ hdr \in [Ids -> {"UNKNOWN", "S_INIT", "S_OBJECT", "S_MEMREQ", "S_FD"}]
        /\ ssock \in [Ids -> Ids]
    <3>1. hdr = [i \in Ids |-> hdr[i]] /\ ssock = [i \in Ids |-> ssock[i]]
      BY <2>1, Zenon DEF Numbered
    <3> QED
      BY <2>1, <3>1, Zenon DEF Numbered
  <2>4. TypeOK
    BY <2>1, <2>2, <2>3, HeldParts, Zenon DEF TypeOK, Typed, Memory
  <2>5. \A i \in Ids : hdr[i] = "UNKNOWN" /\ sv[i] # "lost"
    BY <2>1, ConversationParts, Zenon DEF Numbered, Wire
  <2> QED
    BY <2>4, <2>5, Zenon DEF InSync
<1> QED
  BY <1>1, ConversationHolds, HeldHolds, SourcedHolds, PTL
==============================================================================
