------------------------------- MODULE AddrMap -------------------------------
(***************************************************************************)
(* What the object table of the client's run-time linker promises          *)
(* (client/rtld.h): a partial map from guest addresses to code.  A call of *)
(* rtld_set or rtld_resolve takes effect at one moment between its start   *)
(* and its return.                                                         *)
(***************************************************************************)
EXTENDS Naturals, FiniteSets

CONSTANTS Clients, Addrs, Entries, Capacity

VARIABLES
  map,      \* guest address -> code entry
  call,     \* per client: the call in progress or made last
  answer    \* per client: its answer, "pending" before it took effect

NoCall == [op |-> "none", addr |-> 0]

Calls ==
  [op : {"resolve"}, addr : Addrs] \union
  [op : {"set"}, addr : Addrs, entry : Entries]

Init ==
  /\ map = [a \in {} |-> 0]
  /\ call = [c \in Clients |-> NoCall]
  /\ answer = [c \in Clients |-> "idle"]

Ask(c, q) ==
  /\ answer[c] # "pending"
  /\ call' = [call EXCEPT ![c] = q]
  /\ answer' = [answer EXCEPT ![c] = "pending"]
  /\ UNCHANGED map

Reply(c, r) == answer' = [answer EXCEPT ![c] = r]

Resolve(c) ==
  /\ answer[c] = "pending" /\ call[c].op = "resolve"
  /\ Reply(c, IF call[c].addr \in DOMAIN map THEN map[call[c].addr] ELSE "ENOENT")
  /\ UNCHANGED <<map, call>>

Insert(c) ==
  /\ answer[c] = "pending" /\ call[c].op = "set"
  /\ call[c].addr \notin DOMAIN map \union {0}
  /\ Cardinality(DOMAIN map) < Capacity
  /\ map' = [a \in DOMAIN map \union {call[c].addr} |->
               IF a = call[c].addr THEN call[c].entry ELSE map[a]]
  /\ Reply(c, "ok")
  /\ UNCHANGED call

Refuse(c) ==
  /\ answer[c] = "pending" /\ call[c].op = "set"
  /\ \/ call[c].addr = 0 /\ Reply(c, "EINVAL")
     \/ call[c].addr \in DOMAIN map /\ Reply(c, "EEXIST")
     \/ /\ call[c].addr \notin DOMAIN map \union {0}
        /\ Cardinality(DOMAIN map) = Capacity
        /\ Reply(c, "ENOSPC")
  /\ UNCHANGED <<map, call>>

Next ==
  \E c \in Clients :
    \/ \E q \in Calls : Ask(c, q)
    \/ Resolve(c) \/ Insert(c) \/ Refuse(c)

Spec == Init /\ [][Next]_<<map, call, answer>>
==============================================================================
