------------------------------- MODULE Signals -------------------------------
(***************************************************************************)
(* Guest signals (client/emulate.c): the host handler notes a signal in    *)
(* cpu_state->sigpending and blocks all others, and the end of the next    *)
(* system call acts on it.  The host may run the handler between any two   *)
(* steps of the emulation.  Each thread has its own copy of the guest's    *)
(* signal actions; the host's are those of the process.  Guest handlers    *)
(* are not implemented, so that acting on a signal either ends the program *)
(* or does nothing.                                                        *)
(***************************************************************************)
EXTENDS Integers

CONSTANTS
  Threads, First, \* guest threads, and the one that exists from the start
  Sigs,           \* signals other than SIGSEGV and SIGBUS
  Segv,           \* SIGSEGV, SIGBUS
  Abrt,           \* SIGABRT
  Converted,      \* SIGCHLD, SIGURG, SIGWINCH
  Harmless,       \* signals whose default action does not end a process
  Sent,           \* the signals that are sent, by kill or by the kernel
  Masks, Waits,   \* what the guest passes to sigprocmask and to sigsuspend
  Caught,         \* the signals whose action the guest changes
  Acts,           \* the actions it asks for: "dfl", "ign", "guest"
  MaxSends        \* bound: signals sent

All == Sigs \union {Segv}

ASSUME SignalsAssumption ==
  /\ First \in Threads /\ All \subseteq Nat \ {0} /\ Segv \notin Sigs /\ Abrt \in Sigs \ Harmless
  /\ Converted \subseteq Harmless /\ Harmless \subseteq Sigs /\ Sent \union Caught \subseteq All
  /\ Masks \union Waits \subseteq SUBSET All /\ Acts \subseteq {"dfl", "ign", "guest"} /\ MaxSends \in Nat

VARIABLES
  dead,           \* the process was ended by a signal
  hact,           \* per signal: the host's action, "dfl", "ign", "handler"
  ppend, hpend,   \* signals pending on the host, for the process and per thread
  hmask,          \* per thread: the host's signal mask
  smask,          \* per thread: the mask it gave to sigsuspend
  sigact,         \* per thread: state->sigact
  sigmask,        \* per thread: cpu_state->sigmask
  sigpending,     \* per thread: cpu_state->sigpending
  late,           \* history, per thread: the signal was noted between the test of
                  \* sigpending and the update of the host's mask
  pc,             \* per thread: where the emulation is
  sig,            \* per thread: the signal it works on
  dropped,        \* the signals that were dropped
  sends           \* how many were sent

sets == <<hact, sigact>>
queues == <<ppend, hpend, dropped, sends>>
masks == <<hmask, smask, sigmask>>
signalVars == <<dead, pc, sig, sigpending, late, sets, queues, masks>>

SignalInit ==
  /\ dead = FALSE
  /\ hact = [s \in All |-> IF s = Segv THEN "handler" ELSE "dfl"]
  /\ sigact = [t \in Threads |-> [s \in All |-> "dfl"]]
  /\ ppend = {} /\ hpend = [t \in Threads |-> {}] /\ dropped = {} /\ sends = 0
  /\ hmask = [t \in Threads |-> {}] /\ smask = hmask /\ sigmask = hmask
  /\ sigpending = [t \in Threads |-> 0] /\ sig = sigpending
  /\ late = [t \in Threads |-> FALSE]
  /\ pc = [t \in Threads |-> IF t = First THEN "run" ELSE "none"]

In(t, where) == ~dead /\ pc[t] = where
Goto(t, next) == pc' = [pc EXCEPT ![t] = next]
Started(t) == pc[t] \notin {"none", "new"}
Discards(action, s) == action = "ign" \/ (action = "dfl" /\ s \in Harmless)

----------------------------------------------------------------------------
(* The host *)

Send(s) ==
  /\ ~dead /\ sends < MaxSends /\ sends' = sends + 1
  /\ \/ ppend' = ppend \union {s} /\ UNCHANGED hpend
     \/ \E t \in Threads : /\ Started(t)
                           /\ hpend' = [hpend EXCEPT ![t] = @ \union {s}] /\ UNCHANGED ppend
  /\ UNCHANGED <<dead, pc, sig, sigpending, late, sets, dropped, masks>>

(* The mask in the context signal_handler returns to. *)
HandlerMask(t) == All \ {Segv}

(* What a thread blocks: a sigsuspend has a mask of its own. *)
Blocked(t) == IF pc[t] \in {"suspend", "wait"} THEN smask[t] ELSE hmask[t]

(* The default action, or signal_handler on an asynchronous signal. *)
Deliver(t, s) ==
  /\ ~dead /\ Started(t)
  /\ s \in ppend \union hpend[t]
  /\ s \notin Blocked(t)
  /\ IF s \in ppend
     THEN ppend' = ppend \ {s} /\ UNCHANGED hpend
     ELSE hpend' = [hpend EXCEPT ![t] = @ \ {s}] /\ UNCHANGED ppend
  /\ IF hact[s] # "handler"
     THEN /\ dead' = ~Discards(hact[s], s)
          /\ UNCHANGED <<pc, sigpending, late, hmask, dropped>>
     ELSE /\ pc' = CASE pc[t] = "wait" -> [pc EXCEPT ![t] = "end"]
                     [] pc[t] = "suspend" -> [pc EXCEPT ![t] = "unreachable"]
                     [] OTHER -> pc
          /\ IF s \in sigmask[t]
             THEN dropped' = dropped \union {s} /\ UNCHANGED <<sigpending, late, hmask>>
             ELSE /\ sigpending' = [sigpending EXCEPT ![t] = s]
                  /\ late' = [late EXCEPT ![t] = (pc[t] = "update")]
                  /\ hmask' = [hmask EXCEPT ![t] = HandlerMask(t)]
                  /\ UNCHANGED dropped
          /\ UNCHANGED dead
  /\ UNCHANGED <<sig, sets, sends, smask, sigmask>>

----------------------------------------------------------------------------
(* System calls *)

(* One that has nothing to do with signals. *)
Other(t) ==
  /\ In(t, "run") /\ Goto(t, "end")
  /\ UNCHANGED <<dead, sig, sigpending, late, sets, queues, masks>>

(* signal_sigprocmask: the guest's mask, the test, the host's mask. *)
Sigprocmask(t, set) ==
  /\ In(t, "run") /\ Goto(t, "check")
  /\ sigmask' = [sigmask EXCEPT ![t] = set]
  /\ UNCHANGED <<dead, sig, sigpending, late, sets, queues, hmask, smask>>

(* Mutant: the host's mask is updated also while a signal is noted. *)
CheckPendingNot(t) ==
  /\ In(t, "check") /\ Goto(t, "update")
  /\ UNCHANGED <<dead, sig, sigpending, late, sets, queues, masks>>

CheckPending(t) ==
  /\ In(t, "check") /\ Goto(t, IF sigpending[t] = 0 THEN "update" ELSE "end")
  /\ UNCHANGED <<dead, sig, sigpending, late, sets, queues, masks>>

(* Mutant: SIGSEGV and SIGBUS are masked as well. *)
HostMaskAll(t) == sigmask[t]

HostMask(t) == sigmask[t] \ {Segv}

UpdateHostmask(t) ==
  /\ In(t, "update") /\ Goto(t, "end")
  /\ hmask' = [hmask EXCEPT ![t] = HostMask(t)]
  /\ UNCHANGED <<dead, sig, sigpending, late, sets, queues, smask, sigmask>>

(* signal_sigaction: the guest's table, and then the host's action. *)
Sigaction(t, s, act) ==
  /\ In(t, "run") /\ Goto(t, IF s = Segv THEN "end" ELSE "action")
  /\ sigact' = [sigact EXCEPT ![t][s] = act]
  /\ sig' = [sig EXCEPT ![t] = s]
  /\ UNCHANGED <<dead, sigpending, late, hact, queues, masks>>

HostAction(t, s, action) ==
  /\ hact' = [hact EXCEPT ![s] = action]
  /\ ppend' = IF Discards(action, s) THEN ppend \ {s} ELSE ppend
  /\ hpend' = IF Discards(action, s) THEN [u \in Threads |-> hpend[u] \ {s}] ELSE hpend

SetAction(t) ==
  /\ In(t, "action") /\ Goto(t, "end")
  /\ LET act == sigact[t][sig[t]]
     IN  HostAction(t, sig[t], IF act = "guest" THEN "handler" ELSE act)
  /\ UNCHANGED <<dead, sig, sigpending, late, sigact, dropped, sends, masks>>

(* rt_sigsuspend is passed on to the host. *)
Sigsuspend(t, set) ==
  /\ In(t, "run") /\ Goto(t, "wait")
  /\ smask' = [smask EXCEPT ![t] = set]
  /\ UNCHANGED <<dead, sig, sigpending, late, sets, queues, hmask, sigmask>>

(* handle_clone copies the guest's mask and actions, and much later the    *)
(* host copies its mask.                                                   *)
Clone(t, u) ==
  /\ In(t, "run") /\ pc[u] = "none" /\ pc' = [pc EXCEPT ![t] = "clone", ![u] = "new"]
  /\ sigmask' = [sigmask EXCEPT ![u] = sigmask[t]]
  /\ sigact' = [sigact EXCEPT ![u] = sigact[t]]
  /\ UNCHANGED <<dead, sig, sigpending, late, hact, queues, hmask, smask>>

HostClone(t, u) ==
  /\ In(t, "clone") /\ pc[u] = "new" /\ pc' = [pc EXCEPT ![t] = "end", ![u] = "run"]
  /\ hmask' = [hmask EXCEPT ![u] = hmask[t]]
  /\ UNCHANGED <<dead, sig, sigpending, late, sets, queues, smask, sigmask>>

----------------------------------------------------------------------------
(* The end of a system call, and signal_handle *)

(* Mutant: signals wait for another occasion. *)
PendingNever(t) == FALSE

Pending(t) == sigpending[t] # 0

End(t) ==
  /\ In(t, "end") /\ Goto(t, IF Pending(t) THEN "clear" ELSE "run")
  /\ sig' = [sig EXCEPT ![t] = sigpending[t]]
  /\ UNCHANGED <<dead, sigpending, late, sets, queues, masks>>

Clear(t) ==
  /\ In(t, "clear") /\ Goto(t, "act")
  /\ sigpending' = [sigpending EXCEPT ![t] = 0] /\ late' = [late EXCEPT ![t] = FALSE]
  /\ UNCHANGED <<dead, sig, sets, queues, masks>>

Act(t) ==
  /\ In(t, "act") /\ Goto(t, IF sigact[t][sig[t]] = "ign" THEN "run" ELSE "abort")
  /\ UNCHANGED <<dead, sig, sigpending, late, sets, queues, masks>>

(* signal_handler on a synchronous signal: it runs with all blocked. *)
Fault(t) ==
  /\ In(t, "run") /\ Goto(t, "abort")
  /\ sig' = [sig EXCEPT ![t] = Segv] /\ hmask' = [hmask EXCEPT ![t] = All]
  /\ UNCHANGED <<dead, sigpending, late, sets, queues, smask, sigmask>>

Sigreturn(t) ==
  /\ In(t, "run") /\ Goto(t, "abort") /\ sig' = [sig EXCEPT ![t] = Abrt]
  /\ UNCHANGED <<dead, sigpending, late, sets, queues, masks>>

(* Mutant: the signal itself, whatever its default action. *)
AbortSigSame(s) == s

AbortSig(s) == IF s \in Converted THEN Abrt ELSE s

(* abort_with_signal: sigaction, kill, and Deliver in its sigsuspend. *)
AbortAction(t) ==
  /\ In(t, "abort") /\ Goto(t, "kill")
  /\ HostAction(t, AbortSig(sig[t]), "dfl")
  /\ UNCHANGED <<dead, sig, sigpending, late, sigact, dropped, sends, masks>>

AbortKill(t) ==
  /\ In(t, "kill") /\ Goto(t, "suspend")
  /\ ppend' = ppend \union {AbortSig(sig[t])}
  /\ smask' = [smask EXCEPT ![t] = All \ {AbortSig(sig[t])}]
  /\ UNCHANGED <<dead, sig, sigpending, late, sets, hpend, dropped, sends, hmask, sigmask>>

----------------------------------------------------------------------------

Guest(t) ==
  \/ Other(t) \/ Fault(t) \/ Sigreturn(t)
  \/ \E set \in Masks : Sigprocmask(t, set)
  \/ \E set \in Waits : Sigsuspend(t, set)
  \/ \E s \in Caught, act \in Acts : Sigaction(t, s, act)
  \/ \E u \in Threads : Clone(t, u)

Emulation(t) ==
  \/ CheckPending(t) \/ UpdateHostmask(t) \/ SetAction(t) \/ \E u \in Threads : HostClone(t, u)
  \/ End(t) \/ Clear(t) \/ Act(t) \/ AbortAction(t) \/ AbortKill(t)

SignalNext ==
  \/ \E t \in Threads : Guest(t) \/ Emulation(t) \/ \E s \in All : Deliver(t, s)
  \/ \E s \in Sent : Send(s)

SignalSpec == SignalInit /\ [][SignalNext]_signalVars

(* The emulation is straight-line code, and the host delivers what it can. *)
SignalFairSpec ==
  /\ SignalSpec
  /\ \A t \in Threads : WF_signalVars(Emulation(t)) /\ \A s \in All : WF_signalVars(Deliver(t, s))

----------------------------------------------------------------------------

(* The variables have their types; whoever acts on a signal has one.       *)
SignalTypeOK ==
  /\ dead \in BOOLEAN /\ hact \in [All -> {"dfl", "ign", "handler"}]
  /\ ppend \subseteq All /\ hpend \in [Threads -> SUBSET All]
  /\ {hmask, smask, sigmask} \subseteq [Threads -> SUBSET All]
  /\ sigact \in [Threads -> [All -> {"dfl", "ign", "guest"}]]
  /\ {sigpending, sig} \subseteq [Threads -> All \union {0}]
  /\ \A t \in Threads : pc[t] \in {"clear", "act", "abort", "kill", "suspend"} => sig[t] # 0
  /\ late \in [Threads -> BOOLEAN] /\ dropped \subseteq All /\ sends \in 0 .. MaxSends

(* "Should only happen for SIGSEGV and SIGBUS": signal_handler drops no    *)
(* other signal.                                                           *)
DropsOnlySegv == dropped \subseteq {Segv}

(* SIGSEGV and SIGBUS, "which we never mask", reach signal_handler from    *)
(* the code of every thread, whatever mask the guest set.                  *)
SegvUnmasked ==
  \A t \in Threads : pc[t] \in {"abort", "kill", "suspend"} \/ Segv \notin hmask[t]

(* "Keep all signals masked until guest signal handler executed": while a  *)
(* signal is noted, all others but SIGSEGV and SIGBUS stay blocked, so that *)
(* they do not replace it.  The code keeps this with three exceptions.  A  *)
(* signal noted between sigprocmask's test and its update of the mask lets *)
(* others through from the update to the end of the call.  A sigsuspend of *)
(* the guest has the guest's mask, whatever is noted, and blocks the       *)
(* others again only when it returns.  The sigsuspend of abort_with_signal *)
(* lets the signal through that it waits for.                              *)
NotedBlocksOthers ==
  \A t \in Threads : sigpending[t] # 0 =>
    \/ Sigs \subseteq Blocked(t)
    \/ late[t] /\ pc[t] \in {"end", "clear"}
    \/ pc[t] = "wait" /\ Sigs \subseteq hmask[t]
    \/ pc[t] = "suspend" /\ Sigs \ {AbortSig(sig[t])} \subseteq Blocked(t)

Alone == \A t \in Threads \ {First} : pc[t] = "none"

(* In a program with one thread abort_with_signal does not come back from  *)
(* sigsuspend: no handler is installed for the signal it waits for.        *)
NotReached == Alone => pc[First] # "unreachable"

(* A signal noted by the end of a system call is taken by signal_handle. *)
PendingHandled ==
  \A t \in Threads : pc[t] = "end" /\ sigpending[t] # 0 ~> dead \/ sigpending[t] = 0

(* A program with one thread that abort_with_signal is to end does end. *)
AbortEnds == Alone /\ pc[First] = "abort" ~> dead
==============================================================================
