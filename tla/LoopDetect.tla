----------------------------- MODULE LoopDetect ------------------------------
(***************************************************************************)
(* loop_detect_check of client/dispatch.c, which print_trace calls for     *)
(* every block when the trace is on: a window of the last blocks, in which *)
(* a return to the first one is reported as a loop, and a count of blocks  *)
(* that follow themselves, at the limit of which the client exits.  One    *)
(* thread: the code's counters are static and have no lock.                *)
(***************************************************************************)
EXTENDS Integers, Sequences, FiniteSets

CONSTANTS
  Window,        \* LOOP_DETECT_WINDOW
  SampleAfter,   \* so many dispatches are all checked,
  SampleEvery,   \* then every so many-th one
  SameBbThreshold,   \* SAME_BB_THRESHOLD
  Blocks,        \* block addresses
  MaxDispatches  \* bound: dispatches

MinLoop == 4

ASSUME LoopAssumption ==
  /\ Window \in Nat /\ Window >= MinLoop
  /\ SampleAfter \in Nat /\ SampleEvery \in Nat \ {0} /\ SameBbThreshold \in Nat \ {0}
  /\ 0 \notin Blocks

VARIABLES
  buf,      \* loop_detect_buf up to loop_detect_len
  count,    \* loop_detect_count
  total,    \* loop_detect_total
  last,     \* same_bb_last_addr
  repeats,  \* same_bb_total_repeats
  exited,   \* _exit(1) was called
  seen,     \* history: the blocks that were not left out by sampling
  since     \* history: how many of them came after the last report

loopVars == <<buf, count, total, last, repeats, exited, seen, since>>

LoopInit ==
  /\ buf = <<>> /\ count = 0 /\ total = 0 /\ last = 0 /\ repeats = 0 /\ exited = FALSE
  /\ seen = <<>> /\ since = 0

(* Mutant: one block more. *)
ClosesLater(addr) == Len(buf) > MinLoop /\ addr = buf[1]

(* The block is the first one of the window. *)
Closes(addr) == Len(buf) >= MinLoop /\ addr = buf[1]

(* Shift the window. *)
Push(w, addr) == Append(IF Len(w) >= Window THEN Tail(w) ELSE w, addr)

SameBb(addr) ==
  IF addr = last
  THEN repeats' = repeats + 1 /\ exited' = (repeats' >= SameBbThreshold) /\ UNCHANGED last
  ELSE last' = addr /\ UNCHANGED <<repeats, exited>>

(* After SampleAfter dispatches most are left out. *)
Sampled(t) == t > SampleAfter => t % SampleEvery = 0

loop_detect_check(addr) ==
  /\ ~exited /\ total < MaxDispatches
  /\ total' = total + 1
  /\ \/ ~Sampled(total') /\ UNCHANGED <<buf, count, last, repeats, exited, seen, since>>
     \/ /\ Sampled(total') /\ buf = <<>>
        /\ buf' = <<addr>> /\ seen' = <<addr>> /\ since' = 1
        /\ UNCHANGED <<count, last, repeats, exited>>
     \/ /\ Sampled(total') /\ buf # <<>>
        /\ buf' = Push(IF Closes(addr) THEN <<>> ELSE buf, addr)
        /\ count' = IF Closes(addr) THEN count + 1 ELSE count
        /\ SameBb(addr)
        /\ seen' = Append(seen, addr)
        /\ since' = IF Closes(addr) THEN 0 ELSE since + 1

LoopNext == \E addr \in Blocks : loop_detect_check(addr)

LoopSpec == LoopInit /\ [][LoopNext]_loopVars

----------------------------------------------------------------------------

Final(s, n) == SubSeq(s, Len(s) - n + 1, Len(s))

(* The window holds the last blocks in the order in which they ran, over   *)
(* shifts, reports and sampling: what is printed as a loop did run.        *)
WindowIsTrace == Len(buf) <= Window /\ buf = Final(seen, Len(buf))

(* The client is stopped when SameBbThreshold blocks have followed         *)
(* themselves, not counting the very first block, and not before.          *)
StopsOnRepeats ==
  exited <=> Cardinality({i \in 3 .. Len(seen) : seen[i] = seen[i - 1]}) >= SameBbThreshold

(* What is reported did happen, and a loop whose length divides the window *)
(* is reported before it filled the window twice, whatever ran before it.  *)
DetectsLoops ==
  /\ WindowIsTrace /\ StopsOnRepeats
  /\ \A p \in MinLoop .. Window :
       /\ Window % p = 0 /\ Len(seen) >= 2 * Window
       /\ \A i \in Len(seen) - 2 * Window + 1 .. Len(seen) - p : seen[i] = seen[i + p]
       => since < 2 * Window
==============================================================================
