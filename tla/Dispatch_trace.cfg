SPECIFICATION FairSpec

CONSTANTS
  Pcs <- ThreePcs
  Static <- Unlinked
  TlbSize = 2
  Lp64 = TRUE
  Trace = TRUE
  Pic = FALSE
  Contract = TRUE
  MayFail = TRUE
  MaxFrames = 1

INVARIANTS
  TraceComplete
PROPERTIES
  BranchesArrive

\* The client exits on an error or a detected loop, and faults on a branch
\* to 0.
CHECK_DEADLOCK FALSE
