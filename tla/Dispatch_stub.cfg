SPECIFICATION Spec

CONSTANTS
  Pcs <- ThreePcs
  Static <- Linked
  TlbSize = 2
  Lp64 = TRUE
  Trace = FALSE
  Pic = FALSE
  Contract = TRUE
  MayFail = FALSE
  MaxFrames = 0

INVARIANTS
  RunsRightCode

\* The client exits on an error, and faults on a branch to 0.
CHECK_DEADLOCK FALSE
