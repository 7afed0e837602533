SPECIFICATION Spec

CONSTANTS
  Pcs <- ThreePcs
  Static <- Linked
  TlbSize = 2
  Lp64 = FALSE
  Trace = FALSE
  Pic = FALSE
  Contract = FALSE
  MayFail = FALSE
  MaxFrames = 0

INVARIANTS
  ResolvesCode

\* The client exits on an error, and faults on a branch to 0.
CHECK_DEADLOCK FALSE
