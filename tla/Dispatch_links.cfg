SPECIFICATION Spec

CONSTANTS
  Pcs <- ThreePcs
  Static <- Linked
  TlbSize = 2
  Lp64 = FALSE
  Trace = FALSE
  Pic = TRUE
  Contract = TRUE
  MayFail = TRUE
  MaxFrames = 2

INVARIANTS
  RunsRightCode
  CachesCoherent
  TranslatedOnce

\* The client exits on an error, and faults on a branch to 0.
CHECK_DEADLOCK FALSE
