SPECIFICATION SignalFairSpec
CONSTANTS
  Threads = {t1, t2}
  First = t1
  t1 = t1
  t2 = t2
  Sigs <- ChldSigs
  Segv = 11
  Abrt = 6
  Converted <- Chld
  Harmless <- Chld
  Sent <- ChldSegv
  Masks <- SegvMasks
  Waits <- AnyWait
  Caught <- Chld
  Acts <- AllActs
  MaxSends = 1
INVARIANTS SegvUnmasked NotedBlocksOthers
PROPERTIES PendingHandled AbortEnds
\* The guest is ended by a signal.
CHECK_DEADLOCK FALSE
