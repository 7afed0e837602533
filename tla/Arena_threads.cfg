SPECIFICATION FairSpec

CONSTANTS
  t1 = t1
  t2 = t2
  Threads = {t1, t2}
  Start = 4
  End = 12
  PageSize = 4
  MinAlign = 2
  Sizes = {2, 5}
  Alignments = {1, 4, 6}

INVARIANTS
  HeldOnlyDuringMprotect
PROPERTIES
  BackedOnReturn
  ImplementsAllocator
  EveryCallReturns

\* The child of a fork may find the lock taken by a thread it does not have.
CHECK_DEADLOCK FALSE
