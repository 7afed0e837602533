SPECIFICATION FairSpec

CONSTANTS
  N = 2
  Addrs <- OneAddr
  Pages <- TwoPages
  Reads <- Spanning
  MaxStamp = 1
  MayFail = TRUE

INVARIANTS
  InSync
  OneEach
  Connected
  AnsweredRight

PROPERTIES
  CallsReturn
  ServersEnd

\* The guest ends.
CHECK_DEADLOCK FALSE
