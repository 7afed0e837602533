SPECIFICATION FairSpec

CONSTANTS
  Servers <- TwoServers
  Addrs = {16, 32}
  Inodes <- SixInodes
  Size = 2
  Pic = FALSE
  AllowRead = TRUE
  AllowWrite = TRUE
  MayFail = TRUE
  MayCrash = TRUE
  MaxAsks = 4

INVARIANTS
  RealIsComplete
  HitsFit

PROPERTIES
  RealIsFinal
  Ends

\* The servers stop asking at the bound.
CHECK_DEADLOCK FALSE
