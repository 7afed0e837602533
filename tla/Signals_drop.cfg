SPECIFICATION SignalSpec
CONSTANTS
  Threads = {t1}
  First = t1
  t1 = t1
  Sigs <- UsrSigs
  Segv = 11
  Abrt = 6
  Converted = {}
  Harmless = {}
  Sent <- Usr
  Masks <- UsrMasks
  Waits = {}
  Caught <- Usr
  Acts <- GuestOnly
  MaxSends = 2
INVARIANT DropsOnlySegv
\* The guest is ended by a signal.
CHECK_DEADLOCK FALSE
