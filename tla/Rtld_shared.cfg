SPECIFICATION FairSpec
CONSTANTS
  r1 = r1
  r2 = r2
  e1 = e1
  e2 = e2
  Writer = Writer
  N = 2
  Addrs = {0, 4, 8, 12}
  Entries = {e1, e2}
  Readers = {r1, r2}
PROPERTIES ImplementsMap CallsReturn
