SPECIFICATION FairSpec
CONSTANTS
  Goroutines = {g1, g2, g3}
  Paths = {p1, p2}
  Objects = {o1, o2, o3}
  Nobody = nobody
  NoObject = noobject
  NoPath = nopath
INVARIANTS TypeOK NoEntryLeaks
PROPERTIES LocksSpec EveryWaiterEnters
