SPECIFICATION FairSpec
CONSTANTS
  f1 = f1
  f2 = f2
  d1 = d1
  d2 = d2
  Files = {f1, f2}
  None = none
  Dirs = {d1, d2}
  Under <- MCUnder
  Prefixed <- MCPrefixed
  Torn = torn
  Threads = {t1}
  ChanCap = 1
  MaxItems = 1
  MaxFaults = 1
  MaxChanges = 1
INVARIANTS HandedOnce
PROPERTIES FileIsHandedOver OwedIsConsumed
CHECK_DEADLOCK FALSE
