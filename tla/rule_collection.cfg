SPECIFICATION Spec
CONSTANTS
  root = root
  dir = dir
  f = f
  g = g
  j = j
  k = k
  s = s
  u = u
  r1 = r1
  r2 = r2
  Files = {f, g}
  Dirs = {root, dir}
  Links = {j, k}
  Root = root
  Missing = missing
  Trees <- MCTrees
  Remote = {s, u}
  None = none
  Wanted = {f, g, s}
  Born <- MCBorn
  Final <- MCFinal
  MaxTime = 3
  Rules = {r1, r2}
  Actions <- MCActions
  Before <- MCBefore
  After <- MCAfter
  DebounceTime <- MCDebounce
  Stamps = {0, 2}
  DeviceTimes = 1
  GlobalTimes = 1
  Shared = {r1}
  Lags = {0, 3}
  Tolerance = 0
  MaxInfos = 2
  MaxFaults = 1
INVARIANTS RecordIsWhole WithinLimit
PROPERTIES BurstActivatesOnce
CHECK_DEADLOCK FALSE
