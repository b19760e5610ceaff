SPECIFICATION Spec
CONSTANTS
  Files = {l1, s1, s2}
  Slave = {s1, s2}
  Copies = {c}
  CopyPath <- MCCopyPath
  None = none
  Torn = torn
  MaxSize = 2
  Small = {s1, s2}
  MaxFaults = 2
INVARIANTS  UploadedLeavesNoCopy
CHECK_DEADLOCK FALSE
