SPECIFICATION Spec
CONSTANTS
  Records = {1}
  Files = {f1, f2}
  SlaveFiles = {f2}
  NoRecord = 0
  NoFile = nofile
  ChanCap = 1
  QueueCap = 1
  Expirable = {1}
  Cancellable = {1}
  MaxFaults = 2
INVARIANTS  CloudRecordsBounded
PROPERTIES ProgressNeverLost CleanedStaysCleaned
