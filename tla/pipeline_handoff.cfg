SPECIFICATION Spec
CONSTANTS
  Records = {1, 2}
  Files = {f1}
  SlaveFiles = {}
  NoRecord = 0
  NoFile = nofile
  ChanCap = 1
  QueueCap = 1
  Expirable = {}
  Cancellable = {1}
  MaxFaults = 0
INVARIANTS TypeOK TokenAccounting PushNeverRefused UpdateIsSerialized CancelledIsSkipped
PROPERTIES SkippedIsFinal HandoffSpec
