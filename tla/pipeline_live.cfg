SPECIFICATION FairSpec
CONSTANTS
  Records = {1}
  Files = {f1}
  SlaveFiles = {f1}
  NoRecord = 0
  NoFile = nofile
  ChanCap = 1
  QueueCap = 1
  Expirable = {}
  Cancellable = {1}
  MaxFaults = 1
PROPERTIES EventuallySettled CancellationIsAnswered
