SPECIFICATION FairSpec
CONSTANTS
  Slaves = {s1}
  Nobody = nobody
  Addrs = {a1, a2}
  SlaveTimeout = 0
  OnlineWindow = 2
  MaxStray = 1
PROPERTY OnlyRegistrationAdds
PROPERTY LiveSlaveComesOnline
PROPERTY DeadSlaveGoesOffline
