SPECIFICATION Spec
CONSTANTS
  NumParts = 3
  NumWorkers = 2
  UploadIds = {1, 2, 3}
  NoId = 0
  MaxFaults = 1
INVARIANTS SuccessMeansComplete
