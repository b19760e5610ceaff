SPECIFICATION FairSpec
CONSTANTS
  Requests = {r1, r2}
  NoRequest = none
  Limit = 5
  BodySize = 2
  PayloadSize = 1
  MaxPayloads = 2
  QueueCap = 1
CHECK_DEADLOCK FALSE
INVARIANTS TypeOK EveryByteHasOneOwner AnswerIsTruthful
PROPERTIES BytesComeBack
