SPECIFICATION FairSpec
CONSTANTS
  s1 = s1
  s2 = s2
  s3 = s3
  State = {s1, s2, s3}
  NoState = NoState
  NormLimit = 1
  PostLimit = 4
  RequestLimit = 3
INVARIANTS
  TypeOK
  DeliveredInOrder
  ActivePathIsConstructed
  ParentsOutliveChildren
  LastRequestWins
PROPERTIES
  TargetPathIsKept
  RunsToCompletion
CHECK_DEADLOCK FALSE
