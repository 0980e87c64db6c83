SPECIFICATION FairSpec
CONSTANTS
  Request = {r1}
  Worker = {w1, w2}
  Capacity = 1
  MaxBatch = 2
  FailureLimit = 1
  None = None
  MaxFault = 1
PROPERTIES
  ShutdownReturns
  EveryAcceptedEnds
  WorkersLeave
CHECK_DEADLOCK FALSE
