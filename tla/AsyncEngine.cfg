SPECIFICATION Spec
CONSTANTS
  Request = {r1, r2}
  Worker = {w1, w2}
  Capacity = 1
  MaxBatch = 2
  FailureLimit = 1
  None = None
  MaxFault = 1
INVARIANTS
  TypeOK
  LeaseHasOwner
  NeverRunAndDropped
  TrueMeansSettled
  UnloadedOnlyWhenIdle
  NoSleepOnWork
PROPERTIES
  ImplementsContract
SYMMETRY Symmetric
CHECK_DEADLOCK FALSE
