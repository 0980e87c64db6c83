SPECIFICATION FairSpec
CONSTANTS
  Caller = {k1, k2}
  MaxJob = 2
  MaxQueued = 1
  MaxFault = 1
  MaxCrash = 1
  MaxStop = 1
INVARIANTS
  TypeOK
  ChildIsRunning
  QueueNotBlocked
PROPERTIES
  ImplementsContract
  CancelReaches
  QueueMoves
CHECK_DEADLOCK FALSE
