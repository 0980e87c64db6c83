SPECIFICATION Spec
CONSTANTS
  Caller = {k1}
  MaxJob = 1
  MaxQueued = 1
  MaxFault = 0
  MaxCrash = 0
  MaxStop = 1
INVARIANTS
  ShutdownReachesChild
CHECK_DEADLOCK FALSE
