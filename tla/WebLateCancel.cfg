SPECIFICATION Spec
CONSTANTS
  Caller = {k1}
  MaxJob = 2
  MaxQueued = 1
  MaxFault = 0
  MaxCrash = 0
  MaxStop = 0
INVARIANTS
  CancelledOnRequest
CHECK_DEADLOCK FALSE
