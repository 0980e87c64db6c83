SPECIFICATION Spec
CONSTANTS
  Request = {r1}
  Handoff = {h1}
  Producer = {p1}
  Stopper = s
  MaxQueue = 1
  MaxFault = 0
  MaxStop = 1
SYMMETRY Symmetry
INVARIANTS
  StoppedQueueEmpty
CHECK_DEADLOCK FALSE
