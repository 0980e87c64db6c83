SPECIFICATION Spec
CONSTANTS
  Request = {r1, r2}
  Handoff = {h1, h2}
  Producer = {p1, p2}
  Stopper = s
  MaxQueue = 1
  MaxFault = 1
  MaxStop = 2
SYMMETRY Symmetry
INVARIANTS
  RecordedOnce
  ReleasedAfterHandling
  StopTrueIsClean
PROPERTIES
  ImplementsContract
CHECK_DEADLOCK FALSE
