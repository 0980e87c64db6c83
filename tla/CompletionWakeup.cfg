SPECIFICATION FairSpec
CONSTANTS
  Request = {r1}
  Handoff = {h1, h2}
  Producer = {p1, p2}
  Stopper = s
  MaxQueue = 1
  MaxFault = 0
  MaxStop = 0
PROPERTIES
  SubmissionGetsThrough
CHECK_DEADLOCK FALSE
