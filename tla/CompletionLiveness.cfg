SPECIFICATION FairSpec
CONSTANTS
  Request = {r1}
  Handoff = {h1, h2}
  Producer = {p1, p2}
  Stopper = s
  MaxQueue = 1
  MaxFault = 1
  MaxStop = 1
PROPERTIES
  StopSettles
  EnqueuedIsAcknowledged
CHECK_DEADLOCK FALSE
