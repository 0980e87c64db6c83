SPECIFICATION Spec
CONSTANTS
  AsyncRun = {a}
  PowerRun = {w}
  ServerRun = {s}
  PlainRun = {e}
  Preload = {a, w}
  Id = {i1, i2}
  None = None
  MaxFault = 2
SYMMETRY Symmetry
INVARIANTS
  RowIsVouchedFor
  RowTellsTheTruth
  OneFaultLosesNothing
PROPERTIES
  DetailsArePermanent
  ImplementsContract
CHECK_DEADLOCK FALSE
