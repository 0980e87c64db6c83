SPECIFICATION FairSpec
CONSTANTS
  Worker = {w1, w2}
  Call = {c1, c2}
  MaxInflight = 1
  MaxToken = 2
INVARIANTS
  TypeOK
  PermitsAccounted
  BuffersHeld
  AnswerIsTheTerminal
PROPERTIES
  ImplementsContract
  ExecuteReturns
  DispatchRetires
