SPECIFICATION FairSpec
CONSTANTS
  Collector = {a, b}
  MaxFault = 3
INVARIANTS
  PublishedIsSealed
  BaselineIsQuiet
  NothingLeftOpen
  CollectorsReleased
PROPERTIES
  ImplementsContract
  MonitorEnds
CHECK_DEADLOCK FALSE
