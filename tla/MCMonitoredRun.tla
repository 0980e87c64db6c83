--------------------------- MODULE MCMonitoredRun ---------------------------
(* Collectors are alike.                                                   *)
EXTENDS MonitoredRun, TLC

Symmetry == Permutations(Collector)
=============================================================================
