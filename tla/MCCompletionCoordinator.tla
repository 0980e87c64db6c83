---------------------- MODULE MCCompletionCoordinator ----------------------
(* CompletionCoordinator for TLC.                                          *)
EXTENDS CompletionCoordinator, TLC

Symmetry ==
  Permutations(Request) \cup Permutations(Handoff) \cup Permutations(Producer)
=============================================================================
