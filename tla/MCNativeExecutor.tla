-------------------------- MODULE MCNativeExecutor --------------------------
(* NativeExecutor for TLC: workers and callback invocations are            *)
(* interchangeable in the safety runs.                                     *)
EXTENDS NativeExecutor, TLC

Symmetry == Permutations(Worker) \cup Permutations(Call)
=============================================================================
