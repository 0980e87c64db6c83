----------------------------- MODULE MCWebJobs -----------------------------
(* WebJobs for TLC.                                                        *)
EXTENDS WebJobs, TLC

Symmetry == Permutations(Caller)
=============================================================================
