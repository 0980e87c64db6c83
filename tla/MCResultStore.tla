--------------------------- MODULE MCResultStore ---------------------------
(* ResultStore for TLC.                                                    *)
EXTENDS ResultStore, TLC

Symmetry == Permutations(Id)
=============================================================================
