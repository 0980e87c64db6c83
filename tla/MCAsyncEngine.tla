--------------------------- MODULE MCAsyncEngine ---------------------------
(* Requests are alike, and so are workers.                                 *)
EXTENDS AsyncEngine, TLC

Symmetric == Permutations(Request) \cup Permutations(Worker)
=============================================================================
