--------------------------- MODULE MCTaskDispatch ---------------------------
(* TaskDispatch for TLC: requests are interchangeable. *)
EXTENDS TaskDispatch, TLC

RequestSymmetry == Permutations(Requests)
=============================================================================
