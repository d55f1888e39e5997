--------------------------- MODULE MCTabDispatch ---------------------------
(* TabDispatch on small instances. *)
EXTENDS TabDispatch, TLC

Symmetry == Permutations(Requests)
=============================================================================
