-------------------------- MODULE MCTokenRegistry --------------------------
(* TokenRegistry for TLC: two clients, four tokens, so that a client pairs,  *)
(* re-pairs and has a second key outstanding.                                *)
EXTENDS TokenRegistry, TLC

ClientSymmetry == Permutations(Clients)
=============================================================================
