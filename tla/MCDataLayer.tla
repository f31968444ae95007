---------------------------- MODULE MCDataLayer ----------------------------
(* Instances of DataLayer small enough for TLC. *)
EXTENDS DataLayer, TLC

Symmetry == Permutations(Calls) \cup Permutations(Keys)
=============================================================================
