----------------------------- MODULE MCJobQueue -----------------------------
(* Instances of JobQueue small enough for TLC. *)
EXTENDS JobQueue, TLC

\* Workers and callers are interchangeable: no guard tells them apart.
Symmetry == Permutations(Workers) \cup Permutations(Callers)
=============================================================================
