------------------------ MODULE MCSqliteTransactions ------------------------
(* Instances of SqliteTransactions small enough for TLC. *)
EXTENDS SqliteTransactions, TLC

\* Blocks, and queries, are interchangeable.  Not used where liveness is checked.
Symmetry == Permutations(Blocks) \cup Permutations(Queries)
=============================================================================
