----------------------------- MODULE Filtering -----------------------------
(***************************************************************************)
(* Querysets whose conditions are those of Lookups: a configuration gives  *)
(* Build for Verdict, IsEmpty for Vacuous and SearchRank for Relevance.    *)
(***************************************************************************)
EXTENDS QuerySets, Lookups

Conditional(c) == ~IsEmpty(c)

\* A queryset returns the rows its filters mean and its excludes do not, on both databases
\* and through any tree of and, or and not, wherever no NULL has a say in it, nor, on SQLite,
\* a capital beyond ASCII in the column or a character of two units in a prefix or suffix.
FiltersMeanWhatTheySay ==
  Settled => \A r \in table :
    LET excluding == {c \in qs.excludes : Conditional(c)}
    IN (\A c \in qs.filters \cup excluding : Definite(dialect, table, r, c)) =>
         (r \in Selected(qs) <=> /\ \A c \in qs.filters : Conditional(c) => Holds(table, r, c)
                                 /\ \A c \in excluding : ~Holds(table, r, c))
=============================================================================
