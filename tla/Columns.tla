------------------------------ MODULE Columns ------------------------------
(***************************************************************************)
(* The model that Lookups and QuerySets speak of.  One is enough, with a   *)
(* relation to itself: a key may traverse it as often as it likes, and one *)
(* of its fields has the name of a lookup.                                 *)
(***************************************************************************)
EXTENDS Integers, Sequences, FiniteSets

CONSTANTS
  Null,       \* SQL's NULL
  Bad,        \* a key, a value or a call that is refused with an error
  Undefined   \* a value that is not there

Kind == [id |-> "auto", range |-> "integer", title |-> "char", parent |-> "foreignKey"]
Fields == DOMAIN Kind
=============================================================================
