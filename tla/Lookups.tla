------------------------------ MODULE Lookups ------------------------------
(***************************************************************************)
(* The lookup language of src/src/db/lookups.ts: what a filter object or a *)
(* Q tree says of a row once it has become SQL, its keys resolved and its  *)
(* relations followed, with Matching's value for each lookup.              *)
(***************************************************************************)
EXTENDS Matching

IsRelation(attr) == Kind[attr] = "foreignKey"

-----------------------------------------------------------------------------
(* Keys *)

\* A field by its name, a relation also by its column.
ResolveAttr(segment) ==
  IF segment \in Fields THEN segment ELSE IF segment = "parentId" THEN "parent" ELSE Bad

\* A trailing name is a lookup even where the relation's target has such a field.
NeverShadowed(attr, name) == FALSE

\* A field of the target that has a lookup's name hides the lookup.
Shadowed(attr, name) == IsRelation(attr) /\ name \in Fields

RECURSIVE ParseFrom(_, _)
ParseFrom(segments, path) ==
  LET attr == ResolveAttr(Head(segments))
      rest == Tail(segments)
  IN IF attr = Bad THEN Bad
     ELSE IF rest = <<>> THEN [path |-> path, attr |-> attr, lookup |-> "exact"]
     ELSE IF Len(rest) = 1 /\ rest[1] \in LookupNames /\ ~Shadowed(attr, rest[1])
          THEN [path |-> path, attr |-> attr, lookup |-> rest[1]]
     ELSE IF ~IsRelation(attr) \/ Head(segments) # attr THEN Bad
     ELSE ParseFrom(rest, Append(path, attr))

ParseLookupKey(segments) == ParseFrom(segments, <<>>)

-----------------------------------------------------------------------------
(* Conditions *)

\* buildLeaf: each relation on the way is an IN over the ids whose rows match.
RECURSIVE Traverse(_, _, _, _, _, _)
Traverse(dialect, table, row, path, parsed, leaf) ==
  IF path = <<>> THEN FieldCondition(dialect, row, parsed.attr, parsed.lookup, leaf)
  ELSE InList(row[Head(path)],
              {r.id : r \in {s \in table : Traverse(dialect, table, s, Tail(path), parsed, leaf) = "true"}})

Leaf(dialect, table, row, leaf) ==
  LET parsed == ParseLookupKey(leaf.key)
  IN Traverse(dialect, table, row, parsed.path, parsed, leaf)

\* buildCondition: a condition with nothing in it is left out, at any depth.
RECURSIVE IsEmpty(_)
IsEmpty(condition) ==
  CASE condition.op = "leaf" -> condition.value = Undefined
    [] condition.op = "search" -> condition.terms = {} \/ condition.fields = {}
    [] condition.op = "not" -> IsEmpty(condition.child)
    [] OTHER -> \A i \in DOMAIN condition.children : IsEmpty(condition.children[i])

RECURSIVE Build(_, _, _, _)
Build(dialect, table, row, condition) ==
  CASE condition.op = "leaf" -> Leaf(dialect, table, row, condition)
    [] condition.op = "search" -> SearchCondition(row, condition)
    [] condition.op = "not" -> Not(Build(dialect, table, row, condition.child))
    [] OTHER ->
       LET parts == {Build(dialect, table, row, condition.children[i]) :
                       i \in {j \in DOMAIN condition.children : ~IsEmpty(condition.children[j])}}
       IN IF condition.op = "or" THEN Or(parts) ELSE And(parts)

-----------------------------------------------------------------------------
(* What the conditions are meant to say, of rows without NULLs in their way *)

\* The row a path leads to: at most one, since ids are unique.
RECURSIVE Reached(_, _, _)
Reached(table, row, path) ==
  IF path = <<>> THEN {row}
  ELSE UNION {Reached(table, r, Tail(path)) : r \in {s \in table : s.id = row[Head(path)]}}

\* No NULL decides, and no character that SQLite reads otherwise: the path leads somewhere, to
\* a column that has a value.
RECURSIVE Definite(_, _, _, _)
Definite(dialect, table, row, condition) ==
  CASE condition.op = "leaf" ->
         \E r \in Reached(table, row, condition.meant.path) :
           /\ r[condition.meant.attr] # Null
           /\ condition.form = "column" => r[condition.value] # Null
           /\ CharactersAgree(dialect, r[condition.meant.attr], condition.meant.lookup,
                              IF condition.form = "column" THEN r[condition.value] ELSE condition.value)
    [] condition.op = "search" ->
         /\ \A term \in condition.terms : FoldsAlike(term)
         /\ \A attr \in condition.fields : row[attr] # Null => FoldsAlike(row[attr])
    [] condition.op = "not" -> Definite(dialect, table, row, condition.child)
    [] OTHER -> \A i \in DOMAIN condition.children : Definite(dialect, table, row, condition.children[i])

\* "meant" is the path, the field and the lookup that the author of a key has in mind.
RECURSIVE Holds(_, _, _)
Holds(table, row, condition) ==
  CASE condition.op = "leaf" ->
         \A r \in Reached(table, row, condition.meant.path) :
           FieldHolds(r[condition.meant.attr], condition.meant.lookup,
                      IF condition.form = "column" THEN r[condition.value] ELSE condition.value)
    [] condition.op = "search" -> SearchHolds(row, condition)
    [] condition.op = "not" -> ~Holds(table, row, condition.child)
    [] condition.op = "or" -> \E i \in DOMAIN condition.children :
                                /\ ~IsEmpty(condition.children[i])
                                /\ Holds(table, row, condition.children[i])
    [] OTHER -> \A i \in DOMAIN condition.children :
                  IsEmpty(condition.children[i]) \/ Holds(table, row, condition.children[i])
=============================================================================
