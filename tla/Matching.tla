------------------------------ MODULE Matching ------------------------------
(***************************************************************************)
(* What one lookup, and a search, say of a row once they have become SQL:  *)
(* the conditions of src/src/db/lookups.ts and search.ts, on SQLite and on *)
(* Postgres.  A SQL condition is modelled by its value, which is "true",   *)
(* "false" or "null".                                                      *)
(*                                                                         *)
(* A text is a sequence of characters; % is LIKE's wildcard.               *)
(***************************************************************************)
EXTENDS Columns

CONSTANTS
  LowerOf,  \* characters with another case, and their lower case: what JavaScript and Postgres know
  Ascii,    \* those of them that SQLite's lower() knows
  Wide      \* characters that take two units of a JavaScript string

LookupNames == {"exact", "iexact", "ne", "in", "notIn", "isnull", "contains", "icontains",
                "startswith", "istartswith", "endswith", "iendswith", "gt", "gte", "lt", "lte",
                "range"}

-----------------------------------------------------------------------------
(* SQL *)

Truth(b) == IF b THEN "true" ELSE "false"
Not(p) == CASE p = "true" -> "false" [] p = "false" -> "true" [] OTHER -> "null"
And(P) == IF "false" \in P THEN "false" ELSE IF "null" \in P THEN "null" ELSE "true"
Or(P) == IF "true" \in P THEN "true" ELSE IF "null" \in P THEN "null" ELSE "false"

\* A comparison with NULL is NULL; In of no values is false even then.
Strict(values, b) == IF Null \in values THEN "null" ELSE Truth(b)
Equals(a, b) == Strict({a, b}, a = b)
InList(a, list) == IF list = {} THEN "false" ELSE Or({Equals(a, v) : v \in list})

\* toLowerCase() and ILIKE fold every character that has another case; SQLite folds ASCII only.
SqliteLower(text) ==
  [i \in DOMAIN text |-> IF text[i] \in DOMAIN LowerOf \cap Ascii THEN LowerOf[text[i]] ELSE text[i]]
Lower(text) == [i \in DOMAIN text |-> IF text[i] \in DOMAIN LowerOf THEN LowerOf[text[i]] ELSE text[i]]

\* LIKE: a pattern is a text some of whose characters are wildcards; at says how much of the
\* text each beginning of the pattern takes.
Likes(text, pattern) ==
  \E at \in [0..Len(pattern) -> 0..Len(text)] :
    /\ at[0] = 0 /\ at[Len(pattern)] = Len(text)
    /\ \A i \in 1..Len(pattern) :
         IF pattern[i].wild THEN at[i - 1] <= at[i]
         ELSE at[i] = at[i - 1] + 1 /\ text[at[i]] = pattern[i].char

Wildcard == <<[char |-> "%", wild |-> TRUE]>>

\* A text as it would be read if its own % were not escaped.
EscapeNothing(text) == [i \in DOMAIN text |-> [char |-> text[i], wild |-> text[i] = "%"]]

EscapeLike(text) == [i \in DOMAIN text |-> [char |-> text[i], wild |-> FALSE]]

\* substr(h, 1, n) and substr(h, -n), instr(h, n) > 0.
Leading(h, n) == SubSeq(h, 1, IF n < Len(h) THEN n ELSE Len(h))
Trailing(h, n) == SubSeq(h, IF n < Len(h) THEN Len(h) - n + 1 ELSE 1, Len(h))
Instr(h, needle) == \E i \in 0..Len(h) : Leading(SubSeq(h, i + 1, Len(h)), Len(needle)) = needle

\* The length of a JavaScript string.
Units(text) == Len(text) + Cardinality({i \in DOMAIN text : text[i] \in Wide})

\* textCondition: on SQLite the column is folded by SQLite and the value by JavaScript, and
\* substr counts characters where the value's length counts units; with nothing to look for, a
\* prefix or suffix is 1 = 1.
TextCondition(dialect, column, lookup, insensitive, value) ==
  IF dialect = "sqlite" /\ value = <<>> /\ lookup \in {"startswith", "endswith"} THEN "true"
  ELSE IF column = Null THEN "null"
  ELSE LET h == IF ~insensitive THEN column ELSE IF dialect = "sqlite" THEN SqliteLower(column) ELSE Lower(column)
           n == IF insensitive THEN Lower(value) ELSE value
       IN Truth(IF dialect = "postgres"
                THEN Likes(h, (IF lookup \in {"contains", "endswith"} THEN Wildcard ELSE <<>>)
                              \o EscapeLike(n) \o
                              (IF lookup \in {"contains", "startswith"} THEN Wildcard ELSE <<>>))
                ELSE CASE lookup = "iexact" -> h = n
                       [] lookup = "contains" -> Instr(h, n)
                       [] lookup = "startswith" -> Leading(h, Units(n)) = n
                       [] lookup = "endswith" -> Trailing(h, Units(n)) = n)

-----------------------------------------------------------------------------
(* Conditions *)

\* The text lookups: which match each one is, and whether it ignores case.
TextLookup == [iexact |-> <<"iexact", TRUE>>,
               contains |-> <<"contains", FALSE>>, icontains |-> <<"contains", TRUE>>,
               startswith |-> <<"startswith", FALSE>>, istartswith |-> <<"startswith", TRUE>>,
               endswith |-> <<"endswith", FALSE>>, iendswith |-> <<"endswith", TRUE>>]

\* buildFieldCondition: a value is one value, a list of values, or another column (F).
FieldCondition(dialect, row, attr, lookup, leaf) ==
  LET column == row[attr]
      value == IF leaf.form = "column" THEN row[leaf.value] ELSE leaf.value
      list == IF leaf.form = "list" THEN {leaf.value[i] : i \in DOMAIN leaf.value} ELSE {}
      isNull == leaf.form = "value" /\ value = Null
  IN CASE lookup = "exact" -> IF leaf.form = "list" THEN InList(column, list)
                              ELSE IF isNull THEN Truth(column = Null) ELSE Equals(column, value)
       [] lookup = "ne" -> IF isNull THEN Truth(column # Null) ELSE Not(Equals(column, value))
       [] lookup = "in" -> InList(column, list)
       [] lookup = "notIn" -> Not(InList(column, list))
       [] lookup = "isnull" -> Truth((column = Null) = value)
       [] lookup = "range" -> And({Strict({column, value[1]}, value[1] <= column),
                                   Strict({column, value[2]}, column <= value[2])})
       [] lookup = "gt" -> Strict({column, value}, column > value)
       [] lookup = "gte" -> Strict({column, value}, column >= value)
       [] lookup = "lt" -> Strict({column, value}, column < value)
       [] lookup = "lte" -> Strict({column, value}, column <= value)
       [] lookup \in DOMAIN TextLookup ->
            TextCondition(dialect, column, TextLookup[lookup][1], TextLookup[lookup][2], value)

\* searchCondition on SQLite: each term in one of the fields, empty text for NULL, both folded
\* by SQLite.
\* On Postgres a search is websearch_to_tsquery's, which is not modelled.
TermIn(column, term) ==
  Likes(IF column = Null THEN <<>> ELSE SqliteLower(column),
        Wildcard \o EscapeLike(SqliteLower(term)) \o Wildcard)
SearchCondition(row, leaf) ==
  Truth(\A term \in leaf.terms : \E attr \in leaf.fields : TermIn(row[attr], term))
SearchRank(row, leaf) ==
  Cardinality({p \in leaf.terms \X leaf.fields : TermIn(row[p[2]], p[1])})

-----------------------------------------------------------------------------
(* What they are meant to say, of values that are not NULL *)

\* SQLite folds the text as everybody else does; a JavaScript string is as long as its text.
FoldsAlike(text) == \A i \in DOMAIN text : text[i] \in DOMAIN LowerOf => text[i] \in Ascii
Narrow(text) == \A i \in DOMAIN text : text[i] \notin Wide

\* The characters of a text lookup on which the databases agree: on SQLite a column without
\* capitals beyond ASCII if case is ignored, a prefix or suffix without wide characters.
CharactersAgree(dialect, column, lookup, value) ==
  dialect = "sqlite" /\ lookup \in DOMAIN TextLookup =>
    LET text == TextLookup[lookup]
    IN /\ text[2] => FoldsAlike(column)
       /\ text[1] \in {"startswith", "endswith"} => Narrow(IF text[2] THEN Lower(value) ELSE value)

HasPart(text, part) == \E i, j \in 0..Len(text) : SubSeq(text, i + 1, j) = part

TextHolds(column, lookup, value) ==
  CASE lookup = "iexact" -> column = value
    [] lookup = "contains" -> HasPart(column, value)
    [] lookup = "startswith" -> \E j \in 0..Len(column) : SubSeq(column, 1, j) = value
    [] lookup = "endswith" -> \E i \in 0..Len(column) : SubSeq(column, i + 1, Len(column)) = value

FieldHolds(column, lookup, value) ==
  CASE lookup = "exact" -> column = value
    [] lookup = "ne" -> column # value
    [] lookup = "in" -> \E i \in DOMAIN value : column = value[i]
    [] lookup = "notIn" -> \A i \in DOMAIN value : column # value[i]
    [] lookup = "gt" -> column > value
    [] lookup = "gte" -> ~(column < value)
    [] lookup = "lt" -> column < value
    [] lookup = "lte" -> ~(column > value)
    [] lookup = "range" -> column \in value[1]..value[2]
    [] lookup = "isnull" -> value = FALSE
    [] lookup \in DOMAIN TextLookup ->
         LET text == TextLookup[lookup]
         IN TextHolds(IF text[2] THEN Lower(column) ELSE column, text[1],
                      IF text[2] THEN Lower(value) ELSE value)

SearchHolds(row, leaf) ==
  \A term \in leaf.terms : \E attr \in leaf.fields :
    row[attr] # Null /\ HasPart(Lower(row[attr]), Lower(term))
=============================================================================
