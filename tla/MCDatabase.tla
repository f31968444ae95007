----------------------------- MODULE MCDatabase -----------------------------
(* SqliteTransactions and Filtering's querysets, side by side: a behaviour is *)
(* of one or the other.                                                       *)
EXTENDS SqliteTransactions, Filtering

VARIABLE part

MCInit ==
  /\ part \in {"transactions", "querysets"} /\ Init /\ QueryInit
  /\ part = "transactions" => dialect = "sqlite" /\ table = CHOOSE t \in Tables : TRUE
MCNext == \/ part = "transactions" /\ Next /\ UNCHANGED <<queryVars, part>>
          \/ part = "querysets" /\ QueryNext /\ UNCHANGED <<vars, part>>
MCSpec == MCInit /\ [][MCNext]_<<vars, queryVars, part>> /\ Fairness

-----------------------------------------------------------------------------
(* Querysets: two tables; a wildcard, a letter, an accented letter (E, e) and a wide character. *)

Row(id, range, title, parent) == [id |-> id, range |-> range, title |-> title, parent |-> parent]
MCTables == {
  {Row(1, 0, <<"A">>, Null), Row(2, 1, <<"a", "%">>, 1), Row(3, Null, Null, 2)},
  {Row(1, 1, <<"e">>, Null), Row(2, 1, <<"w", "E">>, 1)}}
MCNewRows == {Row(4, 1, <<"a", "%">>, 1), Row(5, 0, <<>>, Null)}
MCLeast == -1
MCLowerOf == [A |-> "a", E |-> "e"]

Cond(key, form, value, path, attr, lookup) ==
  [op |-> "leaf", key |-> key, form |-> form, value |-> value,
   meant |-> [path |-> path, attr |-> attr, lookup |-> lookup]]
Wild == Cond(<<"title", "contains">>, "value", <<"%">>, <<>>, "title", "contains")
Same == Cond(<<"title", "iexact">>, "value", <<"E">>, <<>>, "title", "iexact")
Ends == Cond(<<"title", "iendswith">>, "value", <<"A">>, <<>>, "title", "iendswith")
Emoji == Cond(<<"title", "startswith">>, "value", <<"w">>, <<>>, "title", "startswith")
Upper == Cond(<<"parent", "title", "startswith">>, "value", <<"A">>, <<"parent">>, "title", "startswith")
Grand == Cond(<<"parent", "parentId", "isnull">>, "value", FALSE, <<"parent">>, "parent", "isnull")
Hidden == Cond(<<"parent", "range">>, "value", 1, <<"parent">>, "range", "exact")
Others == Cond(<<"id", "notIn">>, "list", <<1, 3>>, <<>>, "id", "notIn")
Between == Cond(<<"range", "range">>, "value", <<0, 0>>, <<>>, "range", "range")
Newer == Cond(<<"id", "gt">>, "column", "range", <<>>, "id", "gt")
Missing == Cond(<<"parentId">>, "value", Undefined, <<>>, "parent", "exact")
NotHidden == [op |-> "not", child |-> [op |-> "or", children |-> <<Hidden, Missing>>]]
Both == [op |-> "and", children |-> <<Others, [op |-> "not", child |-> Missing]>>]
Either == [op |-> "or", children |-> <<Same, Between, Emoji, [op |-> "and", children |-> <<>>]>>]
Found == [op |-> "search", terms |-> {<<"%">>, <<"A">>}, fields |-> {"title"}]

MCConditions == {Wild, Ends, Upper, Grand, NotHidden, Both, Either, Newer, Missing, Found}
By(attr, desc) == [attr |-> attr, desc |-> desc]
MCOrderings == {<<By("range", TRUE), By("id", FALSE)>>, <<By("parent", FALSE)>>}
MCOrdering == <<By("id", TRUE)>>
MCSelections == {{"range"}, {"id", "title"}}
Param(attr, lookup, raws) == [attr |-> attr, lookup |-> lookup, raws |-> raws]
Raw(number, text) == [number |-> number, text |-> text]
Request(params, search, rank, ordering) ==
  [params |-> params, search |-> search, rank |-> rank, ordering |-> ordering]
Junk == Raw(Undefined, <<"%">>)
MCRequests == {
  Request(<<Param("id", "in", <<Raw(1, <<"1">>), Junk, Raw(3, <<"3">>)>>), Param("title", "icontains", <<Junk>>)>>,
          Undefined, FALSE, <<By("range", TRUE), By("id", FALSE)>>),
  Request(<<Param("parent", "exact", <<Raw(1, <<"1">>)>>), Param("range", "gt", <<Raw(5, <<"5">>)>>)>>,
          <<"%">>, TRUE, <<By("parent", FALSE)>>),
  Request(<<Param("parent", "isnull", <<Raw(Undefined, <<"true">>)>>), Param("id", "gt", <<Junk>>)>>,
          <<"A">>, TRUE, <<By("id", FALSE), By("title", TRUE)>>),
  Request(<<Param("id", "notIn", <<Junk>>)>>, Undefined, FALSE, <<>>)}
MCDialects == {"sqlite", "postgres"}
=============================================================================
