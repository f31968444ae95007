----------------------------- MODULE QuerySets -----------------------------
(***************************************************************************)
(* The querysets of src/src/db/queryset.ts: chaining, which only derives   *)
(* another state; the terminal operations, which turn that state into one  *)
(* SELECT; the paginators of src/src/http/pagination.ts; and page(), whose *)
(* caller comes back with a cursor while others insert and delete rows.    *)
(*                                                                         *)
(* What a condition says of a row is left to three operators; Lookups has  *)
(* definitions of them.                                                    *)
(***************************************************************************)
EXTENDS Columns

CONSTANTS
  Tables,      \* the tables to start from
  Dialects,    \* the databases
  Conditions,  \* what filter() and exclude() may be given
  Orderings,   \* what orderBy() may be given
  Selections,  \* what values() may be given
  Ordering,    \* the model's meta.ordering
  Requests,    \* list requests: their parameters, search and ordering
  FilterFields, OrderingFields,  \* what the view lets them filter and order by
  NewRows,     \* rows that may be inserted while somebody pages
  Least, Greatest,  \* numbers below and above all those of the rows
  PageSize,    \* rows per page
  MaxChain,    \* bound: chaining calls
  Verdict(_, _, _, _),  \* what a condition says of a row of a table of a database: "true", "false", "null"
  Vacuous(_),           \* whether there is nothing in a condition
  Relevance(_, _)       \* how well a row answers a search

Rows == (UNION Tables) \cup NewRows
SearchFor(text) == [op |-> "search", terms |-> {text}, fields |-> {"title"}]
Searches ==
  {c \in Conditions : c.op = "search"}
    \cup {SearchFor(r.search) : r \in {q \in Requests : q.search # Undefined}}

\* Numbers and references are ordered by, texts are not: by their collations databases differ.
Sortable == {"id", "range", "parent"}
Sorts == Seq([attr: Sortable, desc: BOOLEAN])

ASSUME QueryConstants ==
  /\ Null \notin Int /\ Undefined \notin Int /\ Undefined \notin Searches
  /\ PageSize \in Nat \ {0} /\ MaxChain \in Nat

\* Rows have primary keys, and no two of a table the same one.
ASSUME RowsKeyed ==
  /\ \A r \in Rows : r.id \in Int /\ r.range \in Int \cup {Null} /\ r.parent \in Int \cup {Null}
  /\ Least \in Int /\ Greatest \in Int
  /\ \A r \in Rows : \A v \in {r.id, r.range, r.parent} \ {Null} : Least < v /\ v < Greatest
  /\ \A T \in Tables : IsFiniteSet(T) /\ \A r, s \in T : r.id = s.id => r = s

ASSUME QueriesTyped ==
  /\ Orderings \subseteq Sorts /\ Ordering \in Sorts /\ OrderingFields \subseteq Sortable
  /\ Selections \subseteq SUBSET Fields
  /\ \A r \in Requests :
       /\ r.ordering \in Seq([attr: Fields, desc: BOOLEAN])
       /\ r.ordering # <<>> => r.ordering[1].attr \in Sortable
  /\ \A r \in Rows, c \in Searches : Relevance(r, c) \in Int

\* What page() adds to a queryset, and the one thing it relies on.
Comparison(lookup, value) ==
  [op |-> "leaf", form |-> "value", value |-> value, key |-> <<"id", lookup>>]

ASSUME CursorsCompare ==
  \A d \in Dialects, T \in SUBSET Rows, k \in {r.id : r \in Rows} :
    \A lookup \in {"lt", "lte", "gt", "gte"} : ~Vacuous(Comparison(lookup, k)) /\ \A r \in T :
      Verdict(d, T, r, Comparison(lookup, k)) = "true" <=>
        CASE lookup = "lt" -> r.id < k [] lookup = "lte" -> r.id <= k
          [] lookup = "gt" -> r.id > k [] lookup = "gte" -> r.id >= k

NoOrdering == <<[attr |-> "none", desc |-> FALSE]>>
All == Fields
Unset == -1

VARIABLES
  dialect,  \* the database
  table,    \* the rows
  qs,       \* the queryset: QueryState
  chained,  \* chaining calls made so far
  walk      \* a caller of page(): its cursor and what it has seen

queryVars == <<dialect, table, qs, chained, walk>>

QueryState == [filters |-> {}, excludes |-> {}, ordering |-> <<>>, limit |-> Unset,
               offset |-> 0, distinct |-> FALSE, fields |-> All, related |-> FALSE,
               ranked |-> Undefined]

\* Not a page() walk yet.  History: the keys of the rows seen, of those that match now, and of
\* those that have matched all along.
NoWalk == [pc |-> "off", cursor |-> Undefined, seen |-> <<>>, desc |-> FALSE, matching |-> {}, steady |-> {}]

-----------------------------------------------------------------------------
(* Sequences *)

\* The members of S, those first that by P come before more of the others.
Arranged(S, P) ==
  [n \in 1..Cardinality(S) |-> CHOOSE x \in S : Cardinality({y \in S : <<y, x>> \in P}) = n - 1]

\* The elements of a sequence at some of its indices, and all but the first so many.
Kept(s, I) ==
  LET at == Arranged(I, {p \in I \X I : p[1] < p[2]}) IN [n \in DOMAIN at |-> s[at[n]]]
UpTo(s, n) == SubSeq(s, 1, IF n < Len(s) THEN n ELSE Len(s))

\* The sum of a function's values.
Summed(f) ==
  LET sum[S \in SUBSET DOMAIN f] ==
        IF S = {} THEN 0 ELSE LET x == CHOOSE x \in S : TRUE IN f[x] + sum[S \ {x}]
  IN sum[DOMAIN f]

-----------------------------------------------------------------------------
(* Chaining *)

\* An ordering names fields, each ascending or descending.
Reversed(ordering) == [i \in DOMAIN ordering |-> [ordering[i] EXCEPT !.desc = ~@]]

EffectiveOrdering(q) ==
  IF q.ordering = <<>> THEN Ordering ELSE IF q.ordering = NoOrdering THEN <<>> ELSE q.ordering

\* reverse() of what was asked for, without the model's ordering.
BackwardsAsked(q) ==
  [q EXCEPT !.ordering = IF q.ordering \in {<<>>, NoOrdering} THEN q.ordering ELSE Reversed(q.ordering)]

Backwards(q) ==
  LET ordering == Reversed(EffectiveOrdering(q))
  IN [q EXCEPT !.ordering = IF ordering = <<>> THEN NoOrdering ELSE ordering]

Limit(q, n) == [q EXCEPT !.limit = n]
Slice(q, start, stop) == [q EXCEPT !.offset = start, !.limit = IF stop = Unset THEN @ ELSE stop - start]

\* search() with nothing to look for is no search; ranked unless told otherwise.
Search(q, condition, rank) ==
  IF Vacuous(condition) THEN q
  ELSE [q EXCEPT !.filters = @ \cup {condition}, !.ranked = IF rank THEN condition ELSE @]

\* only() keeps the primary key, values() does not.
Only(q, fields) == [q EXCEPT !.fields = fields \cup {"id"}]

\* search() is SQLite's here, and a start without a stop comes after a limit: SQLite has no
\* OFFSET without a LIMIT.
Derived(q) ==
  {[q EXCEPT !.filters = @ \cup {c}] : c \in {d \in Conditions : d.op # "search"}}
    \cup {[q EXCEPT !.excludes = @ \cup {c}] : c \in {d \in Conditions : d.op # "search"}}
    \cup {Search(q, c, rank) : c \in {d \in Conditions : d.op = "search" /\ dialect = "sqlite"}, rank \in BOOLEAN}
    \cup {[q EXCEPT !.ordering = o] : o \in Orderings \cup {NoOrdering}}
    \cup {Backwards(q), [q EXCEPT !.distinct = TRUE], [q EXCEPT !.related = TRUE]}
    \cup {Limit(q, 1), Slice(q, 1, 2)} \cup (IF q.limit = Unset THEN {} ELSE {Slice(q, 1, Unset)})
    \cup {[q EXCEPT !.fields = s] : s \in Selections} \cup {Only(q, s) : s \in Selections}

-----------------------------------------------------------------------------
(* List requests: a view set's, and the changelist of the admin *)

\* coerce: a parameter is text, read as its field's kind; what will not convert is undefined.
Converted(attr, raw) == IF Kind[attr] = "char" THEN raw.text ELSE raw.number
Coerce(attr, lookup, raws) ==
  IF lookup = "isnull" THEN raws[1].text = <<"true">>
  ELSE IF lookup \in {"in", "notIn"}
       THEN LET values == [i \in DOMAIN raws |-> Converted(attr, raws[i])]
            IN Kept(values, {i \in DOMAIN values : values[i] # Undefined})
       ELSE Converted(attr, raws[1])

Condition(attr, lookup, value) ==
  [op |-> "leaf", key |-> <<attr, lookup>>, form |-> IF lookup \in {"in", "notIn"} THEN "list" ELSE "value",
   value |-> value, meant |-> [path |-> <<>>, attr |-> attr, lookup |-> lookup]]

\* queryFilters: the parameters that are listed and convert.
QueryFilters(params) ==
  LET listed == Kept(params, {i \in DOMAIN params : params[i].attr \in FilterFields})
      conditions == [i \in DOMAIN listed |->
        Condition(listed[i].attr, listed[i].lookup, Coerce(listed[i].attr, listed[i].lookup, listed[i].raws))]
  IN Kept(conditions, {i \in DOMAIN conditions : conditions[i].value # Undefined})

Filtered(q, conditions) ==
  IF conditions = <<>> THEN q ELSE [q EXCEPT !.filters = @ \cup {[op |-> "and", children |-> conditions]}]
Ordered(q, ordering) == IF ordering = <<>> THEN q ELSE [q EXCEPT !.ordering = ordering]

\* GET of a view set: filters, search (SQLite's), and the part of the ordering that is listed.
List(q, request) ==
  LET filtered == Filtered(q, QueryFilters(request.params))
      asked == {i \in DOMAIN request.ordering : request.ordering[i].attr \in OrderingFields}
  IN Ordered(IF request.search = Undefined \/ dialect = "postgres" THEN filtered
             ELSE Search(filtered, SearchFor(request.search), request.rank),
             Kept(request.ordering, asked))

\* The admin's changelist: its search box asks for one of the fields, its sidebar for equality,
\* and one column is sorted by.  A number that does not convert, NaN there, is not asked for.
Changelist(q, request) ==
  LET conditions == QueryFilters(request.params)
      asked == {conditions[i] : i \in {j \in DOMAIN conditions : conditions[j].meant.lookup = "exact"}}
      searched == IF request.search = Undefined THEN {}
                  ELSE {[op |-> "or", children |-> <<Condition("title", "icontains", request.search)>>]}
  IN Ordered([q EXCEPT !.filters = @ \cup asked \cup searched], UpTo(request.ordering, 1))

-----------------------------------------------------------------------------
(* Compilation *)

\* where(): the filters and the negated excludes, without the empty ones.
Negated(condition) == [op |-> "not", child |-> condition]
Where(q) == {c \in q.filters \cup {Negated(e) : e \in q.excludes} : ~Vacuous(c)}

Selected(q) == {r \in table : \A c \in Where(q) : Verdict(dialect, table, r, c) = "true"}

\* selectRelated: an inner join, whatever the relation allows.
JoinedInner(q, R) == IF q.related THEN {r \in R : r.parent # Null} ELSE R

\* selectRelated on a relation that may be NULL is a left join.
Joined(q, R) == R

\* NULLs come first on SQLite and last on Postgres; text is not ordered by here.
SortValue(v) == IF v # Null THEN v ELSE IF dialect = "sqlite" THEN Least ELSE Greatest
SortKey(q, r) ==
  (IF q.ranked = Undefined THEN <<>> ELSE <<-Relevance(r, q.ranked)>>)
    \o [i \in DOMAIN EffectiveOrdering(q) |->
          LET o == EffectiveOrdering(q)[i]
          IN IF o.desc THEN -SortValue(r[o.attr]) ELSE SortValue(r[o.attr])]

\* Rows the ordering does not tell apart come in an order of the database's choice: by id here, and no
\* property speaks of their order.
Before(k, l, a, b) ==
  \/ \E i \in DOMAIN k : k[i] < l[i] /\ \A j \in 1..(i - 1) : k[j] = l[j]
  \/ k = l /\ a.id < b.id
Sorted(q, R) == Arranged(R, {p \in R \X R : Before(SortKey(q, p[1]), SortKey(q, p[2]), p[1], p[2])})

\* The selected fields, and the joined row under the relation's name.
Shape(q, r) ==
  [f \in q.fields \cup (IF q.related THEN {"joined"} ELSE {}) |->
     IF f = "joined" THEN {s \in table : s.id = r.parent} ELSE r[f]]
Projected(q, s) == [i \in DOMAIN s |-> Shape(q, s[i])]

\* SELECT DISTINCT keeps the first of equal results.
Deduplicated(s) == Kept(s, {i \in DOMAIN s : \A j \in 1..(i - 1) : s[j] # s[i]})

Window(q, s) ==
  LET last == IF q.limit = Unset THEN Len(s) ELSE q.offset + q.limit
  IN SubSeq(s, q.offset + 1, IF last < Len(s) THEN last ELSE Len(s))

\* Postgres orders the rows of a SELECT DISTINCT only by what is selected.
Refused(q) ==
  /\ dialect = "postgres" /\ q.distinct
  /\ \E i \in DOMAIN EffectiveOrdering(q) : EffectiveOrdering(q)[i].attr \notin q.fields

\* The results, of which LIMIT and OFFSET take a window.
Results(q) ==
  LET rows == Projected(q, Sorted(q, Joined(q, Selected(q))))
  IN IF q.distinct THEN Deduplicated(rows) ELSE rows
Execute(q) == Window(q, Results(q))

-----------------------------------------------------------------------------
(* Terminal operations *)

\* count() of the table's rows, as if distinct() made no difference to them.
CountRows(q) == Cardinality(Selected(q))

\* A distinct queryset is counted as a subquery, limit and all; another by its WHERE.
Count(q) ==
  IF q.distinct THEN Len(Execute([q EXCEPT !.ordering = NoOrdering])) ELSE Cardinality(Selected(q))

FirstRow(q) == Execute(Limit(q, 1))
LastRow(q) == Execute(Limit(Backwards(q), 1))
Exists(q) == Execute(Only(Limit([q EXCEPT !.ordering = NoOrdering], 1), {})) # <<>>
Get(q) ==
  LET rows == Execute(Limit(q, 2))
  IN CASE rows = <<>> -> "DoesNotExist" [] Len(rows) > 1 -> "MultipleObjectsReturned" [] OTHER -> "row"

\* inBulk: the rows by their primary key, the same whatever their order.
InBulk(q) == LET rows == Execute(q) IN {[pk |-> rows[i].id, row |-> rows[i]] : i \in DOMAIN rows}

\* aggregate(), over the rows that match; sum of nothing, or of NULLs only, is NULL.
Total(R, attr) ==
  LET valued == {r \in R : r[attr] # Null}
  IN IF valued = {} THEN Null ELSE Summed([r \in valued |-> r[attr]])
Aggregate(q) == [total |-> Total(Selected(q), "range"), rows |-> Cardinality(Selected(q))]

\* groupBy(), whatever distinct and the offset say.  An ordering that was asked for must
\* be by the grouped column; the model's own is dropped where it is not.
GroupBy(q, attr) ==
  IF q.ordering \notin {<<>>, NoOrdering} /\ \E i \in DOMAIN q.ordering : q.ordering[i].attr # attr
  THEN Bad
  ELSE {[key |-> v, rows |-> Cardinality({r \in Selected(q) : r[attr] = v}),
         total |-> Total({r \in Selected(q) : r[attr] = v}, "range")] : v \in {r[attr] : r \in Selected(q)}}

\* attachPrefetches: one query for the children of all rows, grouped by parent.
Prefetched(rows) ==
  LET children == Sorted(QueryState, {r \in table : r.parent \in {rows[i].id : i \in DOMAIN rows}})
  IN [i \in DOMAIN rows |-> Kept(children, {j \in DOMAIN children : children[j].parent = rows[i].id})]

-----------------------------------------------------------------------------
(* The paginators *)

\* Page by page, with the last one judged by whether the page is full.
PageNumberUntilShort(q, page, size) ==
  LET results == Execute(Slice(q, (page - 1) * size, page * size))
  IN [results |-> results, next |-> IF Len(results) = size THEN page + 1 ELSE 0]

PageNumber(q, page, size) ==
  LET lastPage == (Count(q) + size - 1) \div size
  IN [results |-> Execute(Slice(q, (page - 1) * size, page * size)),
      next |-> IF page < (IF lastPage > 1 THEN lastPage ELSE 1) THEN page + 1 ELSE 0]

LimitOffset(q, offset, limit) ==
  [results |-> Execute(Slice(q, offset, offset + limit)),
   next |-> IF offset + limit < Count(q) THEN offset + limit ELSE 0,
   previous |-> IF offset = 0 THEN Unset ELSE IF offset < limit THEN 0 ELSE offset - limit]

\* The pages and the offsets that a client comes to who follows next from the first.
PagesVisited(q) ==
  {page \in 1..(Cardinality(table) + 1) :
     \A k \in 1..(page - 1) : PageNumber(q, k, PageSize).next = k + 1}
OffsetsVisited(q) ==
  {n * PageSize : n \in {m \in 0..Cardinality(table) :
     \A k \in 0..(m - 1) : LimitOffset(q, k * PageSize, PageSize).next = (k + 1) * PageSize}}

-----------------------------------------------------------------------------
(* page(): a cursor on the primary key *)

\* The rows from the cursor on.
AtOrAfter(q, cursor, desc) ==
  [q EXCEPT !.ordering = <<[attr |-> "id", desc |-> desc]>>,
            !.filters = IF cursor = Undefined THEN @
                        ELSE @ \cup {Comparison(IF desc THEN "lte" ELSE "gte", cursor)}]

\* The rows after the cursor.
After(q, cursor, desc) ==
  [q EXCEPT !.ordering = <<[attr |-> "id", desc |-> desc]>>,
            !.filters = IF cursor = Undefined THEN @
                        ELSE @ \cup {Comparison(IF desc THEN "lt" ELSE "gt", cursor)}]

\* The cursor of the last row of the page; a row without the field has none.
Cursor(row) == IF "id" \in DOMAIN row THEN row.id ELSE Undefined

\* One row more than the page says whether there is another page.
NextPage ==
  /\ walk.pc = "on"
  /\ LET rows == Execute(Limit(After(qs, walk.cursor, walk.desc), PageSize + 1))
         page == UpTo(rows, PageSize)
     IN walk' = [walk EXCEPT !.seen = @ \o [i \in DOMAIN page |-> page[i].id],
                   !.pc = IF Len(rows) > PageSize THEN "on" ELSE "over",
                   !.cursor = IF Len(rows) > PageSize THEN Cursor(page[PageSize]) ELSE Undefined]
  /\ UNCHANGED <<dialect, table, qs, chained>>

IdsOf(R) == {r.id : r \in R}

\* Bounds: a walk starts on a queryset of at most one call that keeps its primary key,
\* is not ranked by a search and starts at its first row.
Pageable == chained <= 1 /\ "id" \in qs.fields /\ qs.ranked = Undefined /\ qs.offset = 0

StartWalk ==
  /\ walk.pc = "off" /\ Pageable
  /\ \E desc \in BOOLEAN :
       walk' = [NoWalk EXCEPT !.pc = "on", !.desc = desc, !.matching = IdsOf(Selected(qs)),
                              !.steady = IdsOf(Selected(qs))]
  /\ UNCHANGED <<dialect, table, qs, chained>>

Chain ==
  /\ walk.pc = "off" /\ chained < MaxChain
  /\ qs' \in Derived(qs)
  /\ chained' = chained + 1
  /\ UNCHANGED <<dialect, table, walk>>

ListRequest ==
  /\ walk.pc = "off" /\ chained = 0
  /\ \E r \in Requests : qs' \in {List(qs, r), Changelist(qs, r)}
  /\ chained' = MaxChain
  /\ UNCHANGED <<dialect, table, walk>>

Rematched == walk' = [walk EXCEPT !.matching = IdsOf(Selected(qs))', !.steady = @ \cap IdsOf(Selected(qs))']

InsertRow ==
  /\ walk.pc = "on"
  /\ \E r \in NewRows : r.id \notin {s.id : s \in table} /\ table' = table \cup {r}
  /\ UNCHANGED <<dialect, qs, chained>>
  /\ Rematched

\* A row that another refers to stays.
DeleteRow ==
  /\ walk.pc = "on"
  /\ \E r \in table : (\A s \in table : s.parent # r.id) /\ table' = table \ {r}
  /\ UNCHANGED <<dialect, qs, chained>>
  /\ Rematched

QueryInit ==
  /\ dialect \in Dialects /\ table \in Tables
  /\ qs = QueryState /\ chained = 0 /\ walk = NoWalk

QueryNext == Chain \/ ListRequest \/ StartWalk \/ NextPage \/ InsertRow \/ DeleteRow

QuerySpec == QueryInit /\ [][QueryNext]_queryVars

-----------------------------------------------------------------------------
(* Properties *)

QueryOK(q) ==
  q \in [filters: {q.filters}, excludes: {q.excludes}, ordering: Sorts \cup {NoOrdering},
         limit: Nat \cup {Unset}, offset: Nat, distinct: BOOLEAN, fields: SUBSET Fields,
         related: BOOLEAN, ranked: Searches \cup {Undefined}]
TableOK ==
  /\ dialect \in Dialects /\ table \subseteq Rows /\ IsFiniteSet(table)
  /\ \A r, s \in table : r.id = s.id => r = s
WalkOK ==
  walk \in [pc: {"off", "on", "over"}, cursor: IdsOf(Rows) \cup {Undefined}, seen: Seq(IdsOf(Rows)),
            desc: BOOLEAN, matching: SUBSET IdsOf(Rows), steady: SUBSET IdsOf(Rows)]
QueryTypeOK == TableOK /\ QueryOK(qs) /\ chained \in 0..MaxChain /\ WalkOK

Settled == walk.pc = "off"
Whole == Settled /\ qs.limit = Unset /\ qs.offset = 0 /\ ~Refused(qs)

Total0(v) == IF v = Null THEN 0 ELSE v
\* The ordering tells every two results apart; elsewhere the database chooses, anew each time.
Orders(q) ==
  LET attrs == {EffectiveOrdering(q)[i].attr : i \in DOMAIN EffectiveOrdering(q)}
  IN "id" \in attrs /\ (q.distinct => attrs \subseteq q.fields)

\* Of one queryset: its first and last row, whether there are any, how many, exactly one.
CountsAgree(rows) ==
  /\ Count(qs) = Len(rows)
  /\ Exists(qs) <=> rows # <<>>
  /\ Orders(qs) => FirstRow(qs) = UpTo(rows, 1)
  /\ Get(qs) = "row" <=> Len(rows) = 1
  /\ Orders(qs) /\ qs.ranked = Undefined /\ ~qs.distinct
       => LastRow(qs) = SubSeq(rows, IF rows = <<>> THEN 1 ELSE Len(rows), Len(rows))

\* Its groups add up to its aggregates.
GroupsAddUp ==
  LET groups == GroupBy(qs, "parent")
  IN groups # Bad =>
       /\ Summed([g \in groups |-> g.rows]) = Aggregate(qs).rows
       /\ Summed([g \in groups |-> Total0(g.total)]) = Total0(Aggregate(qs).total)

\* Its rows by primary key, and what was prefetched for them.
KeyedAgree(rows) ==
  "id" \in qs.fields => Cardinality(InBulk(qs)) = Count(qs) /\
    \A i \in DOMAIN rows :
      {Prefetched(rows)[i][n] : n \in DOMAIN Prefetched(rows)[i]} = {r \in table : r.parent = rows[i].id}

\* The terminal operations agree about one queryset.
TerminalsAgree ==
  Whole => LET rows == Execute(qs) IN CountsAgree(rows) /\ GroupsAddUp /\ KeyedAgree(rows)

\* Whoever follows next from the first page gets the rows of the queryset, each once and in
\* order where the ordering is a total one, no empty page unless there are no rows, and no
\* last page before the last row.
Covered(rows, page, start, after) ==
  /\ Orders(qs) => page.results = SubSeq(rows, start + 1,
                                    IF start + PageSize < Len(rows) THEN start + PageSize ELSE Len(rows))
  /\ page.results = <<>> => start = 0
  /\ IF page.next = 0 THEN Len(rows) <= start + PageSize ELSE page.next = after
PagesCover ==
  Whole =>
    /\ \A page \in PagesVisited(qs) :
         Covered(Execute(qs), PageNumber(qs, page, PageSize), (page - 1) * PageSize, page + 1)
    /\ \A offset \in OffsetsVisited(qs) :
         Covered(Execute(qs), LimitOffset(qs, offset, PageSize), offset, offset + PageSize)

\* Paging by cursor, whose caller keeps nothing but the last page's cursor, is paging as
\* CursorPages states it: each page goes on after all that was shown, whatever came or went.
Pages == INSTANCE CursorPages WITH PerPage <- PageSize,
  matching <- walk.matching, shown <- walk.seen, desc <- walk.desc, phase <- walk.pc,
  steady <- walk.steady
PagesByCursor == Pages!PagesSpec
=============================================================================
