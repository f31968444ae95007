--------------------------- MODULE DataLayerProofs ---------------------------
(***************************************************************************)
(* Proofs about DataLayer, for any number of calls, keys and rows, on both *)
(* databases; about paging by cursor; and about QuerySets, for any tables, *)
(* conditions, orderings and page size: what page() shows is what          *)
(* CursorPages promises, the terminal operations agree about a queryset,   *)
(* and its paginators cover it; and about the lookups and searches of      *)
(* Matching, each of which means what it says.                             *)
(***************************************************************************)
EXTENDS DataLayer, CursorPages, QuerySets, Matching, FiniteSetTheorems, SequenceTheorems, WellFoundedInduction, TLAPS

(* The stages that a call can have ahead of it. *)
Removing == {<<"remove", "told">>, <<"remove", "told", "insert", "told">>}
Dooming == {<<"doom", "remove", "told">>, <<"doom", "remove", "told", "insert", "told">>}
Linking == {<<"doom", "remove", "told", "insert", "told">>, <<"remove", "told", "insert", "told">>,
            <<"told", "insert", "told">>}
Telling == {<<"told">>, <<"told", "insert", "told">>}
Inserting == <<"insert", "told">>
Writing == <<"write", "told">>
Todos == {<<>>, <<"look">>, Inserting, Writing} \cup Removing \cup Dooming \cup Linking \cup Telling
Removes == Removing \cup Dooming
Inserts == Linking \cup {Inserting}

LEMMA TodoTypes == Todos \subseteq Seq(Stages)
  BY DEF Todos, Removing, Dooming, Linking, Telling, Inserting, Writing, Stages

LEMMA TodoHeads ==
  ASSUME NEW t \in Todos, t # <<>>
  PROVE  /\ Head(t) = "look" => t = <<"look">>
         /\ Head(t) = "doom" <=> t \in Dooming
         /\ Head(t) = "remove" <=> t \in Removing
         /\ Head(t) = "insert" <=> t = Inserting
         /\ Head(t) = "write" <=> t = Writing
         /\ Head(t) = "told" <=> t \in Telling
  BY DEF Todos, Removing, Dooming, Linking, Telling, Inserting, Writing

LEMMA TodoTails ==
  /\ Tail(<<"look">>) = <<>> /\ Tail(Inserting) = <<"told">> /\ Tail(Writing) = <<"told">>
  /\ \A t \in Dooming : /\ Tail(t) \in Removing /\ (t \in Inserts <=> Tail(t) \in Inserts)
  /\ \A t \in Removing : /\ Tail(t) \in Telling /\ Tail(Tail(t)) \in {<<>>, Inserting}
                         /\ (t \in Inserts <=> Tail(t) \in Inserts) /\ (t \in Inserts <=> Tail(Tail(t)) \in Inserts)
  /\ \A t \in Telling : Tail(t) \in {<<>>, Inserting} /\ (t \in Inserts <=> Tail(t) \in Inserts)
  BY DEF Inserts, Removing, Dooming, Linking, Telling, Inserting, Writing

LEMMA Nearly ==
  ASSUME NEW t \in Telling \cup {<<>>, Inserting}
  PROVE  t \in Todos /\ t \notin Removes /\ t \notin Removing /\ t # <<"look">> /\ t # Writing
  BY DEF Todos, Removes, Removing, Dooming, Linking, Telling, Inserting, Writing

LEMMA TodoKinds ==
  /\ \A t \in Todos : t \in Removes <=> "remove" \in {t[i] : i \in DOMAIN t}
  /\ <<>> \notin Inserts /\ <<"look">> \notin Inserts /\ <<"told">> \notin Inserts
  /\ Writing \notin Inserts /\ Inserting \in Inserts /\ Inserting \notin Removes
  /\ <<>> \notin Telling /\ <<"look">> # <<>> /\ <<"told">> \in Telling
  /\ \A t \in Telling \cup {<<>>, Inserting, Writing, <<"look">>} : t \notin Removes
  BY DEF Todos, Inserts, Removes, Removing, Dooming, Linking, Telling, Inserting, Writing
-----------------------------------------------------------------------------
(* The calls, their locks and the ids of the rows *)

Seen == [c \in Calls |-> Visible(c)]
Own(m) == m.out \cup Ids(m.ins)
OneEach(R) == \A r, s \in R : r.id = s.id => r = s
Looking == {"getOrCreate", "updateOrCreate", "add", "set"}

(* A call is inside its transaction while it is open, and add and set always are. *)
ShapeOK(call) ==
  /\ call.todo \in Todos
  /\ call.tx => call.pc = "open"
  /\ call.op \in {"add", "set"} /\ call.pc = "open" => call.tx
  /\ call.pc \in {"lock", "open"} =>
       /\ call.todo = <<"look">> => call.op \in Looking
       /\ call.todo = Writing \/ call.op = "updateOrCreate" => call.to \in Keys
       /\ call.op \in {"getOrCreate", "updateOrCreate"} => \E k \in Keys : call.keys = {k}
Shapes == \A c \in Calls : ShapeOK(calls[c])

(* On SQLite the connection is held by the one call in a transaction; only a transaction on  *)
(* Postgres has writes of its own.                                                           *)
Locked ==
  /\ Sqlite => \A c \in Calls : calls[c].tx <=> holder = c
  /\ \A c \in Calls : Sqlite \/ ~calls[c].tx => mine[c] = NothingWritten

(* Ids are given out once, and two transactions never have the same row in hand. *)
IdsOnce ==
  /\ OneEach(rows) /\ OneEach(undo) /\ \A r \in rows \cup undo : r.id < nextId
  /\ \A c \in Calls :
       /\ OneEach(mine[c].ins)
       /\ \A i \in Own(mine[c]) : i < nextId
       /\ \A r \in mine[c].ins : r.id \in Ids(rows) => r.id \in mine[c].out
       /\ \A d \in Calls \ {c} : Own(mine[c]) \cap Own(mine[d]) = {}

Base == TypeOK /\ Shapes /\ Locked /\ IdsOnce

(* The others of a step only see rows change under them. *)
Besides(c) == \A d \in Calls \ {c} :
  /\ calls'[d].op = calls[d].op /\ calls'[d].pc = calls[d].pc /\ calls'[d].todo = calls[d].todo
  /\ calls'[d].ready = calls[d].ready /\ calls'[d].tx = calls[d].tx /\ calls'[d].keys = calls[d].keys
  /\ calls'[d].to = calls[d].to /\ calls'[d].limit = calls[d].limit /\ calls'[d].drop = calls[d].drop
  /\ calls'[d].add = calls[d].add /\ calls'[d].found = calls[d].found
  /\ calls'[d].doomed = calls[d].doomed /\ calls'[d].gone = calls[d].gone
  /\ calls'[d].since = calls[d].since \cup Changed(rows, rows')
  /\ mine'[d] = mine[d]

LEMMA NotCalledType == NotCalled \in Call
  BY DEF NotCalled, Call

LEMMA CallAlone ==
  ASSUME TypeOK, NEW c \in Calls, NEW next \in Call, calls' = [calls EXCEPT ![c] = next], UNCHANGED <<rows, mine>>
  PROVE  calls' \in [Calls -> Call] /\ calls'[c] = next /\ Besides(c)
<1>1. calls \in [Calls -> Call]
  BY DEF TypeOK
<1>2. Changed(rows, rows') = {}
  BY DEF Changed
<1>3. calls' \in [Calls -> Call] /\ calls'[c] = next /\ \A d \in Calls \ {c} : calls'[d] = calls[d]
  BY <1>1
<1> QED
  BY <1>2, <1>3 DEF Besides

(* A call sees rows change under it. *)
LEMMA SinceGrows ==
  ASSUME NEW a \in Call, NEW S \in SUBSET Row, NEW b, b = [a EXCEPT !.since = a.since \cup S]
  PROVE  /\ b \in Call /\ b.op = a.op /\ b.pc = a.pc /\ b.todo = a.todo /\ b.ready = a.ready /\ b.tx = a.tx
         /\ b.keys = a.keys /\ b.to = a.to /\ b.limit = a.limit /\ b.drop = a.drop /\ b.add = a.add
         /\ b.found = a.found /\ b.doomed = a.doomed /\ b.gone = a.gone /\ b.since = a.since \cup S
<1>1. a.since \cup S \in SUBSET Row
  BY DEF Call
<1> DEFINE T == a.since \cup S
<1>2. b = [a EXCEPT !.since = T] /\ T \in SUBSET Row
  BY <1>1
<1> HIDE DEF T
<1>3. b \in Call /\ b.since = T
  BY <1>2 DEF Call
<1>4. /\ b.op = a.op /\ b.pc = a.pc /\ b.todo = a.todo /\ b.ready = a.ready /\ b.tx = a.tx
      /\ b.keys = a.keys /\ b.to = a.to /\ b.limit = a.limit /\ b.drop = a.drop /\ b.add = a.add
      /\ b.found = a.found /\ b.doomed = a.doomed /\ b.gone = a.gone
  BY <1>2 DEF Call
<1> QED
  BY <1>3, <1>4 DEF T

LEMMA CallUnder ==
  ASSUME TypeOK, NEW c \in Calls, NEW next \in Call, rows' \subseteq Row, calls' = Underneath(c, next, rows'),
         \A d \in Calls \ {c} : mine'[d] = mine[d]
  PROVE  calls' \in [Calls -> Call] /\ calls'[c] = next /\ Besides(c)
<1>1. calls \in [Calls -> Call] /\ rows \subseteq Row
  BY DEF TypeOK
<1>2. Changed(rows, rows') \subseteq Row
  BY <1>1 DEF Changed
<1> DEFINE S == Changed(rows, rows')
<1>3. calls' = [d \in Calls |-> IF d = c THEN next ELSE [calls[d] EXCEPT !.since = @ \cup S]]
  BY DEF Underneath
<1>4. S \in SUBSET Row /\ S = Changed(rows, rows')
  BY <1>2
<1> HIDE DEF S
<1>5. ASSUME NEW d \in Calls \ {c}
      PROVE  calls[d] \in Call /\ calls'[d] = [calls[d] EXCEPT !.since = calls[d].since \cup S]
  BY <1>1, <1>3
<1>6. calls'[c] = next
  BY <1>3
<1>7. ASSUME NEW d \in Calls \ {c}
      PROVE  /\ calls'[d] \in Call
             /\ calls'[d].op = calls[d].op /\ calls'[d].pc = calls[d].pc /\ calls'[d].todo = calls[d].todo
             /\ calls'[d].ready = calls[d].ready /\ calls'[d].tx = calls[d].tx /\ calls'[d].keys = calls[d].keys
             /\ calls'[d].to = calls[d].to /\ calls'[d].limit = calls[d].limit /\ calls'[d].drop = calls[d].drop
             /\ calls'[d].add = calls[d].add /\ calls'[d].found = calls[d].found
             /\ calls'[d].doomed = calls[d].doomed /\ calls'[d].gone = calls[d].gone
             /\ calls'[d].since = calls[d].since \cup S
  <2>1. PICK a \in Call : a = calls[d]
    BY <1>5
  <2>2. PICK b : b = calls'[d]
    OBVIOUS
  <2>3. b = [a EXCEPT !.since = a.since \cup S]
    BY <1>5, <2>1, <2>2
  <2> QED
    BY <1>4, <2>1, <2>2, <2>3, SinceGrows
<1>8. calls' \in [Calls -> Call]
  <2>1. calls' = [d \in Calls |-> calls'[d]]
    BY <1>3
  <2>2. \A d \in Calls : calls'[d] \in Call
    BY <1>6, <1>7
  <2> QED
    BY <2>1, <2>2
<1>9. Besides(c)
  BY <1>4, <1>7 DEF Besides
<1> QED
  BY <1>6, <1>8, <1>9

(* What the others see changes only where rows were changed under them. *)
LEMMA OthersSee ==
  ASSUME NEW c \in Calls, Besides(c), UNCHANGED db, NEW d \in Calls \ {c}
  PROVE  Changed(Seen[d], Seen'[d]) \subseteq Changed(rows, rows')
<1>1. mine'[d] = mine[d] /\ calls'[d].tx = calls[d].tx
  BY DEF Besides
<1>2. Seen[d] = IF db = "sqlite" \/ ~calls[d].tx THEN rows
                ELSE {r \in rows : r.id \notin mine[d].out} \cup mine[d].ins
  BY DEF Seen, Visible, Sqlite
<1>3. Seen'[d] = IF db = "sqlite" \/ ~calls[d].tx THEN rows'
                 ELSE {r \in rows' : r.id \notin mine[d].out} \cup mine[d].ins
  BY <1>1 DEF Seen, Visible, Sqlite
<1> QED
  BY <1>2, <1>3 DEF Changed

(* A call that passes a stage keeps everything but the stages ahead. *)
LEMMA PastShape ==
  ASSUME TypeOK, NEW c \in Calls, NEW later \in Todos, NEW p, p = Past(c, later)
  PROVE  /\ p \in Call /\ p.todo = later /\ p.ready = calls[c].tx /\ p.op = calls[c].op /\ p.pc = calls[c].pc
         /\ p.tx = calls[c].tx /\ p.keys = calls[c].keys /\ p.to = calls[c].to /\ p.limit = calls[c].limit
         /\ p.drop = calls[c].drop /\ p.add = calls[c].add /\ p.found = calls[c].found
         /\ p.doomed = calls[c].doomed /\ p.gone = calls[c].gone /\ p.since = calls[c].since
<1>1. calls[c] \in Call /\ later \in Seq(Stages)
  BY TodoTypes DEF TypeOK
<1> QED
  BY <1>1 DEF Past, Call

LEMMA VisibleRows ==
  ASSUME Base, NEW c \in Calls
  PROVE  /\ Seen[c] = Visible(c) /\ Visible(c) \subseteq Row /\ OneEach(Visible(c)) /\ \A r \in Visible(c) : r.id < nextId
         /\ Sqlite \/ ~calls[c].tx => Visible(c) = rows
<1>1. Seen[c] = Visible(c)
  BY DEF Seen
<1>2. mine[c].ins \subseteq Row /\ rows \subseteq Row
  BY DEF Base, TypeOK
<1>3. /\ OneEach(rows) /\ OneEach(mine[c].ins) /\ \A r \in rows : r.id < nextId
      /\ \A r \in mine[c].ins : r.id < nextId /\ (r.id \in Ids(rows) => r.id \in mine[c].out)
  BY DEF Base, IdsOnce, Own, Ids
<1>4. CASE Sqlite \/ ~calls[c].tx
  BY <1>1, <1>2, <1>3, <1>4 DEF Visible
<1>5. CASE ~(Sqlite \/ ~calls[c].tx)
  <2>1. Visible(c) = {r \in rows : r.id \notin mine[c].out} \cup mine[c].ins
    BY <1>5 DEF Visible
  <2>2. \A r \in rows : r.id \in Ids(rows)
    BY DEF Ids
  <2> QED
    BY <1>1, <1>2, <1>3, <1>5, <2>1, <2>2 DEF OneEach
<1> QED
  BY <1>4, <1>5
LEMMA IdsIn == ASSUME NEW R, NEW r \in R PROVE r.id \in Ids(R)
  BY DEF Ids

(* A statement that takes rows out and puts rows in, under their ids or fresh ones. *)
Fits(c, out, ins) ==
  /\ out \subseteq Visible(c) /\ ins \subseteq Row /\ OneEach(ins) /\ Unlocked(c, out)
  /\ nextId' \in 1..(MaxId + 1) /\ nextId <= nextId'
  /\ \A r \in ins : r.id \in Ids(out) \/ (nextId <= r.id /\ r.id < nextId')

LEMMA WriteAtOnce ==
  ASSUME Base, NEW c \in Calls, NEW out, NEW ins, NEW next \in Call, next.tx = calls[c].tx, Fits(c, out, ins),
         Write(c, out, ins, next), UNCHANGED <<db, holder, undo>>, Sqlite \/ ~calls[c].tx
  PROVE  /\ rows' = (rows \ out) \cup ins /\ UNCHANGED mine /\ rows' \subseteq Row
         /\ calls' \in [Calls -> Call] /\ calls'[c] = next /\ Besides(c) /\ RacedBy(rows')
         /\ IdsOnce' /\ Seen'[c] = (Seen[c] \ out) \cup ins
<1>1. rows' = (rows \ out) \cup ins /\ UNCHANGED mine /\ calls' = Underneath(c, next, rows') /\ RacedBy(rows')
  BY DEF Write
<1>2. rows \subseteq Row /\ nextId \in Nat /\ nextId' \in Nat /\ \A r \in Row : r.id \in Nat
  BY DataLayerConstants DEF Base, TypeOK, Row, Fits
<1>3. rows' \subseteq Row
  BY <1>1, <1>2 DEF Fits
<1>4. calls' \in [Calls -> Call] /\ calls'[c] = next /\ Besides(c)
  BY <1>1, <1>3, CallUnder DEF Base
<1>5. Visible(c) = rows
  BY VisibleRows
<1>6. \A r \in rows : r.id < nextId
  BY DEF Base, IdsOnce
<1>7. Ids(out) \subseteq Ids(rows)
  BY <1>5 DEF Fits, Ids
<1>8. OneEach(rows')
  <2> SUFFICES ASSUME NEW r \in rows', NEW s \in rows', r.id = s.id PROVE r = s
    BY DEF OneEach
  <2>1. OneEach(rows) /\ OneEach(ins)
    BY DEF Base, IdsOnce, Fits
  <2>2. ASSUME NEW p \in rows \ out, NEW q \in ins, p.id = q.id PROVE FALSE
    <3>1. p.id < nextId /\ p.id \in Nat
      BY <1>2, <1>6, <2>2
    <3>2. q.id \in Ids(out)
      BY <1>2, <2>2, <3>1 DEF Fits
    <3>3. PICK o \in out : o.id = q.id
      BY <3>2 DEF Ids
    <3>4. o \in rows
      BY <1>5 DEF Fits
    <3>5. o = p
      BY <2>1, <2>2, <3>3, <3>4 DEF OneEach
    <3> QED
      BY <3>5
  <2>3. CASE r \in rows \ out /\ s \in rows \ out
    BY <2>1, <2>3 DEF OneEach
  <2>4. CASE r \in ins /\ s \in ins
    BY <2>1, <2>4 DEF OneEach
  <2> QED
    BY <1>1, <2>2, <2>3, <2>4
<1>9. \A r \in rows' : r.id < nextId'
  <2> SUFFICES ASSUME NEW r \in rows' PROVE r.id < nextId'
    OBVIOUS
  <2>1. r.id \in Nat
    BY <1>2, <1>3
  <2>2. CASE r \in rows
    BY <1>2, <1>6, <2>1, <2>2 DEF Fits
  <2>3. CASE r \in ins /\ r.id \in Ids(out)
    <3>1. PICK o \in rows : o.id = r.id
      BY <1>7, <2>3 DEF Ids
    <3> QED
      BY <1>2, <1>6, <2>1, <3>1 DEF Fits
  <2> QED
    BY <1>1, <2>2, <2>3 DEF Fits
<1>10. \A r \in undo : r.id < nextId'
  <2> SUFFICES ASSUME NEW r \in undo PROVE r.id < nextId'
    OBVIOUS
  <2>1. r.id < nextId /\ r.id \in Nat
    BY <1>2 DEF Base, IdsOnce, TypeOK
  <2> QED
    BY <1>2, <2>1 DEF Fits
<1>11. ASSUME NEW d \in Calls PROVE /\ \A i \in Own(mine[d]) : i < nextId'
                                    /\ \A r \in mine[d].ins : r.id \in Ids(rows') => r.id \in mine[d].out
  <2>1. mine[d].out \subseteq Nat /\ mine[d].ins \subseteq Row /\ Own(mine[d]) \subseteq Nat
    BY <1>2 DEF Base, TypeOK, Own, Ids
  <2>2. \A i \in Own(mine[d]) : i < nextId
    BY DEF Base, IdsOnce
  <2>3. \A i \in Own(mine[d]) : i < nextId'
    BY <1>2, <2>1, <2>2 DEF Fits
  <2>4. ASSUME NEW r \in mine[d].ins, r.id \in Ids(rows') PROVE r.id \in mine[d].out
    <3>1. r.id < nextId /\ r.id \in Nat
      BY <1>2, <2>1, <2>2, IdsIn DEF Own
    <3>2. PICK p \in rows' : p.id = r.id
      BY <2>4 DEF Ids
    <3>3. p \in rows \/ p.id \in Ids(out)
      BY <1>1, <1>2, <3>1, <3>2 DEF Fits
    <3>4. r.id \in Ids(rows)
      BY <1>7, <3>2, <3>3, IdsIn
    <3> QED
      BY <3>4 DEF Base, IdsOnce
  <2> QED
    BY <2>3, <2>4
<1>12. IdsOnce'
  BY <1>1, <1>8, <1>9, <1>10, <1>11 DEF Base, IdsOnce
<1>13. Seen'[c] = rows' /\ Seen[c] = rows
  BY <1>4, <1>5 DEF Seen, Visible, Sqlite
<1> QED
  BY <1>1, <1>3, <1>4, <1>12, <1>13

LEMMA WriteApart ==
  ASSUME Base, NEW c \in Calls, NEW out, NEW ins, NEW next \in Call, next.tx = calls[c].tx, Fits(c, out, ins),
         Write(c, out, ins, next), UNCHANGED <<db, holder, undo>>, ~(Sqlite \/ ~calls[c].tx)
  PROVE  /\ UNCHANGED <<rows, reader>> /\ \A d \in Calls \ {c} : mine'[d] = mine[d]
         /\ mine' \in [Calls -> [out: SUBSET (1..MaxId), ins: SUBSET Row]]
         /\ calls' \in [Calls -> Call] /\ calls'[c] = next /\ Besides(c)
         /\ IdsOnce' /\ Seen'[c] = (Seen[c] \ out) \cup ins
<1> DEFINE m == [out |-> mine[c].out \cup Ids(out), ins |-> (mine[c].ins \ out) \cup ins]
<1>1. /\ mine' = [mine EXCEPT ![c] = [out |-> mine[c].out \cup Ids(out), ins |-> (mine[c].ins \ out) \cup ins]]
      /\ calls' = [calls EXCEPT ![c] = next] /\ UNCHANGED <<rows, reader>>
  BY DEF Write
<1>2. /\ rows \subseteq Row /\ nextId \in Nat /\ nextId' \in Nat /\ \A r \in Row : r.id \in 1..MaxId /\ r.id \in Nat
      /\ mine \in [Calls -> [out: SUBSET (1..MaxId), ins: SUBSET Row]] /\ MaxId \in Nat
  BY DataLayerConstants DEF Base, TypeOK, Row, Fits
<1>3. mine' = [mine EXCEPT ![c] = m]
  BY <1>1, <1>2
<1>4. m.out = mine[c].out \cup Ids(out) /\ m.ins = (mine[c].ins \ out) \cup ins
  OBVIOUS
<1>5. out \subseteq Visible(c) /\ Visible(c) \subseteq Row /\ OneEach(Visible(c))
  BY VisibleRows DEF Fits
<1>6. m \in [out: SUBSET (1..MaxId), ins: SUBSET Row]
  <2>1. Ids(out) \subseteq 1..MaxId
    BY <1>2, <1>5 DEF Ids
  <2> QED
    BY <1>2, <2>1 DEF Fits
<1> HIDE DEF m
<1>7. mine' \in [Calls -> [out: SUBSET (1..MaxId), ins: SUBSET Row]] /\ mine'[c] = m /\ \A d \in Calls \ {c} : mine'[d] = mine[d]
  BY <1>2, <1>3, <1>6
<1>8. calls' \in [Calls -> Call] /\ calls'[c] = next /\ Besides(c)
  <2>1. calls \in [Calls -> Call] /\ Changed(rows, rows') = {}
    BY <1>1 DEF Base, TypeOK, Changed
  <2> QED
    BY <1>1, <1>7, <2>1 DEF Besides
<1>9. Visible(c) = {r \in rows : r.id \notin mine[c].out} \cup mine[c].ins
  BY DEF Visible
<1>10. Seen'[c] = (Seen[c] \ out) \cup ins
  <2>1. Seen'[c] = {r \in rows : r.id \notin m.out} \cup m.ins
    BY <1>1, <1>7, <1>8 DEF Seen, Visible, Sqlite
  <2>2. Seen[c] = Visible(c)
    BY DEF Seen
  <2>3. ASSUME NEW r \in rows, r.id \notin mine[c].out PROVE r \in out <=> r.id \in Ids(out)
    <3>1. r \in Visible(c)
      BY <1>9, <2>3
    <3> QED
      BY <1>5, <3>1 DEF Ids, OneEach
  <2> QED
    BY <1>4, <1>9, <2>1, <2>2, <2>3
<1>11. \A i \in Ids(out) : i \in Nat /\ i < nextId
  BY <1>2, <1>5, VisibleRows DEF Ids
<1>12. \A r \in ins : r.id \in Nat /\ r.id < nextId'
  <2> SUFFICES ASSUME NEW r \in ins PROVE r.id \in Nat /\ r.id < nextId'
    OBVIOUS
  <2>1. r.id \in Nat
    BY <1>2 DEF Fits
  <2>2. CASE r.id \in Ids(out)
    BY <1>2, <1>11, <2>1, <2>2 DEF Fits
  <2> QED
    BY <2>1, <2>2 DEF Fits
<1>13. \A d \in Calls : /\ Own(mine[d]) \subseteq Nat /\ \A i \in Own(mine[d]) : i < nextId
                        /\ \A r \in mine[d].ins : r.id \in Ids(rows) => r.id \in mine[d].out
                        /\ OneEach(mine[d].ins)
  <2>1. \A d \in Calls : Own(mine[d]) \subseteq Nat
    BY <1>2 DEF Own, Ids
  <2> QED
    BY <2>1 DEF Base, IdsOnce
<1>14. OneEach(m.ins)
  <2> SUFFICES ASSUME NEW r \in m.ins, NEW s \in m.ins, r.id = s.id PROVE r = s
    BY DEF OneEach
  <2>1. OneEach(mine[c].ins) /\ OneEach(ins)
    BY <1>13 DEF Fits
  <2>2. ASSUME NEW p \in mine[c].ins \ out, NEW q \in ins, p.id = q.id PROVE FALSE
    <3>1. p.id < nextId /\ p.id \in Nat /\ p \in Visible(c)
      BY <1>9, <1>13, <2>2, IdsIn DEF Own
    <3>2. q.id \in Ids(out)
      BY <1>2, <2>2, <3>1 DEF Fits
    <3>3. PICK o \in out : o.id = q.id
      BY <3>2 DEF Ids
    <3>4. o = p
      BY <1>5, <2>2, <3>1, <3>3 DEF OneEach
    <3> QED
      BY <3>4
  <2>3. CASE r \in mine[c].ins \ out /\ s \in mine[c].ins \ out
    BY <2>1, <2>3 DEF OneEach
  <2>4. CASE r \in ins /\ s \in ins
    BY <2>1, <2>4 DEF OneEach
  <2> QED
    BY <1>4, <2>2, <2>3, <2>4
<1>15. \A i \in Own(m) : i \in Own(mine[c]) \/ i \in Ids(out) \/ (nextId <= i /\ i < nextId' /\ i \in Nat)
  <2> SUFFICES ASSUME NEW i \in Own(m), i \notin Own(mine[c]), i \notin Ids(out)
               PROVE  nextId <= i /\ i < nextId' /\ i \in Nat
    OBVIOUS
  <2>1. PICK r \in ins : r.id = i
    BY <1>4 DEF Own, Ids
  <2> QED
    BY <1>12, <2>1 DEF Fits
<1>16. \A i \in Own(m) : i < nextId'
  <2> SUFFICES ASSUME NEW i \in Own(m), i \in Own(mine[c]) \/ i \in Ids(out) PROVE i < nextId'
    BY <1>15
  <2>1. i \in Nat /\ i < nextId
    BY <1>11, <1>13
  <2> QED
    BY <1>2, <2>1 DEF Fits
<1>17. \A r \in m.ins : r.id \in Ids(rows) => r.id \in m.out
  <2> SUFFICES ASSUME NEW r \in m.ins, r.id \in Ids(rows) PROVE r.id \in m.out
    OBVIOUS
  <2>1. CASE r \in mine[c].ins
    BY <1>4, <1>13, <2>1
  <2>2. CASE r \in ins
    <3>1. PICK p \in rows : p.id = r.id
      BY DEF Ids
    <3>2. p.id < nextId
      BY DEF Base, IdsOnce
    <3>3. r.id \in Ids(out)
      BY <1>2, <1>12, <2>2, <3>1, <3>2 DEF Fits
    <3> QED
      BY <1>4, <3>3
  <2> QED
    BY <1>4, <2>1, <2>2
<1>18. ASSUME NEW d \in Calls \ {c} PROVE Own(m) \cap Own(mine[d]) = {}
  <2> SUFFICES ASSUME NEW i \in Own(m), i \in Own(mine[d]) PROVE FALSE
    OBVIOUS
  <2>1. i \in Nat /\ i < nextId
    BY <1>13
  <2>2. i \notin Own(mine[c])
    BY DEF Base, IdsOnce
  <2>3. i \in Ids(out)
    BY <1>2, <1>15, <2>1, <2>2
  <2>4. i \notin mine[d].out
    BY <2>3 DEF Fits, Unlocked
  <2>5. i \in Ids(mine[d].ins)
    BY <2>4 DEF Own
  <2>6. PICK o \in out : o.id = i
    BY <2>3 DEF Ids
  <2>7. o \in rows
    BY <1>5, <1>9, <2>2, <2>6, IdsIn DEF Own
  <2>8. PICK r \in mine[d].ins : r.id = i
    BY <2>5 DEF Ids
  <2> QED
    BY <1>13, <2>4, <2>6, <2>7, <2>8, IdsIn
<1>19. /\ OneEach(rows) /\ OneEach(undo) /\ \A r \in rows \cup undo : r.id < nextId'
  <2>1. OneEach(rows) /\ OneEach(undo) /\ \A r \in rows \cup undo : r.id < nextId /\ r.id \in Nat
    BY <1>2 DEF Base, IdsOnce, TypeOK
  <2> QED
    BY <1>2, <2>1 DEF Fits
<1>20. ASSUME NEW d \in Calls
       PROVE  /\ OneEach(mine'[d].ins)
              /\ \A i \in Own(mine'[d]) : i < nextId'
              /\ \A r \in mine'[d].ins : r.id \in Ids(rows) => r.id \in mine'[d].out
              /\ \A e \in Calls \ {d} : Own(mine'[d]) \cap Own(mine'[e]) = {}
  <2>1. CASE d = c
    BY <1>7, <1>14, <1>16, <1>17, <1>18, <2>1
  <2>2. CASE d # c
    <3>1. mine'[d] = mine[d]
      BY <1>7, <2>2
    <3>2. \A i \in Own(mine[d]) : i < nextId'
      BY <1>2, <1>13 DEF Fits
    <3>3. ASSUME NEW e \in Calls \ {d} PROVE Own(mine[d]) \cap Own(mine'[e]) = {}
      <4>1. CASE e = c
        BY <1>7, <1>18, <2>2, <4>1
      <4>2. CASE e # c
        BY <1>7, <4>2 DEF Base, IdsOnce
      <4> QED
        BY <4>1, <4>2
    <3> QED
      BY <1>13, <3>1, <3>2, <3>3
  <2> QED
    BY <2>1, <2>2
<1>21. IdsOnce'
  <2>1. rows' = rows /\ undo' = undo
    BY <1>1
  <2> QED
    BY <1>19, <1>20, <2>1 DEF IdsOnce
<1> QED
  BY <1>1, <1>7, <1>8, <1>10, <1>21
-----------------------------------------------------------------------------
(* What each step does to the call that takes it *)

Keeps(a, b) == /\ b.op = a.op /\ b.keys = a.keys /\ b.to = a.to /\ b.limit = a.limit /\ b.tx = a.tx /\ b.pc = a.pc
Holds(a, b) == /\ b.drop = a.drop /\ b.add = a.add /\ b.doomed = a.doomed /\ b.gone = a.gone /\ b.since = a.since
Moved(c) == calls' \in [Calls -> Call] /\ Besides(c)
Aside == UNCHANGED <<db, rows, nextId, holder, undo, mine, blind>>

LEMMA StageTodo ==
  ASSUME Base, NEW c \in Calls, Stage(c) # "none"
  PROVE  /\ calls[c].pc = "open" /\ calls[c].todo \in Todos /\ calls[c].todo # <<>>
         /\ Stage(c) = "look" => calls[c].todo = <<"look">>
         /\ Stage(c) = "doom" => calls[c].todo \in Dooming
         /\ Stage(c) = "remove" => calls[c].todo \in Removing
         /\ Stage(c) = "insert" => calls[c].todo = Inserting
         /\ Stage(c) = "write" => calls[c].todo = Writing
         /\ Stage(c) = "told" => calls[c].todo \in Telling
<1>1. calls[c].pc = "open" /\ calls[c].todo # <<>> /\ Stage(c) = Head(calls[c].todo)
  BY DEF Stage
<1>2. calls[c].todo \in Todos
  BY DEF Base, Shapes, ShapeOK
<1> QED
  BY <1>1, <1>2, TodoHeads

LEMMA ToldStage ==
  ASSUME Base, NEW c \in Calls
  PROVE  Stage(c) = "told" <=> calls[c].pc = "open" /\ calls[c].todo \in Telling
<1>1. calls[c].todo \in Todos
  BY DEF Base, Shapes, ShapeOK
<1>2. ASSUME calls[c].todo \in Telling PROVE calls[c].todo # <<>> /\ Head(calls[c].todo) = "told"
  BY <1>1, <1>2, TodoHeads, TodoKinds
<1> QED
  BY <1>1, <1>2, StageTodo DEF Stage

LEMMA PlanTodos ==
  ASSUME NEW op \in Operations
  PROVE  /\ Plan(op) \in Todos /\ (Plan(op) = <<"look">> => op \in Looking) /\ (Plan(op) = Writing => op = "update")
         /\ (Plan(op) \in Inserts => op = "create") /\ (Plan(op) \in Removes => op = "delete")
         /\ (op \in Looking => Plan(op) = <<"look">>) /\ Plan(op) \notin Telling
  BY DEF Plan, Todos, Inserts, Removes, Removing, Dooming, Linking, Telling, Inserting, Writing, Operations, Looking

LEMMA StartShape ==
  ASSUME Base, NEW c \in Calls, NEW op \in Operations, Start(c, op)
  PROVE  /\ calls[c].pc = "idle" /\ Aside /\ UNCHANGED <<view, reader, bare>> /\ Moved(c)
         /\ calls'[c].op = op /\ calls'[c].pc \in {"lock", "open"} /\ calls'[c].todo = Plan(op) /\ ~calls'[c].tx
         /\ op \in {"add", "set"} => calls'[c].pc = "lock"
         /\ op \in {"update", "updateOrCreate"} => calls'[c].to \in Keys
         /\ op \in {"getOrCreate", "updateOrCreate"} => \E k \in Keys : calls'[c].keys = {k}
         /\ calls'[c].limit \in Limits \cup {MaxId}
         /\ calls'[c].doomed = {} /\ calls'[c].gone = {} /\ calls'[c].since = {}
<1>1. PICK tx \in InAtomic(op), ks \in KeysFor(op), limit \in IF op = "delete" THEN Limits ELSE {MaxId},
           to \in IF op \in {"update", "updateOrCreate"} THEN Keys ELSE {None} :
        calls' = [calls EXCEPT ![c] =
          [NotCalled EXCEPT !.op = op, !.pc = IF tx THEN "lock" ELSE "open",
                            !.todo = Plan(op), !.keys = ks, !.drop = ks, !.add = ks,
                            !.to = to, !.limit = limit]]
  BY DEF Start
<1>2. PICK pc : pc = IF tx THEN "lock" ELSE "open"
  OBVIOUS
<1>3. pc \in {"lock", "open"} /\ (op \in {"add", "set"} => pc = "lock")
  BY <1>2 DEF InAtomic
<1>4. ks \in SUBSET Keys /\ (op \in {"getOrCreate", "updateOrCreate"} => \E k \in Keys : ks = {k})
  BY DEF KeysFor
<1>5. to \in Keys \cup {None} /\ (op \in {"update", "updateOrCreate"} => to \in Keys)
  OBVIOUS
<1>6. limit \in Nat /\ limit \in Limits \cup {MaxId}
  BY DataLayerConstants
<1>7. PICK todo \in Seq(Stages) : todo = Plan(op)
  BY PlanTodos, TodoTypes
<1>8. PICK next : next = [NotCalled EXCEPT !.op = op, !.pc = pc, !.todo = todo, !.keys = ks, !.drop = ks, !.add = ks,
                                           !.to = to, !.limit = limit]
  OBVIOUS
<1>9. calls' = [calls EXCEPT ![c] = next]
  BY <1>1, <1>2, <1>7, <1>8
<1>10. /\ next \in Call /\ next.op = op /\ next.pc = pc /\ next.todo = todo /\ next.keys = ks /\ next.to = to
       /\ next.limit = limit /\ next.tx = FALSE /\ next.doomed = {} /\ next.gone = {} /\ next.since = {}
  <2>1. /\ NotCalled \in Call /\ NotCalled.tx = FALSE /\ NotCalled.doomed = {} /\ NotCalled.gone = {}
        /\ NotCalled.since = {}
    BY NotCalledType DEF NotCalled
  <2>2. next \in Call
    BY <1>3, <1>4, <1>5, <1>6, <1>8, <2>1 DEF Call
  <2> QED
    BY <1>8, <2>1, <2>2 DEF Call
<1>11. Aside /\ UNCHANGED <<view, reader, bare>> /\ calls[c].pc = "idle"
  BY DEF Start, Aside
<1>12. Moved(c) /\ calls'[c] = next
  BY <1>9, <1>10, <1>11, CallAlone DEF Moved, Base, Aside
<1> QED
  BY <1>3, <1>4, <1>5, <1>6, <1>7, <1>10, <1>11, <1>12

LEMMA BeginShape ==
  ASSUME Base, NEW c \in Calls, Begin(c)
  PROVE  /\ calls[c].pc = "lock" /\ UNCHANGED <<db, rows, nextId, mine, view, reader, blind, bare>> /\ Moved(c)
         /\ calls'[c].op = calls[c].op /\ calls'[c].keys = calls[c].keys /\ calls'[c].to = calls[c].to
         /\ calls'[c].limit = calls[c].limit /\ calls'[c].todo = calls[c].todo /\ Holds(calls[c], calls'[c])
         /\ calls'[c].pc = "open" /\ calls'[c].tx
         /\ IF Sqlite THEN holder = None /\ holder' = c /\ undo' = rows ELSE UNCHANGED <<holder, undo>>
<1>1. calls' = [calls EXCEPT ![c] = [calls[c] EXCEPT !.pc = "open", !.tx = TRUE, !.ready = TRUE]]
  BY DEF Begin, Base, TypeOK, Call
<1>2. PICK next : next = [calls[c] EXCEPT !.pc = "open", !.tx = TRUE, !.ready = TRUE]
  OBVIOUS
<1>3. calls[c] \in Call
  BY DEF Base, TypeOK
<1>4. next \in Call
  BY <1>2, <1>3 DEF Call
<1>5. /\ next.op = calls[c].op /\ next.keys = calls[c].keys /\ next.to = calls[c].to /\ next.limit = calls[c].limit
      /\ next.todo = calls[c].todo /\ Holds(calls[c], next) /\ next.pc = "open" /\ next.tx
  BY <1>2, <1>3 DEF Call, Holds
<1>6. UNCHANGED <<db, rows, nextId, mine, view, reader, blind, bare>>
  BY DEF Begin
<1>7. Moved(c) /\ calls'[c] = next
  BY <1>1, <1>2, <1>4, <1>6, CallAlone DEF Moved, Base
<1> QED
  BY <1>5, <1>6, <1>7 DEF Begin

LEMMA PassGateShape ==
  ASSUME Base, NEW c \in Calls, PassGate(c)
  PROVE  /\ Aside /\ UNCHANGED <<view, reader, bare>> /\ Moved(c)
         /\ Keeps(calls[c], calls'[c]) /\ Holds(calls[c], calls'[c]) /\ calls'[c].todo = calls[c].todo
<1>1. PICK next : next = [calls[c] EXCEPT !.ready = TRUE]
  OBVIOUS
<1>2. calls[c] \in Call
  BY DEF Base, TypeOK
<1>3. next \in Call /\ Keeps(calls[c], next) /\ Holds(calls[c], next) /\ next.todo = calls[c].todo
  BY <1>1, <1>2 DEF Call, Keeps, Holds
<1>4. Aside /\ UNCHANGED <<view, reader, bare>> /\ calls' = [calls EXCEPT ![c] = next]
  BY <1>1 DEF PassGate, Aside
<1>5. Moved(c) /\ calls'[c] = next
  BY <1>3, <1>4, CallAlone DEF Moved, Base, Aside
<1> QED
  BY <1>3, <1>4, <1>5

Missing(c, seen) == calls[c].keys \ KeysOf(seen)
LEMMA AfterwardsTodos ==
  ASSUME NEW c \in Calls, NEW seen
  PROVE  /\ Afterwards(c, seen) \in Todos /\ Afterwards(c, seen) # <<"look">>
         /\ Afterwards(c, seen) = Writing => calls[c].op = "updateOrCreate"
         /\ Afterwards(c, seen) \in Removes => calls[c].op = "set"
         /\ Afterwards(c, seen) \in Removes => Afterwards(c, seen) \in Dooming
         /\ Afterwards(c, seen) \in Inserts <=> /\ Missing(c, seen) # {}
                                                /\ ~(calls[c].op = "updateOrCreate" /\ seen # {})
         /\ calls[c].op = "set" => (Afterwards(c, seen) \in Removes <=> KeysOf(seen) \ calls[c].keys # {})
         /\ Afterwards(c, seen) \notin Telling
<1>2. CASE calls[c].op = "updateOrCreate" /\ seen # {}
  <2>1. Afterwards(c, seen) = Writing
    BY <1>2 DEF Afterwards, Writing
  <2> QED
    BY <1>2, <2>1 DEF Todos, Inserts, Removes, Removing, Dooming, Linking, Telling, Inserting, Writing
<1>3. CASE ~(calls[c].op = "updateOrCreate" /\ seen # {})
  <2>1. CASE calls[c].op = "set" /\ KeysOf(seen) \ calls[c].keys # {}
    <3>1. CASE Missing(c, seen) = {}
      <4>1. Afterwards(c, seen) = <<"doom", "remove", "told">>
        BY <1>3, <2>1, <3>1 DEF Afterwards, Missing
      <4> QED
        BY <1>3, <2>1, <3>1, <4>1 DEF Todos, Inserts, Removes, Removing, Dooming, Linking, Telling, Inserting, Writing
    <3>2. CASE Missing(c, seen) # {}
      <4>1. Afterwards(c, seen) = <<"doom", "remove", "told", "insert", "told">>
        BY <1>3, <2>1, <3>2 DEF Afterwards, Missing
      <4> QED
        BY <1>3, <2>1, <3>2, <4>1 DEF Todos, Inserts, Removes, Removing, Dooming, Linking, Telling, Inserting, Writing
    <3> QED
      BY <3>1, <3>2
  <2>2. CASE ~(calls[c].op = "set" /\ KeysOf(seen) \ calls[c].keys # {})
    <3>1. Afterwards(c, seen) = IF Missing(c, seen) = {} THEN <<>> ELSE <<"insert", "told">>
      BY <1>3, <2>2 DEF Afterwards, Missing
    <3> QED
      BY <1>3, <2>2, <3>1 DEF Todos, Inserts, Removes, Removing, Dooming, Linking, Telling, Inserting, Writing
  <2> QED
    BY <2>1, <2>2
<1> QED
  BY <1>2, <1>3
(* What a look saw: everything for set, else what it found. *)
Saw(c, found) == IF calls[c].op = "set" THEN Visible(c) ELSE found

LEMMA LookShape ==
  ASSUME Base, NEW c \in Calls, Look(c)
  PROVE  /\ calls[c].pc = "open" /\ calls[c].todo = <<"look">> /\ Aside /\ UNCHANGED <<view, reader>> /\ Moved(c)
         /\ bare' = bare \cup (IF calls[c].tx \/ calls[c].op \in {"add", "set"} THEN {} ELSE calls[c].keys)
         /\ Keeps(calls[c], calls'[c]) /\ calls'[c].doomed = calls[c].doomed /\ calls'[c].gone = calls[c].gone
         /\ calls'[c].since = {}
         /\ \E found \in SUBSET Matching(c, calls[c].keys) :
              /\ calls[c].op \in {"add", "set"} \/ Matching(c, calls[c].keys) = {} => found = Matching(c, calls[c].keys)
              /\ ~(calls[c].op \in {"add", "set"} \/ Matching(c, calls[c].keys) = {}) => found # {}
              /\ calls'[c].todo = Afterwards(c, Saw(c, found))
              /\ calls'[c].add = Missing(c, Saw(c, found))
              /\ calls[c].op = "set" => calls'[c].drop = KeysOf(Saw(c, found)) \ calls[c].keys
<1> DEFINE hits == Matching(c, calls[c].keys)
<1>1. PICK found : /\ found \in IF calls[c].op \in {"add", "set"} \/ hits = {} THEN {hits} ELSE {{r} : r \in hits}
                   /\ LookAt(c, found)
  BY DEF Look
<1>2. /\ found \in SUBSET hits /\ (calls[c].op \in {"add", "set"} \/ hits = {} => found = hits)
      /\ (~(calls[c].op \in {"add", "set"} \/ hits = {}) => found # {})
  BY <1>1
<1>3. hits \subseteq Row
  BY VisibleRows DEF Matching
<1> HIDE DEF hits
<1>4. PICK seen : seen = Saw(c, found)
  OBVIOUS
<1>5. seen \subseteq Row
  BY <1>2, <1>3, <1>4, VisibleRows DEF Saw
<1>6. PICK p : p = Past(c, Afterwards(c, seen))
  OBVIOUS
<1>7. /\ p \in Call /\ p.todo = Afterwards(c, seen) /\ Keeps(calls[c], p)
      /\ p.doomed = calls[c].doomed /\ p.gone = calls[c].gone
  BY <1>6, AfterwardsTodos, PastShape DEF Base, Keeps
<1>8. PICK drop : drop = IF calls[c].op = "set" THEN KeysOf(seen) \ calls[c].keys ELSE {}
  OBVIOUS
<1>9. drop \in SUBSET Keys /\ Missing(c, seen) \in SUBSET Keys /\ found \in SUBSET Row
  BY <1>2, <1>3, <1>5, <1>8 DEF Missing, KeysOf, Row, Base, TypeOK, Call
<1>10. PICK next : next = [p EXCEPT !.found = found, !.add = Missing(c, seen), !.drop = drop, !.since = {}]
  OBVIOUS
<1>11. /\ next \in Call /\ next.todo = p.todo /\ Keeps(p, next) /\ next.doomed = p.doomed /\ next.gone = p.gone
       /\ next.add = Missing(c, seen) /\ next.drop = drop /\ next.since = {}
  BY <1>7, <1>9, <1>10 DEF Call, Keeps
<1>12. calls' = [calls EXCEPT ![c] = next]
  BY <1>1, <1>4, <1>6, <1>8, <1>10 DEF LookAt, Saw, Missing
<1>13. /\ Aside /\ UNCHANGED <<view, reader>> /\ Stage(c) = "look"
       /\ bare' = bare \cup (IF calls[c].tx \/ calls[c].op \in {"add", "set"} THEN {} ELSE calls[c].keys)
  BY DEF Look, Aside
<1>14. Moved(c) /\ calls'[c] = next
  BY <1>11, <1>12, <1>13, CallAlone DEF Moved, Base, Aside
<1>15. calls[c].pc = "open" /\ calls[c].todo = <<"look">>
  BY <1>13, StageTodo
<1>16. Keeps(calls[c], next) /\ next.doomed = calls[c].doomed /\ next.gone = calls[c].gone
  BY <1>7, <1>11 DEF Keeps
<1>17. calls[c].op = "set" => next.drop = KeysOf(seen) \ calls[c].keys
  BY <1>8, <1>11
<1> QED
  BY <1>2, <1>4, <1>7, <1>11, <1>13, <1>14, <1>15, <1>16, <1>17 DEF hits

LEMMA DoomShape ==
  ASSUME Base, NEW c \in Calls, Doom(c)
  PROVE  /\ calls[c].pc = "open" /\ calls[c].todo \in Dooming /\ Aside /\ UNCHANGED <<view, reader, bare>> /\ Moved(c)
         /\ Keeps(calls[c], calls'[c]) /\ calls'[c].todo = Tail(calls[c].todo)
         /\ calls'[c].drop = calls[c].drop /\ calls'[c].add = calls[c].add /\ calls'[c].gone = calls[c].gone
         /\ calls'[c].doomed \in DoomedWithinLimit(c)
         /\ calls'[c].since = IF calls[c].op = "set" THEN calls[c].since ELSE {}
<1>1. PICK D \in DoomedWithinLimit(c) :
        calls' = [calls EXCEPT ![c] = [Past(c, Rest(c)) EXCEPT
                   !.doomed = D, !.since = IF calls[c].op = "set" THEN @ ELSE {}]]
  BY DEF Doom
<1>2. Aside /\ UNCHANGED <<view, reader, bare>> /\ Stage(c) = "doom"
  BY DEF Doom, Aside
<1>3. calls[c].pc = "open" /\ calls[c].todo \in Dooming
  BY <1>2, StageTodo
<1>4. Rest(c) = Tail(calls[c].todo) /\ Rest(c) \in Todos
  BY <1>3, TodoTails DEF Rest, Todos
<1>5. PICK p : p = Past(c, Rest(c))
  OBVIOUS
<1>6. /\ p \in Call /\ p.todo = Tail(calls[c].todo) /\ Keeps(calls[c], p) /\ Holds(calls[c], p)
  BY <1>4, <1>5, PastShape DEF Base, Keeps, Holds
<1>7. PICK since : since = IF calls[c].op = "set" THEN calls[c].since ELSE {}
  OBVIOUS
<1>8. D \in SUBSET Row /\ since \in SUBSET Row
  BY <1>7, VisibleRows DEF DoomedWithinLimit, Matching, Base, TypeOK, Call
<1>9. PICK next : next = [p EXCEPT !.doomed = D, !.since = since]
  OBVIOUS
<1>10. /\ next \in Call /\ next.todo = p.todo /\ Keeps(p, next) /\ next.drop = p.drop /\ next.add = p.add
       /\ next.gone = p.gone /\ next.doomed = D /\ next.since = since
  BY <1>6, <1>8, <1>9 DEF Call, Keeps
<1>11. calls' = [calls EXCEPT ![c] = next]
  <2>1. p.since = calls[c].since
    BY <1>6 DEF Holds
  <2> QED
    BY <1>1, <1>5, <1>6, <1>7, <1>9, <2>1
<1>12. Moved(c) /\ calls'[c] = next
  BY <1>2, <1>10, <1>11, CallAlone DEF Moved, Base, Aside
<1> QED
  BY <1>2, <1>3, <1>6, <1>7, <1>10, <1>12 DEF Keeps, Holds

(* Whether a statement runs at once or inside a transaction. *)
Wrote(c, out, ins) ==
  /\ Moved(c) /\ rows' \subseteq Row /\ UNCHANGED <<db, holder, undo>>
  /\ mine' \in [Calls -> [out: SUBSET (1..MaxId), ins: SUBSET Row]]
  /\ IdsOnce' /\ Seen'[c] = (Seen[c] \ out) \cup ins
  /\ IF Sqlite \/ ~calls[c].tx THEN rows' = (rows \ out) \cup ins /\ UNCHANGED mine /\ RacedBy(rows')
     ELSE UNCHANGED <<rows, reader>>

LEMMA WriteShape ==
  ASSUME Base, NEW c \in Calls, NEW out, NEW ins, NEW next \in Call, next.tx = calls[c].tx, Fits(c, out, ins),
         Write(c, out, ins, next), UNCHANGED <<db, holder, undo>>
  PROVE  Wrote(c, out, ins) /\ calls'[c] = next
<1>1. CASE Sqlite \/ ~calls[c].tx
  <2>1. mine \in [Calls -> [out: SUBSET (1..MaxId), ins: SUBSET Row]]
    BY DEF Base, TypeOK
  <2> QED
    BY <1>1, <2>1, WriteAtOnce DEF Wrote, Moved
<1>2. CASE ~(Sqlite \/ ~calls[c].tx)
  <2>1. rows \subseteq Row
    BY DEF Base, TypeOK
  <2>2. UNCHANGED <<rows, reader>>
    BY <1>2, WriteApart
  <2> QED
    BY <1>2, <2>1, <2>2, WriteApart DEF Wrote, Moved
<1> QED
  BY <1>1, <1>2

LEMMA MatchingRows == ASSUME Base, NEW c \in Calls, NEW ks
                      PROVE  Matching(c, ks) \subseteq Visible(c) /\ Matching(c, ks) \subseteq Row
  BY VisibleRows DEF Matching

LEMMA NextIdType == Base => nextId \in 1..(MaxId + 1) /\ nextId <= nextId /\ MaxId \in Nat
  BY DataLayerConstants DEF Base, TypeOK

LEMMA RemoveShape ==
  ASSUME Base, NEW c \in Calls, Remove(c)
  PROVE  /\ calls[c].pc = "open" /\ calls[c].todo \in Removing /\ UNCHANGED <<db, nextId, view, blind, bare>>
         /\ Wrote(c, Matching(c, calls[c].drop), {}) /\ Keeps(calls[c], calls'[c])
         /\ calls'[c].todo = IF Matching(c, calls[c].drop) = {} THEN Tail(Tail(calls[c].todo)) ELSE Tail(calls[c].todo)
         /\ calls'[c].drop = calls[c].drop /\ calls'[c].add = calls[c].add /\ calls'[c].doomed = calls[c].doomed
         /\ calls'[c].since = calls[c].since /\ calls'[c].gone = Matching(c, calls[c].drop)
<1>1. PICK hits : hits = Matching(c, calls[c].drop)
  OBVIOUS
<1>2. UNCHANGED <<db, nextId, holder, undo, view, blind, bare>> /\ Stage(c) = "remove"
  BY DEF Remove
<1>3. calls[c].pc = "open" /\ calls[c].todo \in Removing
  BY <1>2, StageTodo
<1>4. PICK later : later = IF hits = {} THEN Tail(Tail(calls[c].todo)) ELSE Tail(calls[c].todo)
  OBVIOUS
<1>5. later \in Todos
  BY <1>3, <1>4, TodoTails DEF Todos
<1>6. PICK p : p = Past(c, later)
  OBVIOUS
<1>7. p \in Call /\ p.todo = later /\ Keeps(calls[c], p) /\ Holds(calls[c], p)
  BY <1>5, <1>6, PastShape DEF Base, Keeps, Holds
<1>8. hits \subseteq Visible(c) /\ hits \in SUBSET Row
  BY <1>1, MatchingRows
<1>9. PICK next : next = [p EXCEPT !.gone = hits]
  OBVIOUS
<1>10. /\ next \in Call /\ next.todo = later /\ Keeps(p, next) /\ next.drop = p.drop /\ next.add = p.add
       /\ next.doomed = p.doomed /\ next.since = p.since /\ next.gone = hits
  BY <1>7, <1>8, <1>9 DEF Call, Keeps
<1>11. Unlocked(c, hits) /\ Write(c, hits, {}, next)
  BY <1>1, <1>4, <1>6, <1>9 DEF Remove, Rest
<1>12. Fits(c, hits, {})
  BY <1>2, <1>8, <1>11, NextIdType DEF Fits, OneEach
<1>13. next.tx = calls[c].tx
  BY <1>7, <1>10 DEF Keeps
<1>14. Wrote(c, hits, {}) /\ calls'[c] = next
  BY <1>2, <1>10, <1>11, <1>12, <1>13, WriteShape
<1> QED
  BY <1>1, <1>2, <1>3, <1>4, <1>7, <1>10, <1>14 DEF Keeps, Holds

LEMMA InsertShape ==
  ASSUME Base, NEW c \in Calls, Insert(c)
  PROVE  /\ calls[c].pc = "open" /\ calls[c].todo = Inserting /\ UNCHANGED <<db, view, bare>>
         /\ blind' = blind \cup (IF calls[c].op = "create" THEN calls[c].add ELSE {}) /\ nextId' \in 1..(MaxId + 1)
         /\ Keeps(calls[c], calls'[c]) /\ Holds(calls[c], calls'[c]) /\ calls'[c].todo = <<"told">>
         /\ \E R : /\ KeysOf(R) = calls[c].add /\ \A r, s \in R : r.key = s.key => r = s
                   /\ Wrote(c, {}, R)
<1>1. /\ UNCHANGED <<db, holder, undo, view, bare>> /\ Stage(c) = "insert"
      /\ blind' = blind \cup (IF calls[c].op = "create" THEN calls[c].add ELSE {})
  BY DEF Insert
<1>2. calls[c].pc = "open" /\ calls[c].todo = Inserting
  BY <1>1, StageTodo
<1>3. Rest(c) = <<"told">> /\ <<"told">> \in Todos
  BY <1>2, TodoTails DEF Rest, Todos, Telling
<1>4. PICK next : next = Past(c, <<"told">>)
  OBVIOUS
<1>5. next \in Call /\ next.todo = <<"told">> /\ Keeps(calls[c], next) /\ Holds(calls[c], next) /\ next.tx = calls[c].tx
  BY <1>3, <1>4, PastShape DEF Base, Keeps, Holds
<1>6. PICK ks \in SUBSET Keys : ks = calls[c].add
  BY DEF Base, TypeOK, Call
<1>7. PICK n \in Nat : n = Cardinality(ks)
  <2>1. IsFiniteSet(ks)
    BY DataLayerConstants, FS_Subset
  <2> QED
    BY <2>1, FS_CardinalityType
<1>8. nextId \in 1..(MaxId + 1) /\ MaxId \in Nat
  BY NextIdType
<1>9. nextId + n - 1 <= MaxId /\ nextId' = nextId + n
  BY <1>6, <1>7 DEF Insert
<1>10. PICK R \in Created(ks) : Write(c, {}, R, next)
  BY <1>3, <1>4, <1>6 DEF Insert
<1>11. PICK number \in [ks -> nextId..(nextId + n - 1)] :
         /\ \A k, l \in ks : number[k] = number[l] => k = l
         /\ R = {[id |-> number[k], key |-> k] : k \in ks}
  BY <1>7, <1>10 DEF Created
<1>12. \A k \in ks : number[k] \in nextId..(nextId + n - 1)
  BY <1>11
<1>13. \A k \in ks : number[k] \in 1..MaxId /\ nextId <= number[k] /\ number[k] < nextId'
  BY <1>8, <1>9, <1>12
<1>14. R \subseteq Row
  BY <1>11, <1>13 DEF Row
<1>15. OneEach(R) /\ \A r, s \in R : r.key = s.key => r = s
  BY <1>11 DEF OneEach
<1>16. \A r \in R : nextId <= r.id /\ r.id < nextId'
  BY <1>11, <1>13
<1>17. nextId' \in 1..(MaxId + 1) /\ nextId <= nextId'
  BY <1>8, <1>9
<1>18. Ids({}) = {}
  BY DEF Ids
<1>19. Fits(c, {}, R)
  BY <1>14, <1>15, <1>16, <1>17, <1>18 DEF Fits, Unlocked
<1>20. Wrote(c, {}, R) /\ calls'[c] = next
  BY <1>1, <1>5, <1>10, <1>19, WriteShape
<1>21. KeysOf(R) = ks
  <2>1. ASSUME NEW k \in ks PROVE k \in KeysOf(R)
    <3>1. [id |-> number[k], key |-> k] \in R
      BY <1>11
    <3>2. [id |-> number[k], key |-> k].key = k
      OBVIOUS
    <3> QED
      BY <3>1, <3>2 DEF KeysOf
  <2>2. \A r \in R : r.key \in ks
    BY <1>11
  <2> QED
    BY <2>1, <2>2 DEF KeysOf
<1> QED
  BY <1>1, <1>2, <1>5, <1>6, <1>15, <1>17, <1>20, <1>21

LEMMA WriteRowsShape ==
  ASSUME Base, NEW c \in Calls, WriteRows(c)
  PROVE  /\ calls[c].pc = "open" /\ calls[c].todo = Writing /\ UNCHANGED <<db, nextId, view, bare>>
         /\ blind' = blind \cup {calls[c].to} /\ calls[c].to \in Keys
         /\ Keeps(calls[c], calls'[c]) /\ Holds(calls[c], calls'[c]) /\ calls'[c].todo = <<"told">>
         /\ \E out, ins : Wrote(c, out, ins) /\ KeysOf(ins) \subseteq {calls[c].to}
<1>1. /\ UNCHANGED <<db, nextId, holder, undo, view, bare>> /\ Stage(c) = "write"
      /\ blind' = blind \cup {calls[c].to}
  BY DEF WriteRows
<1>2. calls[c].pc = "open" /\ calls[c].todo = Writing
  BY <1>1, StageTodo
<1>3. Rest(c) = <<"told">> /\ <<"told">> \in Todos
  BY <1>2, TodoTails DEF Rest, Todos, Telling
<1>4. PICK next : next = Past(c, <<"told">>)
  OBVIOUS
<1>5. next \in Call /\ next.todo = <<"told">> /\ Keeps(calls[c], next) /\ Holds(calls[c], next) /\ next.tx = calls[c].tx
  BY <1>3, <1>4, PastShape DEF Base, Keeps, Holds
<1>6. PICK hits : hits = IF calls[c].op = "update" THEN Matching(c, calls[c].keys)
                         ELSE {r \in Visible(c) : r.id \in Ids(calls[c].found)}
  OBVIOUS
<1>7. PICK to \in Keys : to = calls[c].to
  BY <1>2 DEF Base, Shapes, ShapeOK
<1>8. PICK ins : ins = {[r EXCEPT !.key = to] : r \in hits}
  OBVIOUS
<1>9. Unlocked(c, hits) /\ Write(c, hits, ins, next)
  BY <1>3, <1>4, <1>6, <1>7, <1>8 DEF WriteRows
<1>10. hits \subseteq Visible(c) /\ hits \subseteq Row /\ OneEach(hits)
  BY <1>6, MatchingRows, VisibleRows DEF OneEach
<1>11. \A r \in hits : [r EXCEPT !.key = to] \in Row /\ [r EXCEPT !.key = to].id = r.id
  BY <1>10 DEF Row
<1>12. ins \subseteq Row /\ OneEach(ins) /\ \A r \in ins : r.id \in Ids(hits)
  <2>1. \A s \in ins : \E r \in hits : s = [r EXCEPT !.key = to]
    BY <1>8
  <2>2. \A s \in ins : s \in Row /\ s.id \in Ids(hits)
    BY <1>11, <2>1, IdsIn
  <2>3. ASSUME NEW s \in ins, NEW t \in ins, s.id = t.id PROVE s = t
    <3>1. PICK r \in hits : s = [r EXCEPT !.key = to]
      BY <2>1
    <3>2. PICK q \in hits : t = [q EXCEPT !.key = to]
      BY <2>1
    <3>3. r.id = q.id
      BY <1>11, <2>3, <3>1, <3>2
    <3> QED
      BY <1>10, <3>1, <3>2, <3>3 DEF OneEach
  <2> QED
    BY <2>2, <2>3 DEF OneEach
<1>13. Fits(c, hits, ins)
  BY <1>1, <1>9, <1>10, <1>12, NextIdType DEF Fits
<1>14. Wrote(c, hits, ins) /\ calls'[c] = next
  BY <1>1, <1>5, <1>9, <1>13, WriteShape
<1>15. KeysOf(ins) \subseteq {to}
  <2>1. \A r \in hits : [r EXCEPT !.key = to].key = to
    BY <1>10 DEF Row
  <2> QED
    BY <1>8, <2>1 DEF KeysOf
<1> QED
  BY <1>1, <1>2, <1>5, <1>7, <1>14, <1>15

LEMMA RunHooksShape ==
  ASSUME Base, NEW c \in Calls, RunHooks(c)
  PROVE  /\ calls[c].pc = "open" /\ calls[c].todo \in Telling /\ Aside /\ UNCHANGED <<reader, bare>> /\ view' = EmptyView
         /\ Moved(c) /\ Keeps(calls[c], calls'[c]) /\ Holds(calls[c], calls'[c]) /\ calls'[c].todo = Tail(calls[c].todo)
<1>1. Aside /\ UNCHANGED <<reader, bare>> /\ view' = EmptyView /\ Stage(c) = "told"
  BY DEF RunHooks, Aside
<1>2. calls[c].pc = "open" /\ calls[c].todo \in Telling
  BY <1>1, StageTodo
<1>3. Rest(c) = Tail(calls[c].todo) /\ Rest(c) \in Todos
  BY <1>2, TodoTails DEF Rest, Todos
<1>4. PICK next : next = Past(c, Rest(c))
  OBVIOUS
<1>5. next \in Call /\ next.todo = Tail(calls[c].todo) /\ Keeps(calls[c], next) /\ Holds(calls[c], next)
  BY <1>3, <1>4, PastShape DEF Base, Keeps, Holds
<1>6. calls' = [calls EXCEPT ![c] = next]
  BY <1>4 DEF RunHooks
<1>7. Moved(c) /\ calls'[c] = next
  BY <1>1, <1>5, <1>6, CallAlone DEF Moved, Base, Aside
<1> QED
  BY <1>1, <1>2, <1>5, <1>7
(* A transaction that has ended, one way or the other. *)
EndsTx(c, final) ==
  /\ Moved(c) /\ UNCHANGED <<db, nextId, view, reader, blind, bare>>
  /\ rows' = final /\ final \subseteq Row /\ calls'[c].pc = "done" /\ ~calls'[c].tx
  /\ calls'[c].todo = calls[c].todo /\ Holds(calls[c], calls'[c]) /\ calls'[c].keys = calls[c].keys
  /\ calls'[c].limit = calls[c].limit
  /\ mine' = [mine EXCEPT ![c] = NothingWritten]
  /\ holder' = IF holder = c THEN None ELSE holder
  /\ undo' = IF holder = c THEN {} ELSE undo
  /\ IdsOnce'

LEMMA EndIds ==
  ASSUME Base, NEW c \in Calls, OneEach(rows'), \A r \in rows' : r.id < nextId /\ r.id \in Nat,
         Sqlite \/ Ids(rows') \subseteq Ids(rows) \cup Own(mine[c]),
         undo' \in {{}, undo}, UNCHANGED nextId, mine' = [mine EXCEPT ![c] = NothingWritten]
  PROVE  IdsOnce'
<1>1. /\ mine \in [Calls -> [out: SUBSET (1..MaxId), ins: SUBSET Row]] /\ OneEach(undo)
      /\ \A r \in undo : r.id < nextId
  BY DEF Base, TypeOK, IdsOnce
<1>2. mine'[c] = NothingWritten /\ \A d \in Calls \ {c} : mine'[d] = mine[d]
  BY <1>1
<1>3. NothingWritten.out = {} /\ NothingWritten.ins = {} /\ Own(NothingWritten) = {} /\ OneEach({})
  BY DEF NothingWritten, Own, Ids, OneEach
<1>4. OneEach(undo') /\ \A r \in undo' : r.id < nextId
  BY <1>1, <1>3
<1>5. ASSUME NEW d \in Calls
      PROVE  /\ OneEach(mine'[d].ins)
             /\ \A i \in Own(mine'[d]) : i < nextId
             /\ \A r \in mine'[d].ins : r.id \in Ids(rows') => r.id \in mine'[d].out
             /\ \A e \in Calls \ {d} : Own(mine'[d]) \cap Own(mine'[e]) = {}
  <2>1. CASE d = c
    BY <1>2, <1>3, <2>1
  <2>2. CASE d # c
    <3>1. mine'[d] = mine[d] /\ OneEach(mine[d].ins) /\ \A i \in Own(mine[d]) : i < nextId
      BY <1>2, <2>2 DEF Base, IdsOnce
    <3>2. \A e \in Calls \ {d} : Own(mine[d]) \cap Own(mine'[e]) = {}
      <4> SUFFICES ASSUME NEW e \in Calls \ {d} PROVE Own(mine[d]) \cap Own(mine'[e]) = {}
        OBVIOUS
      <4>1. CASE e = c
        BY <1>2, <1>3, <4>1
      <4>2. CASE e # c
        BY <1>2, <4>2 DEF Base, IdsOnce
      <4> QED
        BY <4>1, <4>2
    <3>3. ASSUME NEW r \in mine[d].ins, r.id \in Ids(rows') PROVE r.id \in mine[d].out
      <4>1. CASE Sqlite
        BY <1>3, <4>1 DEF Base, Locked
      <4>2. CASE ~Sqlite
        <5>1. r.id \in Own(mine[d])
          BY IdsIn DEF Own
        <5>2. r.id \notin Own(mine[c])
          BY <2>2, <5>1 DEF Base, IdsOnce
        <5> QED
          BY <3>3, <4>2, <5>2 DEF Base, IdsOnce
      <4> QED
        BY <4>1, <4>2
    <3> QED
      BY <3>1, <3>2, <3>3
  <2> QED
    BY <2>1, <2>2
<1> QED
  BY <1>4, <1>5 DEF IdsOnce

LEMMA FinishShape ==
  ASSUME Base, NEW c \in Calls, Finish(c)
  PROVE  /\ calls[c].pc = "open" /\ calls[c].todo = <<>> /\ calls'[c].op = calls[c].op
         /\ EndsTx(c, Visible(c))
<1>1. PICK next : next = [calls[c] EXCEPT !.pc = "done", !.tx = FALSE]
  OBVIOUS
<1>2. calls[c] \in Call
  BY DEF Base, TypeOK
<1>3. /\ next \in Call /\ next.pc = "done" /\ ~next.tx /\ next.todo = calls[c].todo /\ Holds(calls[c], next)
      /\ next.keys = calls[c].keys /\ next.op = calls[c].op /\ next.limit = calls[c].limit
  BY <1>1, <1>2 DEF Call, Holds
<1>4. /\ calls[c].pc = "open" /\ calls[c].todo = <<>> /\ UNCHANGED <<db, nextId, view, reader, blind, bare>>
      /\ mine' = [mine EXCEPT ![c] = NothingWritten]
      /\ holder' = IF holder = c THEN None ELSE holder
      /\ undo' = IF holder = c THEN {} ELSE undo
  BY DEF Finish
<1>5. rows' = Visible(c) /\ calls' = Underneath(c, next, rows')
  <2>1. Sqlite => Visible(c) = rows
    BY VisibleRows
  <2> QED
    BY <1>1, <2>1 DEF Finish
<1>6. Visible(c) \subseteq Row /\ OneEach(Visible(c)) /\ \A r \in Visible(c) : r.id < nextId
  BY VisibleRows
<1>7. Moved(c) /\ calls'[c] = next
  <2>1. \A d \in Calls \ {c} : mine'[d] = mine[d]
    BY <1>4 DEF Base, TypeOK
  <2> QED
    BY <1>3, <1>5, <1>6, <2>1, CallUnder DEF Moved, Base
<1>8. Ids(rows') \subseteq Ids(rows) \cup Own(mine[c])
  <2>1. \A r \in Visible(c) : r \in rows \/ r \in mine[c].ins
    BY DEF Visible
  <2> QED
    BY <1>5, <2>1 DEF Ids, Own
<1>9. IdsOnce'
  <2>1. undo' \in {{}, undo}
    BY <1>4
  <2>2. OneEach(rows') /\ \A r \in rows' : r.id < nextId /\ r.id \in Nat
    BY <1>5, <1>6 DEF Row
  <2> QED
    BY <1>4, <1>8, <2>1, <2>2, EndIds
<1> QED
  BY <1>3, <1>4, <1>5, <1>6, <1>7, <1>9 DEF EndsTx

LEMMA ThrowShape ==
  ASSUME Base, NEW c \in Calls, Throw(c)
  PROVE  /\ calls[c].pc = "open" /\ calls[c].tx /\ calls'[c].op = None
         /\ EndsTx(c, IF Sqlite THEN undo ELSE rows)
<1>1. PICK next : next = [calls[c] EXCEPT !.pc = "done", !.tx = FALSE, !.op = None]
  OBVIOUS
<1>2. calls[c] \in Call
  BY DEF Base, TypeOK
<1>3. /\ next \in Call /\ next.pc = "done" /\ ~next.tx /\ next.todo = calls[c].todo /\ Holds(calls[c], next)
      /\ next.keys = calls[c].keys /\ next.op = None /\ next.limit = calls[c].limit
  BY <1>1, <1>2 DEF Call, Holds
<1>4. /\ calls[c].pc = "open" /\ calls[c].tx /\ UNCHANGED <<db, nextId, view, reader, blind, bare>>
      /\ mine' = [mine EXCEPT ![c] = NothingWritten]
      /\ holder' = IF holder = c THEN None ELSE holder
      /\ undo' = IF holder = c THEN {} ELSE undo
  BY DEF Throw
<1>5. PICK final : final = IF Sqlite THEN undo ELSE rows
  OBVIOUS
<1>6. rows' = final /\ calls' = Underneath(c, next, rows')
  BY <1>1, <1>5 DEF Throw
<1>7. final \subseteq Row /\ OneEach(final) /\ \A r \in final : r.id < nextId /\ r.id \in Nat
  BY <1>5 DEF Base, TypeOK, IdsOnce, Row
<1>8. Moved(c) /\ calls'[c] = next
  <2>1. \A d \in Calls \ {c} : mine'[d] = mine[d]
    BY <1>4 DEF Base, TypeOK
  <2> QED
    BY <1>3, <1>6, <1>7, <2>1, CallUnder DEF Moved, Base
<1>9. IdsOnce'
  <2>1. undo' \in {{}, undo}
    BY <1>4
  <2>2. Sqlite \/ Ids(rows') \subseteq Ids(rows) \cup Own(mine[c])
    BY <1>5, <1>6
  <2> QED
    BY <1>4, <1>6, <1>7, <2>1, <2>2, EndIds
<1> QED
  BY <1>3, <1>4, <1>5, <1>6, <1>7, <1>8, <1>9 DEF EndsTx

LEMMA ThrowOutsideShape ==
  ASSUME Base, NEW c \in Calls, ThrowOutside(c)
  PROVE  /\ calls[c].pc = "open" /\ ~calls[c].tx /\ Aside /\ UNCHANGED <<reader, bare>> /\ Moved(c)
         /\ calls'[c].op = None /\ calls'[c].pc = "done" /\ calls'[c].tx = calls[c].tx
         /\ calls'[c].todo = calls[c].todo /\ Holds(calls[c], calls'[c]) /\ calls'[c].keys = calls[c].keys
         /\ calls'[c].limit = calls[c].limit
         /\ view' \in [rows: SUBSET Row, kept: BOOLEAN, raced: BOOLEAN, missed: BOOLEAN]
         /\ view'.rows = view.rows /\ view'.kept = view.kept /\ view'.raced = view.raced
         /\ view'.missed <=> view.missed \/ Stage(c) = "told"
<1>1. PICK next : next = [calls[c] EXCEPT !.pc = "done", !.op = None]
  OBVIOUS
<1>2. calls[c] \in Call
  BY DEF Base, TypeOK
<1>3. /\ next \in Call /\ next.pc = "done" /\ next.op = None /\ next.tx = calls[c].tx /\ next.todo = calls[c].todo
      /\ Holds(calls[c], next) /\ next.keys = calls[c].keys /\ next.limit = calls[c].limit
  BY <1>1, <1>2 DEF Call, Holds
<1>4. /\ Aside /\ UNCHANGED <<reader, bare>> /\ calls[c].pc = "open" /\ ~calls[c].tx
      /\ calls' = [calls EXCEPT ![c] = next]
  BY <1>1, <1>2 DEF ThrowOutside, Aside, Base, TypeOK
<1>5. Moved(c) /\ calls'[c] = next
  BY <1>3, <1>4, CallAlone DEF Moved, Base, Aside
<1>6. view \in [rows: SUBSET Row, kept: BOOLEAN, raced: BOOLEAN, missed: BOOLEAN]
  BY DEF Base, TypeOK
<1>7. PICK b \in BOOLEAN : b <=> (view.missed \/ Stage(c) = "told")
  OBVIOUS
<1>8. view' = [view EXCEPT !.missed = b]
  <2>1. (view.missed \/ Stage(c) = "told") = b
    BY <1>6, <1>7
  <2> QED
    BY <2>1 DEF ThrowOutside
<1> QED
  BY <1>3, <1>4, <1>5, <1>6, <1>7, <1>8

-----------------------------------------------------------------------------
(* The calls, locks and ids stay in order. *)

LEMMA ShapesKept ==
  ASSUME Base, NEW c \in Calls, Moved(c), ShapeOK(calls'[c])
  PROVE  Shapes'
<1>1. ASSUME NEW d \in Calls \ {c} PROVE ShapeOK(calls'[d])
  <2>1. ShapeOK(calls[d])
    BY DEF Base, Shapes
  <2>2. /\ calls'[d].op = calls[d].op /\ calls'[d].pc = calls[d].pc /\ calls'[d].todo = calls[d].todo
        /\ calls'[d].tx = calls[d].tx /\ calls'[d].keys = calls[d].keys /\ calls'[d].to = calls[d].to
    BY DEF Moved, Besides
  <2> QED
    BY <2>1, <2>2 DEF ShapeOK
<1>2. \A d \in Calls : ShapeOK(calls'[d])
  BY <1>1
<1> QED
  BY <1>2 DEF Shapes

LEMMA LocksKept ==
  ASSUME Base, NEW c \in Calls, Moved(c), UNCHANGED <<db, holder>>, calls'[c].tx = calls[c].tx,
         Sqlite \/ ~calls[c].tx => mine'[c] = mine[c]
  PROVE  Locked'
<1>1. \A d \in Calls : calls'[d].tx = calls[d].tx /\ (Sqlite \/ ~calls[d].tx => mine'[d] = mine[d])
  BY DEF Moved, Besides
<1> QED
  BY <1>1 DEF Base, Locked, Sqlite

LEMMA AsideIds == ASSUME Base, UNCHANGED <<rows, nextId, undo, mine>> PROVE IdsOnce'
  BY DEF Base, IdsOnce

LEMMA BaseInit == Init => Base
<1> SUFFICES ASSUME Init PROVE Base
  OBVIOUS
<1>1. MaxId \in Nat \ {0} /\ db \in Databases /\ nextId = 2
  BY DataLayerConstants DEF Init
<1>2. rows \subseteq Row /\ OneEach(rows) /\ \A r \in rows : r.id < nextId
  <2>1. \A k \in Keys : [id |-> 1, key |-> k] \in Row
    BY <1>1 DEF Row
  <2> QED
    BY <1>1, <2>1 DEF Init, OneEach
<1>3. NothingWritten \in [out: SUBSET (1..MaxId), ins: SUBSET Row] /\ Own(NothingWritten) = {} /\ NothingWritten.ins = {}
  BY DEF NothingWritten, Own, Ids
<1>4. TypeOK
  <2>1. view \in [rows: SUBSET Row, kept: BOOLEAN, raced: BOOLEAN, missed: BOOLEAN]
    BY DEF Init, EmptyView
  <2>2. reader \in [pc: {"idle", "ready", "read"}, rows: SUBSET Row, raced: BOOLEAN]
    BY DEF Init, IdleReader
  <2>3. mine \in [Calls -> [out: SUBSET (1..MaxId), ins: SUBSET Row]] /\ calls \in [Calls -> Call]
    BY <1>3, NotCalledType DEF Init
  <2>4. nextId \in 1..(MaxId + 1)
    BY <1>1
  <2>5. holder \in Calls \cup {None} /\ undo \subseteq Row /\ blind \subseteq Keys /\ bare \subseteq Keys
    BY DEF Init
  <2> QED
    BY <1>1, <1>2, <2>1, <2>2, <2>3, <2>4, <2>5 DEF TypeOK
<1>5. Shapes
  <2>1. ShapeOK(NotCalled)
    BY TodoKinds, DataLayerConstants DEF ShapeOK, NotCalled, Todos, Operations
  <2> QED
    BY <2>1 DEF Init, Shapes
<1>6. Locked
  BY DataLayerConstants DEF Init, Locked, NotCalled
<1>7. IdsOnce
  BY <1>2, <1>3 DEF Init, IdsOnce, OneEach
<1> QED
  BY <1>4, <1>5, <1>6, <1>7 DEF Base

ReaderTyped == /\ view \in [rows: SUBSET Row, kept: BOOLEAN, raced: BOOLEAN, missed: BOOLEAN]
               /\ reader \in [pc: {"idle", "ready", "read"}, rows: SUBSET Row, raced: BOOLEAN]
               /\ blind \subseteq Keys /\ bare \subseteq Keys

LEMMA AsideKept ==
  ASSUME Base, NEW c \in Calls, Aside, Moved(c), ShapeOK(calls'[c]), calls'[c].tx = calls[c].tx, ReaderTyped'
  PROVE  Base'
<1>1. Shapes' /\ Locked' /\ IdsOnce'
  BY ShapesKept, LocksKept, AsideIds DEF Aside
<1>2. TypeOK'
  BY DEF Base, TypeOK, Aside, Moved, ReaderTyped
<1> QED
  BY <1>1, <1>2 DEF Base

LEMMA RacedType ==
  ASSUME Base, RacedBy(rows')
  PROVE  /\ reader' \in [pc: {"idle", "ready", "read"}, rows: SUBSET Row, raced: BOOLEAN]
         /\ reader'.pc = reader.pc /\ reader'.rows = reader.rows
         /\ reader'.raced <=> reader.raced \/ (rows # rows' /\ reader.pc # "idle")
<1>1. reader \in [pc: {"idle", "ready", "read"}, rows: SUBSET Row, raced: BOOLEAN]
  BY DEF Base, TypeOK
<1>2. PICK b \in BOOLEAN : b <=> (reader.raced \/ (rows # rows' /\ reader.pc # "idle"))
  OBVIOUS
<1>3. reader' = [reader EXCEPT !.raced = b]
  <2>1. (reader.raced \/ (rows # rows' /\ reader.pc # "idle")) = b
    BY <1>1, <1>2
  <2> QED
    BY <2>1 DEF RacedBy
<1> QED
  BY <1>1, <1>2, <1>3

LEMMA WroteKept ==
  ASSUME Base, NEW c \in Calls, NEW out, NEW ins, Wrote(c, out, ins), ShapeOK(calls'[c]),
         calls'[c].tx = calls[c].tx, nextId' \in 1..(MaxId + 1), UNCHANGED <<view, bare>>, blind' \subseteq Keys
  PROVE  Base'
<1>1. Shapes' /\ Locked' /\ IdsOnce'
  <2>1. Moved(c) /\ UNCHANGED <<db, holder>> /\ IdsOnce' /\ (Sqlite \/ ~calls[c].tx => mine'[c] = mine[c])
    BY DEF Wrote
  <2> QED
    BY <2>1, ShapesKept, LocksKept
<1>2. reader' \in [pc: {"idle", "ready", "read"}, rows: SUBSET Row, raced: BOOLEAN]
  <2>1. CASE Sqlite \/ ~calls[c].tx
    BY <2>1, RacedType DEF Wrote
  <2>2. CASE ~(Sqlite \/ ~calls[c].tx)
    BY <2>2 DEF Wrote, Base, TypeOK
  <2> QED
    BY <2>1, <2>2
<1>3. TypeOK'
  BY <1>2 DEF Base, TypeOK, Wrote, Moved
<1> QED
  BY <1>1, <1>3 DEF Base

LEMMA EndsKept ==
  ASSUME Base, NEW c \in Calls, NEW final, EndsTx(c, final)
  PROVE  Base'
<1>1. Moved(c) /\ calls'[c].pc = "done" /\ ~calls'[c].tx /\ calls'[c].todo = calls[c].todo
  BY DEF EndsTx
<1>2. Shapes'
  <2>1. ShapeOK(calls'[c])
    BY <1>1 DEF Base, Shapes, ShapeOK
  <2> QED
    BY <1>1, <2>1, ShapesKept
<1>3. mine \in [Calls -> [out: SUBSET (1..MaxId), ins: SUBSET Row]] /\ None \notin Calls
  BY DataLayerConstants DEF Base, TypeOK
<1>4. mine' \in [Calls -> [out: SUBSET (1..MaxId), ins: SUBSET Row]] /\ mine'[c] = NothingWritten
  <2>1. NothingWritten \in [out: SUBSET (1..MaxId), ins: SUBSET Row]
    BY DEF NothingWritten
  <2> QED
    BY <1>3, <2>1 DEF EndsTx
<1>5. Locked'
  <2>1. \A d \in Calls \ {c} : mine'[d] = mine[d] /\ calls'[d].tx = calls[d].tx
    BY <1>1 DEF Moved, Besides
  <2>2. db' = db /\ holder' = IF holder = c THEN None ELSE holder
    BY DEF EndsTx
  <2>3. ASSUME Sqlite, NEW d \in Calls PROVE calls'[d].tx <=> holder' = d
    BY <1>1, <1>3, <2>1, <2>2, <2>3 DEF Base, Locked
  <2>4. ASSUME NEW d \in Calls, Sqlite \/ ~calls'[d].tx PROVE mine'[d] = NothingWritten
    BY <1>4, <2>1, <2>4 DEF Base, Locked
  <2> QED
    BY <2>2, <2>3, <2>4 DEF Locked, Sqlite
<1>6. TypeOK'
  <2>1. holder' \in Calls \cup {None} /\ undo' \subseteq Row
    BY DEF EndsTx, Base, TypeOK
  <2> QED
    BY <1>1, <1>4, <2>1 DEF Base, TypeOK, EndsTx, Moved
<1> QED
  BY <1>2, <1>5, <1>6 DEF Base, EndsTx

LEMMA BaseNext == Base /\ [Next]_vars => Base'
<1> SUFFICES ASSUME Base, [Next]_vars PROVE Base'
  OBVIOUS
<1>0. ReaderTyped /\ None \notin Operations
  BY DataLayerConstants DEF Base, TypeOK, ReaderTyped
<1>00. ASSUME NEW c \in Calls PROVE ShapeOK(calls[c])
  BY DEF Base, Shapes
<1>1. ASSUME NEW c \in Calls, NEW op \in Operations, Start(c, op) PROVE Base'
  <2>1. /\ calls[c].pc = "idle" /\ Aside /\ UNCHANGED <<view, reader, bare>> /\ Moved(c)
        /\ calls'[c].op = op /\ calls'[c].pc \in {"lock", "open"} /\ calls'[c].todo = Plan(op) /\ ~calls'[c].tx
        /\ op \in {"add", "set"} => calls'[c].pc = "lock"
        /\ op \in {"update", "updateOrCreate"} => calls'[c].to \in Keys
        /\ op \in {"getOrCreate", "updateOrCreate"} => \E k \in Keys : calls'[c].keys = {k}
    BY <1>1, StartShape
  <2>2. ShapeOK(calls'[c])
    BY <2>1, PlanTodos DEF ShapeOK
  <2>3. calls'[c].tx = calls[c].tx
    <3>1. calls[c].tx \in BOOLEAN /\ calls'[c].tx \in BOOLEAN
      BY <2>1 DEF Base, TypeOK, Call, Moved
    <3> QED
      BY <1>00, <2>1, <3>1 DEF ShapeOK
  <2>4. ReaderTyped'
    BY <1>0, <2>1 DEF ReaderTyped, Aside
  <2> QED
    BY <2>1, <2>2, <2>3, <2>4, AsideKept
<1>2. ASSUME NEW c \in Calls, Begin(c) PROVE Base'
  <2>1. /\ calls[c].pc = "lock" /\ UNCHANGED <<db, rows, nextId, mine, view, reader, blind, bare>> /\ Moved(c)
        /\ calls'[c].op = calls[c].op /\ calls'[c].keys = calls[c].keys /\ calls'[c].to = calls[c].to
        /\ calls'[c].todo = calls[c].todo /\ calls'[c].pc = "open" /\ calls'[c].tx
        /\ IF Sqlite THEN holder = None /\ holder' = c /\ undo' = rows ELSE UNCHANGED <<holder, undo>>
    BY <1>2, BeginShape
  <2>2. Shapes'
    <3>1. ShapeOK(calls'[c])
      BY <1>00, <2>1 DEF ShapeOK
    <3> QED
      BY <2>1, <3>1, ShapesKept
  <2>3. \A d \in Calls \ {c} : calls'[d].tx = calls[d].tx
    BY <2>1 DEF Moved, Besides
  <2>4. Locked'
    <3>1. ASSUME Sqlite, NEW d \in Calls PROVE calls'[d].tx <=> holder' = d
      BY <2>1, <2>3, <3>1, DataLayerConstants DEF Base, Locked
    <3>2. ASSUME NEW d \in Calls, Sqlite \/ ~calls'[d].tx PROVE mine[d] = NothingWritten
      BY <2>1, <2>3, <3>2 DEF Base, Locked
    <3> QED
      BY <2>1, <3>1, <3>2 DEF Locked, Sqlite
  <2>5. IdsOnce'
    BY <2>1 DEF Base, IdsOnce
  <2>6. TypeOK'
    <3>1. holder' \in Calls \cup {None} /\ undo' \subseteq Row
      BY <2>1 DEF Base, TypeOK
    <3> QED
      BY <2>1, <3>1 DEF Base, TypeOK, Moved
  <2> QED
    BY <2>2, <2>4, <2>5, <2>6 DEF Base
<1>3. ASSUME NEW c \in Calls, PassGate(c) PROVE Base'
  <2>1. /\ Aside /\ UNCHANGED <<view, reader, bare>> /\ Moved(c) /\ Keeps(calls[c], calls'[c])
        /\ calls'[c].todo = calls[c].todo
    BY <1>3, PassGateShape
  <2>2. ShapeOK(calls'[c]) /\ calls'[c].tx = calls[c].tx
    BY <1>00, <2>1 DEF ShapeOK, Keeps
  <2>3. ReaderTyped'
    BY <1>0, <2>1 DEF ReaderTyped, Aside
  <2> QED
    BY <2>1, <2>2, <2>3, AsideKept
<1>4. ASSUME NEW c \in Calls, Look(c) PROVE Base'
  <2>1. /\ calls[c].pc = "open" /\ Aside /\ UNCHANGED <<view, reader>> /\ Moved(c) /\ Keeps(calls[c], calls'[c])
        /\ bare' = bare \cup (IF calls[c].tx \/ calls[c].op \in {"add", "set"} THEN {} ELSE calls[c].keys)
        /\ \E found : calls'[c].todo = Afterwards(c, Saw(c, found))
    BY <1>4, LookShape
  <2>5. bare' \subseteq Keys
    BY <1>0, <2>1 DEF ReaderTyped, Base, TypeOK, Call
  <2>2. calls'[c].todo \in Todos /\ calls'[c].todo # <<"look">>
        /\ (calls'[c].todo = Writing => calls[c].op = "updateOrCreate")
    BY <2>1, AfterwardsTodos
  <2>3. ShapeOK(calls'[c]) /\ calls'[c].tx = calls[c].tx
    BY <1>00, <2>1, <2>2 DEF ShapeOK, Keeps
  <2>4. ReaderTyped'
    BY <1>0, <2>1, <2>5 DEF ReaderTyped, Aside
  <2> QED
    BY <2>1, <2>3, <2>4, AsideKept
<1>5. ASSUME NEW c \in Calls, Doom(c) PROVE Base'
  <2>1. /\ calls[c].pc = "open" /\ calls[c].todo \in Dooming /\ Aside /\ UNCHANGED <<view, reader, bare>>
        /\ Moved(c) /\ Keeps(calls[c], calls'[c]) /\ calls'[c].todo = Tail(calls[c].todo)
    BY <1>5, DoomShape
  <2>2. calls'[c].todo \in Removing
    BY <2>1, TodoTails
  <2>3. ShapeOK(calls'[c]) /\ calls'[c].tx = calls[c].tx
    <3>1. calls'[c].todo \in Todos /\ calls'[c].todo # <<"look">> /\ calls'[c].todo # Writing
      BY <2>2 DEF Todos, Removing, Writing
    <3> QED
      BY <1>00, <2>1, <3>1 DEF ShapeOK, Keeps
  <2>4. ReaderTyped'
    BY <1>0, <2>1 DEF ReaderTyped, Aside
  <2> QED
    BY <2>1, <2>3, <2>4, AsideKept
<1>6. ASSUME NEW c \in Calls, Remove(c) PROVE Base'
  <2>1. /\ calls[c].pc = "open" /\ calls[c].todo \in Removing /\ UNCHANGED <<nextId, view, blind, bare>>
        /\ Wrote(c, Matching(c, calls[c].drop), {}) /\ Keeps(calls[c], calls'[c])
        /\ calls'[c].todo \in {Tail(Tail(calls[c].todo)), Tail(calls[c].todo)}
    BY <1>6, RemoveShape
  <2>2. calls'[c].todo \in Telling \cup {<<>>, Inserting}
    BY <2>1, TodoTails
  <2>3. ShapeOK(calls'[c]) /\ calls'[c].tx = calls[c].tx
    <3>1. calls'[c].todo \in Todos /\ calls'[c].todo # <<"look">> /\ calls'[c].todo # Writing
      BY <2>2 DEF Todos, Telling, Writing, Inserting
    <3> QED
      BY <1>00, <2>1, <3>1 DEF ShapeOK, Keeps
  <2>4. nextId' \in 1..(MaxId + 1) /\ blind' \subseteq Keys
    BY <1>0, <2>1, NextIdType DEF ReaderTyped
  <2> QED
    BY <2>1, <2>3, <2>4, WroteKept
<1>7. ASSUME NEW c \in Calls, Insert(c) PROVE Base'
  <2>1. /\ calls[c].pc = "open" /\ UNCHANGED <<view, bare>> /\ calls'[c].todo = <<"told">>
        /\ blind' = blind \cup (IF calls[c].op = "create" THEN calls[c].add ELSE {}) /\ nextId' \in 1..(MaxId + 1)
        /\ Keeps(calls[c], calls'[c])
    BY <1>7, InsertShape
  <2>2. PICK R : Wrote(c, {}, R)
    BY <1>7, InsertShape
  <2>3. ShapeOK(calls'[c]) /\ calls'[c].tx = calls[c].tx
    <3>1. calls'[c].todo \in Todos /\ calls'[c].todo # <<"look">> /\ calls'[c].todo # Writing
      BY <2>1 DEF Todos, Telling, Writing
    <3> QED
      BY <1>00, <2>1, <3>1 DEF ShapeOK, Keeps
  <2>4. blind' \subseteq Keys
    BY <1>0, <2>1 DEF ReaderTyped, Base, TypeOK, Call
  <2> QED
    BY <2>1, <2>2, <2>3, <2>4, WroteKept
<1>8. ASSUME NEW c \in Calls, WriteRows(c) PROVE Base'
  <2>1. /\ calls[c].pc = "open" /\ UNCHANGED <<nextId, view, bare>> /\ calls'[c].todo = <<"told">>
        /\ Keeps(calls[c], calls'[c])
    BY <1>8, WriteRowsShape
  <2>2. PICK out, ins : Wrote(c, out, ins)
    BY <1>8, WriteRowsShape
  <2>3. ShapeOK(calls'[c]) /\ calls'[c].tx = calls[c].tx
    <3>1. calls'[c].todo \in Todos /\ calls'[c].todo # <<"look">> /\ calls'[c].todo # Writing
      BY <2>1 DEF Todos, Telling, Writing
    <3> QED
      BY <1>00, <2>1, <3>1 DEF ShapeOK, Keeps
  <2>4. nextId' \in 1..(MaxId + 1) /\ blind' \subseteq Keys
    BY <1>0, <1>8, <2>1, NextIdType, WriteRowsShape DEF ReaderTyped
  <2> QED
    BY <2>1, <2>2, <2>3, <2>4, WroteKept
<1>9. ASSUME NEW c \in Calls, RunHooks(c) PROVE Base'
  <2>1. /\ calls[c].pc = "open" /\ calls[c].todo \in Telling /\ Aside /\ UNCHANGED <<reader, bare>>
        /\ view' = EmptyView /\ Moved(c) /\ Keeps(calls[c], calls'[c]) /\ calls'[c].todo = Tail(calls[c].todo)
    BY <1>9, RunHooksShape
  <2>2. calls'[c].todo \in {<<>>, Inserting}
    BY <2>1, TodoTails
  <2>3. ShapeOK(calls'[c]) /\ calls'[c].tx = calls[c].tx
    <3>1. calls'[c].todo \in Todos /\ calls'[c].todo # <<"look">> /\ calls'[c].todo # Writing
      BY <2>2 DEF Todos, Writing, Inserting
    <3> QED
      BY <1>00, <2>1, <3>1 DEF ShapeOK, Keeps
  <2>4. ReaderTyped'
    <3>1. EmptyView \in [rows: SUBSET Row, kept: BOOLEAN, raced: BOOLEAN, missed: BOOLEAN]
      BY DEF EmptyView
    <3> QED
      BY <1>0, <2>1, <3>1 DEF ReaderTyped, Aside
  <2> QED
    BY <2>1, <2>3, <2>4, AsideKept
<1>10. ASSUME NEW c \in Calls, Finish(c) PROVE Base'
  BY <1>10, FinishShape, EndsKept
<1>11. ASSUME NEW c \in Calls, Throw(c) PROVE Base'
  BY <1>11, ThrowShape, EndsKept
<1>14. ASSUME NEW c \in Calls, ThrowOutside(c) PROVE Base'
  <2>1. /\ Aside /\ UNCHANGED bare /\ Moved(c) /\ ReaderTyped'
        /\ calls'[c].tx = calls[c].tx /\ calls[c].tx = FALSE
        /\ calls'[c].pc = "done" /\ calls'[c].todo = calls[c].todo
    <3>1. calls[c].tx \in BOOLEAN
      BY DEF Base, TypeOK, Call
    <3> QED
      BY <1>0, <1>14, <3>1, ThrowOutsideShape DEF ReaderTyped, Aside
  <2>2. ShapeOK(calls'[c])
    BY <1>00, <2>1 DEF ShapeOK
  <2> QED
    BY <2>1, <2>2, AsideKept
<1>12. CASE ReaderPassesGate \/ ReaderReads \/ ReaderStores
  <2>1. UNCHANGED <<db, rows, nextId, holder, undo, mine, calls, blind, bare>>
    BY <1>12 DEF ReaderPassesGate, ReaderReads, ReaderStores
  <2>2. ReaderTyped'
    <3>1. CASE ReaderPassesGate
      BY <1>0, <3>1 DEF ReaderPassesGate, ReaderTyped, IdleReader
    <3>2. CASE ReaderReads
      BY <1>0, <3>2 DEF ReaderReads, ReaderTyped, Base, TypeOK
    <3>3. CASE ReaderStores
      BY <1>0, <3>3 DEF ReaderStores, ReaderTyped, IdleReader
    <3> QED
      BY <1>12, <3>1, <3>2, <3>3
  <2>3. TypeOK'
    BY <2>1, <2>2 DEF Base, TypeOK, ReaderTyped
  <2>4. Shapes' /\ Locked' /\ IdsOnce'
    BY <2>1 DEF Base, Shapes, Locked, IdsOnce, Sqlite
  <2> QED
    BY <2>3, <2>4 DEF Base
<1>13. CASE UNCHANGED vars
  BY <1>13 DEF vars, Base, TypeOK, Shapes, Locked, IdsOnce, Sqlite
<1> QED
  BY <1>1, <1>2, <1>3, <1>4, <1>5, <1>6, <1>7, <1>8, <1>9, <1>10, <1>11, <1>12, <1>13, <1>14 DEF Next, CallStep

(* The variables keep their types. *)
THEOREM TypeCorrect == Spec => []TypeOK
<1>1. Base => TypeOK
  BY DEF Base
<1> QED
  BY <1>1, BaseInit, BaseNext, PTL DEF Spec

LEMMA BaseHolds == Spec => []Base
  BY BaseInit, BaseNext, PTL DEF Spec

LEMMA AsideSees ==
  ASSUME NEW c \in Calls, Aside, calls'[c].tx = calls[c].tx
  PROVE  Seen'[c] = Seen[c]
  BY DEF Aside, Seen, Visible, Sqlite

-----------------------------------------------------------------------------
(* What delete() reports *)

(* No limit of a queryset leaves out a row of the table. *)
NoLimits == \A l \in Limits : MaxId <= l

Doomed(call, seen) == {r \in seen : r.key \in call.drop}

(* Between its read and its DELETE a call misses only what changed under it. *)
ReportOK(call, seen) ==
  /\ call.pc # "idle" => MaxId <= call.limit
  /\ call.pc \in {"idle", "lock"} => call.todo \notin Removing
  /\ call.pc = "idle" \/ call.todo = <<"look">> => call.doomed = {} /\ call.gone = {}
  /\ call.todo \notin Removes => Changed(call.doomed, call.gone) \subseteq call.since
  /\ call.pc = "open" /\ call.todo \in Removing => Changed(call.doomed, Doomed(call, seen)) \subseteq call.since
Reports == \A c \in Calls : ReportOK(calls[c], Seen[c])

LEMMA FewRows ==
  ASSUME Base, NEW c \in Calls
  PROVE  /\ IsFiniteSet(Visible(c)) /\ Cardinality(Visible(c)) <= MaxId
         /\ \A D \in SUBSET Visible(c) : IsFiniteSet(D) /\ Cardinality(D) \in Nat
<1>1. Visible(c) \subseteq Row /\ OneEach(Visible(c)) /\ MaxId \in Nat
  BY VisibleRows, NextIdType
<1>2. IsFiniteSet(1..MaxId) /\ Cardinality(1..MaxId) = MaxId
  BY <1>1, FS_Interval
<1> DEFINE f == [r \in Visible(c) |-> r.id]
<1>3. f \in Injection(Visible(c), 1..MaxId)
  BY <1>1 DEF Injection, IsInjective, Row, OneEach
<1>4. IsFiniteSet(Visible(c)) /\ Cardinality(Visible(c)) <= MaxId
  BY <1>2, <1>3, FS_Injection
<1> QED
  BY <1>4, FS_Subset, FS_CardinalityType

LEMMA AllDoomed ==
  ASSUME Base, NEW c \in Calls, MaxId <= calls[c].limit, NEW D \in DoomedWithinLimit(c)
  PROVE  D = Matching(c, calls[c].drop)
<1>1. PICK hits : hits = Matching(c, calls[c].drop)
  OBVIOUS
<1>2. D \subseteq hits /\ (D # hits => Cardinality(D) = calls[c].limit)
  BY <1>1 DEF DoomedWithinLimit
<1>3. hits \subseteq Visible(c) /\ calls[c].limit \in Nat /\ MaxId \in Nat
  BY <1>1, MatchingRows, NextIdType DEF Base, TypeOK, Call
<1>4. IsFiniteSet(hits) /\ Cardinality(hits) \in Nat /\ Cardinality(D) \in Nat
  BY <1>2, <1>3, FewRows
<1>5. Cardinality(Visible(c)) \in Nat /\ Cardinality(Visible(c)) <= MaxId /\ IsFiniteSet(Visible(c))
  BY FewRows
<1>6. Cardinality(hits) <= Cardinality(Visible(c))
  BY <1>3, <1>5, FS_Subset
<1>7. ASSUME D # hits PROVE FALSE
  <2>1. Cardinality(D) < Cardinality(hits)
    BY <1>2, <1>4, <1>7, FS_Subset
  <2> QED
    BY <1>2, <1>3, <1>4, <1>5, <1>6, <1>7, <2>1
<1> QED
  BY <1>1, <1>7

LEMMA OthersReport ==
  ASSUME Reports, NEW c \in Calls, Moved(c), UNCHANGED db, NEW d \in Calls \ {c}
  PROVE  ReportOK(calls'[d], Seen'[d])
<1>1. ReportOK(calls[d], Seen[d])
  BY DEF Reports
<1>2. /\ calls'[d].pc = calls[d].pc /\ calls'[d].todo = calls[d].todo /\ calls'[d].limit = calls[d].limit
      /\ calls'[d].drop = calls[d].drop /\ calls'[d].doomed = calls[d].doomed /\ calls'[d].gone = calls[d].gone
      /\ calls'[d].since = calls[d].since \cup Changed(rows, rows')
  BY DEF Moved, Besides
<1>3. Changed(Seen[d], Seen'[d]) \subseteq Changed(rows, rows')
  BY OthersSee DEF Moved
<1>4. PICK S : S = Changed(rows, rows')
  OBVIOUS
<1>5. Changed(calls[d].doomed, Doomed(calls[d], Seen'[d]))
        \subseteq Changed(calls[d].doomed, Doomed(calls[d], Seen[d])) \cup S
  BY <1>3, <1>4 DEF Changed, Doomed
<1>6. Doomed(calls'[d], Seen'[d]) = Doomed(calls[d], Seen'[d])
  BY <1>2 DEF Doomed
<1>7. /\ calls[d].todo \notin Removes => Changed(calls[d].doomed, calls[d].gone) \subseteq calls[d].since
      /\ calls[d].pc = "open" /\ calls[d].todo \in Removing =>
           Changed(calls[d].doomed, Doomed(calls[d], Seen[d])) \subseteq calls[d].since
  BY <1>1 DEF ReportOK
<1>8. /\ calls'[d].todo \notin Removes => Changed(calls'[d].doomed, calls'[d].gone) \subseteq calls'[d].since
      /\ calls'[d].pc = "open" /\ calls'[d].todo \in Removing =>
           Changed(calls'[d].doomed, Doomed(calls'[d], Seen'[d])) \subseteq calls'[d].since
  BY <1>2, <1>4, <1>5, <1>6, <1>7
<1> QED
  BY <1>1, <1>2, <1>8 DEF ReportOK

LEMMA ReportsKept ==
  ASSUME Reports, NEW c \in Calls, Moved(c), UNCHANGED db, ReportOK(calls'[c], Seen'[c])
  PROVE  Reports'
<1>1. \A d \in Calls : ReportOK(calls'[d], Seen'[d])
  BY OthersReport
<1> QED
  BY <1>1 DEF Reports

LEMMA ReportsInit == Init => Reports
<1> SUFFICES ASSUME Init, NEW c \in Calls PROVE ReportOK(calls[c], Seen[c])
  BY DEF Reports
<1>1. calls[c] = NotCalled
  BY DEF Init
<1>2. /\ NotCalled.pc = "idle" /\ NotCalled.todo = <<>> /\ NotCalled.doomed = {} /\ NotCalled.gone = {}
  BY DEF NotCalled
<1>3. <<>> \notin Removing /\ Changed({}, {}) = {}
  BY DEF Removing, Changed
<1> QED
  BY <1>1, <1>2, <1>3 DEF ReportOK

LEMMA ReportsNext == NoLimits /\ Base /\ Reports /\ [Next]_vars => Reports'
<1> SUFFICES ASSUME NoLimits, Base, Reports, [Next]_vars PROVE Reports'
  OBVIOUS
<1>0. ASSUME NEW c \in Calls PROVE ReportOK(calls[c], Seen[c])
  BY DEF Reports
<1>00. MaxId \in Nat /\ Changed({}, {}) = {}
  BY NextIdType DEF Changed
<1>1. ASSUME NEW c \in Calls, NEW op \in Operations, Start(c, op) PROVE Reports'
  <2>1. /\ Aside /\ Moved(c) /\ calls'[c].pc \in {"lock", "open"} /\ calls'[c].todo = Plan(op)
        /\ calls'[c].limit \in Limits \cup {MaxId}
        /\ calls'[c].doomed = {} /\ calls'[c].gone = {} /\ calls'[c].since = {}
    BY <1>1, StartShape
  <2>2. Plan(op) \notin Removing
    BY DEF Plan, Removing, Operations
  <2>3. MaxId <= calls'[c].limit
    BY <1>00, <2>1 DEF NoLimits
  <2>4. ReportOK(calls'[c], Seen'[c])
    BY <1>00, <2>1, <2>2, <2>3 DEF ReportOK
  <2> QED
    BY <2>1, <2>4, ReportsKept DEF Aside
<1>2. ASSUME NEW c \in Calls, Begin(c) PROVE Reports'
  <2>1. /\ calls[c].pc = "lock" /\ UNCHANGED db /\ Moved(c) /\ calls'[c].limit = calls[c].limit
        /\ calls'[c].todo = calls[c].todo /\ Holds(calls[c], calls'[c]) /\ calls'[c].pc = "open"
    BY <1>2, BeginShape
  <2>2. ReportOK(calls'[c], Seen'[c])
    BY <1>0, <2>1 DEF ReportOK, Holds
  <2> QED
    BY <2>1, <2>2, ReportsKept
<1>3. ASSUME NEW c \in Calls, PassGate(c) PROVE Reports'
  <2>1. /\ Aside /\ Moved(c) /\ Keeps(calls[c], calls'[c]) /\ Holds(calls[c], calls'[c])
        /\ calls'[c].todo = calls[c].todo
    BY <1>3, PassGateShape
  <2>2. Seen'[c] = Seen[c] /\ Doomed(calls'[c], Seen[c]) = Doomed(calls[c], Seen[c])
    BY <2>1, AsideSees DEF Keeps, Holds, Doomed
  <2>3. ReportOK(calls'[c], Seen'[c])
    BY <1>0, <2>1, <2>2 DEF ReportOK, Keeps, Holds
  <2> QED
    BY <2>1, <2>3, ReportsKept DEF Aside
<1>4. ASSUME NEW c \in Calls, Look(c) PROVE Reports'
  <2>1. /\ calls[c].pc = "open" /\ calls[c].todo = <<"look">> /\ Aside /\ Moved(c) /\ Keeps(calls[c], calls'[c])
        /\ calls'[c].doomed = calls[c].doomed /\ calls'[c].gone = calls[c].gone
        /\ \E found : calls'[c].todo = Afterwards(c, Saw(c, found))
    BY <1>4, LookShape
  <2>2. calls'[c].todo \in Removes => calls'[c].todo \in Dooming
    BY <2>1, AfterwardsTodos
  <2>3. calls'[c].todo \notin Removing
    BY <2>2 DEF Removes, Removing, Dooming
  <2>4. calls[c].doomed = {} /\ calls[c].gone = {} /\ MaxId <= calls[c].limit
    BY <1>0, <2>1 DEF ReportOK
  <2>5. ReportOK(calls'[c], Seen'[c])
    BY <1>00, <2>1, <2>3, <2>4 DEF ReportOK, Keeps
  <2> QED
    BY <2>1, <2>5, ReportsKept DEF Aside
<1>5. ASSUME NEW c \in Calls, Doom(c) PROVE Reports'
  <2>1. /\ calls[c].pc = "open" /\ calls[c].todo \in Dooming /\ Aside /\ Moved(c) /\ Keeps(calls[c], calls'[c])
        /\ calls'[c].todo = Tail(calls[c].todo) /\ calls'[c].drop = calls[c].drop
        /\ calls'[c].doomed \in DoomedWithinLimit(c)
    BY <1>5, DoomShape
  <2>2. MaxId <= calls[c].limit
    BY <1>0, <2>1 DEF ReportOK
  <2>3. calls'[c].doomed = Matching(c, calls[c].drop)
    BY <2>1, <2>2, AllDoomed
  <2>4. Seen'[c] = Seen[c] /\ Seen[c] = Visible(c)
    BY <2>1, AsideSees, VisibleRows DEF Keeps
  <2>5. Changed(calls'[c].doomed, Doomed(calls'[c], Seen'[c])) = {}
    BY <2>1, <2>3, <2>4 DEF Changed, Doomed, Matching
  <2>6. calls'[c].todo \in Removing /\ calls'[c].todo \in Removes /\ calls'[c].todo # <<"look">>
    BY <2>1, TodoTails DEF Removes, Removing
  <2>7. ReportOK(calls'[c], Seen'[c])
    BY <2>1, <2>2, <2>5, <2>6 DEF ReportOK, Keeps
  <2> QED
    BY <2>1, <2>7, ReportsKept DEF Aside
<1>6. ASSUME NEW c \in Calls, Remove(c) PROVE Reports'
  <2>1. /\ calls[c].pc = "open" /\ calls[c].todo \in Removing /\ UNCHANGED db
        /\ Moved(c) /\ Keeps(calls[c], calls'[c])
        /\ calls'[c].todo \in {Tail(Tail(calls[c].todo)), Tail(calls[c].todo)}
        /\ calls'[c].doomed = calls[c].doomed /\ calls'[c].since = calls[c].since
        /\ calls'[c].gone = Matching(c, calls[c].drop)
    BY <1>6, RemoveShape DEF Wrote
  <2>2. Doomed(calls[c], Seen[c]) = Matching(c, calls[c].drop)
    BY VisibleRows DEF Doomed, Matching
  <2>3. calls'[c].todo \in Telling \cup {<<>>, Inserting}
    BY <2>1, TodoTails
  <2>4. calls'[c].todo \notin Removing /\ calls'[c].todo # <<"look">>
    BY <2>3, Nearly
  <2>5. ReportOK(calls'[c], Seen'[c])
    BY <1>0, <2>1, <2>2, <2>4 DEF ReportOK, Keeps
  <2> QED
    BY <2>1, <2>5, ReportsKept
<1>7. ASSUME NEW c \in Calls, Insert(c) \/ WriteRows(c) \/ RunHooks(c) PROVE Reports'
  <2>1. /\ calls[c].pc = "open" /\ calls[c].todo \in Telling \cup {Inserting, Writing} /\ UNCHANGED db
        /\ Moved(c) /\ Keeps(calls[c], calls'[c]) /\ Holds(calls[c], calls'[c])
        /\ calls'[c].todo \in Telling \cup {<<>>, Inserting}
    <3>1. CASE Insert(c)
      BY <3>1, InsertShape, TodoKinds DEF Wrote
    <3>2. CASE WriteRows(c)
      BY <3>2, WriteRowsShape, TodoKinds DEF Wrote
    <3>3. CASE RunHooks(c)
      BY <3>3, RunHooksShape, TodoTails DEF Aside
    <3> QED
      BY <1>7, <3>1, <3>2, <3>3
  <2>2. calls[c].todo \notin Removes
    BY <2>1, TodoKinds
  <2>3. /\ calls'[c].todo \notin Removing /\ calls'[c].todo # <<"look">> /\ calls[c].todo \notin Removes
    BY <2>1, <2>2, Nearly
  <2>4. ReportOK(calls'[c], Seen'[c])
    BY <1>0, <2>1, <2>3 DEF ReportOK, Keeps, Holds
  <2> QED
    BY <2>1, <2>4, ReportsKept
<1>8. ASSUME NEW c \in Calls, Finish(c) \/ Throw(c) PROVE Reports'
  <2>1. PICK final : EndsTx(c, final) /\ calls[c].pc = "open"
    BY <1>8, FinishShape, ThrowShape
  <2>2. /\ UNCHANGED db /\ Moved(c) /\ calls'[c].pc = "done" /\ calls'[c].todo = calls[c].todo
        /\ Holds(calls[c], calls'[c]) /\ calls'[c].limit = calls[c].limit
    BY <2>1 DEF EndsTx
  <2>4. ReportOK(calls'[c], Seen'[c])
    BY <1>0, <2>1, <2>2 DEF ReportOK, Holds
  <2> QED
    BY <2>2, <2>4, ReportsKept
<1>9. CASE ReaderPassesGate \/ ReaderReads \/ ReaderStores \/ UNCHANGED vars
  <2>1. UNCHANGED <<calls, Seen>>
    BY <1>9 DEF ReaderPassesGate, ReaderReads, ReaderStores, vars, Seen, Visible, Sqlite
  <2> QED
    BY <2>1 DEF Reports
<1>10. ASSUME NEW c \in Calls, ThrowOutside(c) PROVE Reports'
  <2>1. /\ UNCHANGED db /\ Moved(c) /\ calls[c].pc = "open" /\ calls'[c].pc = "done"
        /\ calls'[c].todo = calls[c].todo /\ Holds(calls[c], calls'[c]) /\ calls'[c].limit = calls[c].limit
    BY <1>10, ThrowOutsideShape DEF Aside
  <2>2. ReportOK(calls'[c], Seen'[c])
    BY <1>0, <2>1 DEF ReportOK, Holds
  <2> QED
    BY <2>1, <2>2, ReportsKept
<1> QED
  BY <1>1, <1>2, <1>3, <1>4, <1>5, <1>6, <1>7, <1>8, <1>9, <1>10 DEF Next, CallStep

(* delete() reports to its hooks what went, as long as no limit cuts its read short: the rows *)
(* read before and the rows the DELETE took differ only by what others changed in between.    *)
THEOREM DeletesAreReported == NoLimits => (Spec => []DeletesReported)
<1> SUFFICES ASSUME NoLimits PROVE Spec => []DeletesReported
  OBVIOUS
<1>1. Base /\ Reports => DeletesReported
  <2> SUFFICES ASSUME Base, Reports, NEW c \in Calls,
                      "remove" \notin {calls[c].todo[i] : i \in DOMAIN calls[c].todo}
               PROVE  Changed(calls[c].doomed, calls[c].gone) \subseteq calls[c].since
    BY DEF DeletesReported
  <2>1. calls[c].todo \in Todos
    BY DEF Base, Shapes, ShapeOK
  <2>2. calls[c].todo \notin Removes
    BY <2>1, TodoKinds
  <2> QED
    BY <2>2 DEF Reports, ReportOK
<1>2. Base /\ Reports /\ [Next]_vars => Reports'
  BY ReportsNext
<1> QED
  BY <1>1, <1>2, BaseHolds, ReportsInit, PTL DEF Spec

-----------------------------------------------------------------------------
(* What set() leaves *)

LEMMA KeysChange ==
  ASSUME NEW R, NEW S
  PROVE  /\ Changed(KeysOf(R), KeysOf(S)) \subseteq KeysOf(Changed(R, S))
         /\ KeysOf(R \cup S) = KeysOf(R) \cup KeysOf(S)
<1>1. ASSUME NEW A, NEW r \in A PROVE r.key \in KeysOf(A)
  BY DEF KeysOf
<1>2. ASSUME NEW A, NEW k \in KeysOf(A) PROVE \E r \in A : r.key = k
  BY DEF KeysOf
<1> QED
  BY <1>1, <1>2 DEF Changed

(* The links once the stages ahead have run: what is missing is still to come, what is too   *)
(* many still to go, and nothing else differs but what changed under the call.               *)
Awaited(call) == (call.keys \ call.add) \cup call.drop
LinksOK(call, seen) ==
  /\ call.drop \cap call.keys = {} /\ call.add \subseteq call.keys /\ call.todo # Writing
  /\ call.todo \in Removes => /\ Changed(KeysOf(seen), Awaited(call)) \subseteq KeysOf(call.since)
                              /\ call.todo \notin Inserts => call.add = {}
  /\ call.todo \notin Removes /\ call.todo \in Inserts =>
       Changed(KeysOf(seen), call.keys \ call.add) \subseteq KeysOf(call.since)
  /\ call.todo \notin Removes \cup Inserts => Changed(KeysOf(seen), call.keys) \subseteq KeysOf(call.since)
SettingOK(call, seen) ==
  /\ call.op = "set" /\ call.pc = "lock" => call.todo = <<"look">>
  /\ call.op = "set" /\ call.pc = "open" /\ call.todo # <<"look">> => LinksOK(call, seen)
Settings == \A c \in Calls : SettingOK(calls[c], Seen[c])

LEMMA LinksUnder ==
  ASSUME NEW a, NEW b, NEW R, NEW S, NEW T, LinksOK(a, R), Changed(R, S) \subseteq T,
         b.todo = a.todo, b.keys = a.keys, b.drop = a.drop, b.add = a.add, b.since = a.since \cup T
  PROVE  LinksOK(b, S)
<1>1. Changed(KeysOf(R), KeysOf(S)) \subseteq KeysOf(T)
  <2>1. KeysOf(Changed(R, S)) \subseteq KeysOf(T)
    BY DEF KeysOf
  <2> QED
    BY <2>1, KeysChange
<1>2. KeysOf(b.since) = KeysOf(a.since) \cup KeysOf(T)
  <2>1. PICK U : U = a.since
    OBVIOUS
  <2>2. KeysOf(U \cup T) = KeysOf(U) \cup KeysOf(T)
    BY KeysChange
  <2> QED
    BY <2>1, <2>2
<1>3. ASSUME NEW W PROVE Changed(KeysOf(S), W) \subseteq Changed(KeysOf(R), W) \cup KeysOf(T)
  BY <1>1 DEF Changed
<1>4. Awaited(b) = Awaited(a)
  BY DEF Awaited
<1> QED
  BY <1>2, <1>3, <1>4 DEF LinksOK

LEMMA SettingsKept ==
  ASSUME Settings, NEW c \in Calls, Moved(c), UNCHANGED db, SettingOK(calls'[c], Seen'[c])
  PROVE  Settings'
<1>1. ASSUME NEW d \in Calls \ {c} PROVE SettingOK(calls'[d], Seen'[d])
  <2>1. SettingOK(calls[d], Seen[d])
    BY DEF Settings
  <2>2. /\ calls'[d].op = calls[d].op /\ calls'[d].pc = calls[d].pc /\ calls'[d].todo = calls[d].todo
        /\ calls'[d].keys = calls[d].keys /\ calls'[d].drop = calls[d].drop /\ calls'[d].add = calls[d].add
        /\ calls'[d].since = calls[d].since \cup Changed(rows, rows')
    BY DEF Moved, Besides
  <2>3. Changed(Seen[d], Seen'[d]) \subseteq Changed(rows, rows')
    BY OthersSee DEF Moved
  <2>4. LinksOK(calls[d], Seen[d]) => LinksOK(calls'[d], Seen'[d])
    BY <2>2, <2>3, LinksUnder
  <2> QED
    BY <2>1, <2>2, <2>4 DEF SettingOK
<1>2. \A d \in Calls : SettingOK(calls'[d], Seen'[d])
  BY <1>1
<1> QED
  BY <1>2 DEF Settings

LEMMA SettingsInit == Init => Settings
<1> SUFFICES ASSUME Init, NEW c \in Calls PROVE SettingOK(calls[c], Seen[c])
  BY DEF Settings
<1>1. calls[c].op = None /\ None \notin Operations
  BY DataLayerConstants DEF Init, NotCalled
<1> QED
  BY <1>1 DEF SettingOK, Operations

LEMMA SettingsNext == Base /\ Settings /\ [Next]_vars => Settings'
<1> SUFFICES ASSUME Base, Settings, [Next]_vars PROVE Settings'
  OBVIOUS
<1>0. ASSUME NEW c \in Calls PROVE SettingOK(calls[c], Seen[c])
  BY DEF Settings
<1>1. ASSUME NEW c \in Calls, NEW op \in Operations, Start(c, op) PROVE Settings'
  <2>1. /\ Aside /\ Moved(c) /\ calls'[c].op = op /\ calls'[c].todo = Plan(op)
        /\ op \in {"add", "set"} => calls'[c].pc = "lock"
    BY <1>1, StartShape
  <2>2. SettingOK(calls'[c], Seen'[c])
    BY <2>1, PlanTodos DEF SettingOK, Looking
  <2> QED
    BY <2>1, <2>2, SettingsKept DEF Aside
<1>2. ASSUME NEW c \in Calls, Begin(c) PROVE Settings'
  <2>1. /\ calls[c].pc = "lock" /\ UNCHANGED db /\ Moved(c) /\ calls'[c].op = calls[c].op
        /\ calls'[c].todo = calls[c].todo /\ calls'[c].pc = "open"
    BY <1>2, BeginShape
  <2>2. SettingOK(calls'[c], Seen'[c])
    BY <1>0, <2>1 DEF SettingOK
  <2> QED
    BY <2>1, <2>2, SettingsKept
<1>3. ASSUME NEW c \in Calls, PassGate(c) PROVE Settings'
  <2>1. /\ Aside /\ Moved(c) /\ Keeps(calls[c], calls'[c]) /\ Holds(calls[c], calls'[c])
        /\ calls'[c].todo = calls[c].todo
    BY <1>3, PassGateShape
  <2>2. Seen'[c] = Seen[c]
    BY <2>1, AsideSees DEF Keeps
  <2>3. SettingOK(calls'[c], Seen'[c])
    BY <1>0, <2>1, <2>2 DEF SettingOK, LinksOK, Awaited, Keeps, Holds
  <2> QED
    BY <2>1, <2>3, SettingsKept DEF Aside
<1>4. ASSUME NEW c \in Calls, Look(c) PROVE Settings'
  <2>1. PICK found :
          /\ calls[c].pc = "open" /\ Aside /\ Moved(c) /\ Keeps(calls[c], calls'[c])
          /\ calls'[c].since = {} /\ calls'[c].todo = Afterwards(c, Saw(c, found))
          /\ calls'[c].add = Missing(c, Saw(c, found))
          /\ calls[c].op = "set" => calls'[c].drop = KeysOf(Saw(c, found)) \ calls[c].keys
    BY <1>4, LookShape
  <2>2. CASE calls[c].op = "set"
    <3>1. Saw(c, found) = Seen[c] /\ Seen'[c] = Seen[c]
      BY <2>1, <2>2, AsideSees, VisibleRows DEF Saw, Keeps
    <3>2. PICK K : K = KeysOf(Seen[c])
      OBVIOUS
    <3>3. calls'[c].add = calls[c].keys \ K /\ calls'[c].drop = K \ calls[c].keys /\ calls'[c].keys = calls[c].keys
      BY <2>1, <2>2, <3>1, <3>2 DEF Missing, Keeps
    <3>4. /\ calls'[c].todo \in Removes <=> calls'[c].drop # {}
          /\ calls'[c].todo \in Inserts <=> calls'[c].add # {}
          /\ calls'[c].todo # Writing
      BY <2>1, <2>2, <3>1, <3>2, <3>3, AfterwardsTodos DEF Missing
    <3>5. Changed(K, Awaited(calls'[c])) = {}
      BY <3>3 DEF Changed, Awaited
    <3>6. /\ calls'[c].drop = {} => Changed(K, calls'[c].keys \ calls'[c].add) = {}
          /\ calls'[c].drop = {} /\ calls'[c].add = {} => Changed(K, calls'[c].keys) = {}
      BY <3>3 DEF Changed
    <3>7. calls'[c].drop \cap calls'[c].keys = {} /\ calls'[c].add \subseteq calls'[c].keys
      BY <3>3
    <3>8. LinksOK(calls'[c], Seen'[c])
      BY <3>1, <3>2, <3>4, <3>5, <3>6, <3>7 DEF LinksOK
    <3>9. SettingOK(calls'[c], Seen'[c])
      BY <2>1, <3>8 DEF SettingOK, Keeps
    <3> QED
      BY <2>1, <3>9, SettingsKept DEF Aside
  <2>3. CASE calls[c].op # "set"
    <3>1. SettingOK(calls'[c], Seen'[c])
      BY <2>1, <2>3 DEF SettingOK, Keeps
    <3> QED
      BY <2>1, <3>1, SettingsKept DEF Aside
  <2> QED
    BY <2>2, <2>3
<1>5. ASSUME NEW c \in Calls, Doom(c) PROVE Settings'
  <2>1. /\ calls[c].pc = "open" /\ calls[c].todo \in Dooming /\ Aside /\ Moved(c) /\ Keeps(calls[c], calls'[c])
        /\ calls'[c].todo = Tail(calls[c].todo) /\ calls'[c].drop = calls[c].drop /\ calls'[c].add = calls[c].add
        /\ calls'[c].since = IF calls[c].op = "set" THEN calls[c].since ELSE {}
    BY <1>5, DoomShape
  <2>2. calls'[c].todo \in Removing /\ (calls[c].todo \in Inserts <=> calls'[c].todo \in Inserts)
    BY <2>1, TodoTails
  <2>3. /\ calls[c].todo \in Removes /\ calls'[c].todo \in Removes
        /\ calls'[c].todo # Writing /\ calls[c].todo # <<"look">>
    BY <2>1, <2>2 DEF Removes, Removing, Dooming, Writing
  <2>4. Seen'[c] = Seen[c]
    BY <2>1, AsideSees DEF Keeps
  <2>5. SettingOK(calls'[c], Seen'[c])
    BY <1>0, <2>1, <2>2, <2>3, <2>4 DEF SettingOK, LinksOK, Awaited, Keeps
  <2> QED
    BY <2>1, <2>5, SettingsKept DEF Aside
<1>6. ASSUME NEW c \in Calls, Remove(c) PROVE Settings'
  <2>1. /\ calls[c].pc = "open" /\ calls[c].todo \in Removing /\ UNCHANGED db
        /\ Moved(c) /\ Keeps(calls[c], calls'[c])
        /\ Seen'[c] = (Seen[c] \ Matching(c, calls[c].drop)) \cup {}
        /\ calls'[c].todo \in {Tail(Tail(calls[c].todo)), Tail(calls[c].todo)}
        /\ calls'[c].drop = calls[c].drop /\ calls'[c].add = calls[c].add /\ calls'[c].since = calls[c].since
    BY <1>6, RemoveShape DEF Wrote
  <2>2. calls'[c].todo \in Telling \cup {<<>>, Inserting} /\ (calls[c].todo \in Inserts <=> calls'[c].todo \in Inserts)
    <3>1. CASE calls'[c].todo = Tail(Tail(calls[c].todo))
      <4>1. PICK t \in Removing : t = calls[c].todo
        BY <2>1
      <4>2. Tail(Tail(t)) \in {<<>>, Inserting} /\ (t \in Inserts <=> Tail(Tail(t)) \in Inserts)
        BY TodoTails
      <4> QED
        BY <3>1, <4>1, <4>2
    <3>2. CASE calls'[c].todo = Tail(calls[c].todo)
      BY <2>1, <3>2, TodoTails
    <3> QED
      BY <2>1, <3>1, <3>2
  <2>3. calls'[c].todo \notin Removes /\ calls'[c].todo # Writing
    BY <2>2, Nearly
  <2>4. calls[c].todo \in Removes /\ calls[c].todo # <<"look">>
    BY <2>1 DEF Removes, Removing
  <2>5. PICK K : K = KeysOf(Seen[c])
    OBVIOUS
  <2>6. KeysOf(Seen'[c]) = K \ calls[c].drop
    <3>1. Seen'[c] = {r \in Seen[c] : r.key \notin calls[c].drop}
      BY <2>1, VisibleRows DEF Matching
    <3> QED
      BY <2>5, <3>1 DEF KeysOf
  <2>7. ASSUME LinksOK(calls[c], Seen[c]) PROVE LinksOK(calls'[c], Seen'[c])
    <3>1. calls[c].drop \cap calls[c].keys = {} /\ Changed(K, Awaited(calls[c])) \subseteq KeysOf(calls[c].since)
      BY <2>4, <2>5, <2>7 DEF LinksOK
    <3>2. Changed(K \ calls[c].drop, calls[c].keys \ calls[c].add) \subseteq Changed(K, Awaited(calls[c]))
      BY <3>1 DEF Changed, Awaited
    <3>3. Changed(KeysOf(Seen'[c]), calls'[c].keys \ calls'[c].add) \subseteq KeysOf(calls'[c].since)
      BY <2>1, <2>6, <3>1, <3>2 DEF Keeps
    <3>4. calls'[c].todo \notin Inserts => calls'[c].keys \ calls'[c].add = calls'[c].keys
      BY <2>1, <2>2, <2>4, <2>7 DEF LinksOK
    <3> QED
      BY <2>1, <2>3, <2>7, <3>3, <3>4 DEF LinksOK, Keeps
  <2>8. SettingOK(calls'[c], Seen'[c])
    BY <1>0, <2>1, <2>4, <2>7 DEF SettingOK, Keeps
  <2> QED
    BY <2>1, <2>8, SettingsKept
<1>7. ASSUME NEW c \in Calls, Insert(c) PROVE Settings'
  <2>1. /\ calls[c].pc = "open" /\ calls[c].todo = Inserting /\ calls'[c].todo = <<"told">>
        /\ Keeps(calls[c], calls'[c]) /\ Holds(calls[c], calls'[c])
    BY <1>7, InsertShape
  <2>2. PICK R : KeysOf(R) = calls[c].add /\ Wrote(c, {}, R)
    BY <1>7, InsertShape
  <2>3. UNCHANGED db /\ Moved(c) /\ Seen'[c] = (Seen[c] \ {}) \cup R
    BY <2>2 DEF Wrote
  <2>4. PICK K : K = KeysOf(Seen[c])
    OBVIOUS
  <2>5. KeysOf(Seen'[c]) = K \cup calls[c].add
    <3>1. PICK S : S = Seen[c]
      OBVIOUS
    <3>2. Seen'[c] = S \cup R
      BY <2>3, <3>1
    <3>3. KeysOf(S \cup R) = KeysOf(S) \cup KeysOf(R)
      BY KeysChange
    <3> QED
      BY <2>2, <2>4, <3>1, <3>2, <3>3
  <2>6. /\ <<"told">> \notin Removes \cup Inserts /\ <<"told">> # Writing
        /\ Inserting \notin Removes /\ Inserting \in Inserts /\ Inserting # <<"look">>
    BY TodoKinds DEF Writing, Inserting
  <2>7. ASSUME LinksOK(calls[c], Seen[c]) PROVE LinksOK(calls'[c], Seen'[c])
    <3>1. /\ calls[c].add \subseteq calls[c].keys
          /\ Changed(K, calls[c].keys \ calls[c].add) \subseteq KeysOf(calls[c].since)
      BY <2>1, <2>4, <2>6, <2>7 DEF LinksOK
    <3>2. Changed(K \cup calls[c].add, calls[c].keys) \subseteq Changed(K, calls[c].keys \ calls[c].add)
      BY <3>1 DEF Changed
    <3>3. Changed(KeysOf(Seen'[c]), calls'[c].keys) \subseteq KeysOf(calls'[c].since)
      BY <2>1, <2>5, <3>1, <3>2 DEF Keeps, Holds
    <3> QED
      BY <2>1, <2>6, <2>7, <3>3 DEF LinksOK, Keeps, Holds
  <2>8. SettingOK(calls'[c], Seen'[c])
    BY <1>0, <2>1, <2>6, <2>7 DEF SettingOK, Keeps
  <2> QED
    BY <2>3, <2>8, SettingsKept
<1>8. ASSUME NEW c \in Calls, WriteRows(c) PROVE Settings'
  <2>1. /\ calls[c].pc = "open" /\ calls[c].todo = Writing /\ Keeps(calls[c], calls'[c])
    BY <1>8, WriteRowsShape
  <2>2. PICK out, ins : Wrote(c, out, ins)
    BY <1>8, WriteRowsShape
  <2>3. UNCHANGED db /\ Moved(c)
    BY <2>2 DEF Wrote
  <2>4. calls[c].op # "set"
    <3>1. Writing # <<"look">>
      BY DEF Writing
    <3> QED
      BY <1>0, <2>1, <3>1 DEF SettingOK, LinksOK
  <2>5. SettingOK(calls'[c], Seen'[c])
    BY <2>1, <2>4 DEF SettingOK, Keeps
  <2> QED
    BY <2>3, <2>5, SettingsKept
<1>9. ASSUME NEW c \in Calls, RunHooks(c) PROVE Settings'
  <2>1. /\ calls[c].pc = "open" /\ calls[c].todo \in Telling /\ Aside /\ Moved(c)
        /\ Keeps(calls[c], calls'[c]) /\ Holds(calls[c], calls'[c]) /\ calls'[c].todo = Tail(calls[c].todo)
    BY <1>9, RunHooksShape
  <2>2. calls'[c].todo \in Telling \cup {<<>>, Inserting} /\ (calls[c].todo \in Inserts <=> calls'[c].todo \in Inserts)
    BY <2>1, TodoTails
  <2>3. /\ calls'[c].todo \notin Removes /\ calls'[c].todo # Writing
        /\ calls[c].todo \notin Removes /\ calls[c].todo # <<"look">>
    BY <2>1, <2>2, Nearly
  <2>4. Seen'[c] = Seen[c]
    BY <2>1, AsideSees DEF Keeps
  <2>5. SettingOK(calls'[c], Seen'[c])
    BY <1>0, <2>1, <2>2, <2>3, <2>4 DEF SettingOK, LinksOK, Keeps, Holds
  <2> QED
    BY <2>1, <2>5, SettingsKept DEF Aside
<1>10. ASSUME NEW c \in Calls, Finish(c) \/ Throw(c) PROVE Settings'
  <2>1. PICK final : EndsTx(c, final)
    BY <1>10, FinishShape, ThrowShape
  <2>2. UNCHANGED db /\ Moved(c) /\ SettingOK(calls'[c], Seen'[c])
    BY <2>1 DEF EndsTx, SettingOK
  <2> QED
    BY <2>2, SettingsKept
<1>11. CASE ReaderPassesGate \/ ReaderReads \/ ReaderStores \/ UNCHANGED vars
  <2>1. UNCHANGED <<calls, Seen>>
    BY <1>11 DEF ReaderPassesGate, ReaderReads, ReaderStores, vars, Seen, Visible, Sqlite
  <2> QED
    BY <2>1 DEF Settings
<1>12. ASSUME NEW c \in Calls, ThrowOutside(c) PROVE Settings'
  <2>1. UNCHANGED db /\ Moved(c) /\ calls'[c].pc = "done"
    BY <1>12, ThrowOutsideShape DEF Aside
  <2>2. SettingOK(calls'[c], Seen'[c])
    BY <2>1 DEF SettingOK
  <2> QED
    BY <2>1, <2>2, SettingsKept
<1> QED
  BY <1>1, <1>2, <1>3, <1>4, <1>5, <1>6, <1>7, <1>8, <1>9, <1>10, <1>11, <1>12 DEF Next, CallStep

(* Only a call that returns becomes done without losing its operation. *)
LEMMA Returns ==
  ASSUME Base, [Next]_vars, NEW c \in Calls, calls[c].pc = "open", calls'[c].pc = "done", calls'[c].op = "set"
  PROVE  Finish(c)
<1>0. "open" # "done" /\ None # "set"
  BY DataLayerConstants DEF Operations
<1>1. ASSUME NEW d \in Calls, CallStep(d) PROVE Finish(c)
  <2>1. Moved(d)
    BY <1>1, StartShape, BeginShape, PassGateShape, LookShape, DoomShape, RemoveShape, InsertShape, WriteRowsShape,
       RunHooksShape, FinishShape, ThrowShape, ThrowOutsideShape DEF CallStep, Wrote, EndsTx
  <2>2. d = c
    BY <1>0, <2>1 DEF Moved, Besides
  <2>3. ~Start(c, "set") /\ (\A op \in Operations : ~Start(c, op)) /\ ~Begin(c)
    BY DEF Start, Begin
  <2>4. ~PassGate(c) /\ ~Look(c) /\ ~Doom(c) /\ ~Remove(c)
    BY <1>0, PassGateShape, LookShape, DoomShape, RemoveShape DEF Keeps
  <2>5. ~Insert(c) /\ ~WriteRows(c) /\ ~RunHooks(c)
    BY <1>0, InsertShape, WriteRowsShape, RunHooksShape DEF Keeps
  <2>6. ~Throw(c) /\ ~ThrowOutside(c)
    BY <1>0, ThrowShape, ThrowOutsideShape
  <2> QED
    BY <1>1, <2>2, <2>3, <2>4, <2>5, <2>6 DEF CallStep
<1>2. CASE UNCHANGED calls
  BY <1>0, <1>2
<1> QED
  BY <1>1, <1>2 DEF Next, ReaderPassesGate, ReaderReads, ReaderStores, vars

(* set() leaves exactly the wanted links, except where somebody else changed a link since it  *)
(* read them: its look, its DELETE and its INSERT together replace what it saw.               *)
THEOREM SetLeavesWhatWasWanted == Spec => SetLeavesWanted
<1> DEFINE A == \A c \in Calls :
       calls[c].op = "set" /\ calls[c].pc = "open" /\ calls'[c].pc = "done" /\ calls'[c].op = "set" =>
         Changed(KeysOf(rows'), calls[c].keys) \subseteq KeysOf(calls[c].since)
<1>1. Base /\ Settings /\ [Next]_vars => A
  <2> SUFFICES ASSUME Base, Settings, [Next]_vars, NEW c \in Calls,
                      calls[c].op = "set", calls[c].pc = "open", calls'[c].pc = "done", calls'[c].op = "set"
               PROVE  Changed(KeysOf(rows'), calls[c].keys) \subseteq KeysOf(calls[c].since)
    OBVIOUS
  <2>1. Finish(c)
    BY Returns
  <2>2. calls[c].todo = <<>> /\ rows' = Visible(c)
    BY <2>1, FinishShape DEF EndsTx
  <2>3. <<>> \notin Removes \cup Inserts /\ <<>> # <<"look">>
    BY TodoKinds
  <2>4. LinksOK(calls[c], Seen[c])
    BY <2>2, <2>3 DEF Settings, SettingOK
  <2> QED
    BY <2>2, <2>3, <2>4, VisibleRows DEF LinksOK
<1>2. Base /\ Settings /\ [Next]_vars => Settings'
  BY SettingsNext
<1>3. Init => Settings
  BY SettingsInit
<1>4. Spec => []Base
  BY BaseHolds
<1>5. Spec => []Settings
  BY <1>2, <1>3, <1>4, PTL DEF Spec
<1>6. Spec => [][A]_vars
  BY <1>1, <1>4, <1>5, PTL DEF Spec
<1> QED
  BY <1>6 DEF SetLeavesWanted

-----------------------------------------------------------------------------
(* One row per key, on SQLite *)

Excused == blind \cup bare
OneRow(R, X) == \A r, s \in R : r.key = s.key /\ r.key \notin X => r = s

(* A call that will insert a key it looked for holds the connection, and the key is still missing. *)
AbsentOK(call, final, X) ==
  call.pc \in {"lock", "open"} /\ call.todo \in Inserts /\ call.op # "create" =>
    call.pc = "open" /\ \A k \in call.add \ X : call.tx /\ k \notin KeysOf(final)
Absent == [c \in Calls |-> AbsentOK(calls[c], rows, Excused)]
Single ==
  Sqlite =>
    OneRow(rows, Excused) /\ (holder # None => OneRow(undo, Excused)) /\ \A c \in Calls : Absent[c]

LEMMA OneRowGrows ==
  ASSUME NEW R, NEW X, NEW Y, X \subseteq Y, OneRow(R, X)
  PROVE  OneRow(R, Y)
  BY DEF OneRow

(* Nobody else's rows come or go while a call holds the connection and looks. *)
LEMMA SingleKept ==
  ASSUME Single, Base, NEW c \in Calls, Moved(c), UNCHANGED db, Excused \subseteq Excused',
         Sqlite =>
           /\ OneRow(rows', Excused') /\ (holder' # None => OneRow(undo', Excused')) /\ Absent'[c]
           /\ KeysOf(rows') \subseteq KeysOf(rows) \cup Excused' \/ calls[c].tx
  PROVE  Single'
<1> SUFFICES ASSUME Sqlite, NEW d \in Calls \ {c} PROVE Absent'[d]
  BY DEF Single, Sqlite
<1>1. /\ AbsentOK(calls[d], rows, Excused)
      /\ KeysOf(rows') \subseteq KeysOf(rows) \cup Excused' \/ calls[c].tx
  BY DEF Single, Absent
<1>2. /\ calls'[d].op = calls[d].op /\ calls'[d].pc = calls[d].pc /\ calls'[d].todo = calls[d].todo
      /\ calls'[d].tx = calls[d].tx /\ calls'[d].add = calls[d].add
  BY DEF Moved, Besides
<1>3. ~(calls[c].tx /\ calls[d].tx)
  BY DEF Base, Locked
<1>4. AbsentOK(calls'[d], rows', Excused')
  BY <1>1, <1>2, <1>3 DEF AbsentOK
<1> QED
  BY <1>4 DEF Absent

LEMMA SingleInit == Init => Single
<1> SUFFICES ASSUME Init PROVE Single
  OBVIOUS
<1>1. OneRow(rows, Excused) /\ holder = None
  BY DEF Init, OneRow
<1>2. ASSUME NEW c \in Calls PROVE Absent[c]
  <2>1. calls[c].pc = "idle"
    BY DEF Init, NotCalled
  <2> QED
    BY <2>1 DEF Absent, AbsentOK
<1> QED
  BY <1>1, <1>2 DEF Single

LEMMA SingleNext == Base /\ Single /\ [Next]_vars => Single'
<1> SUFFICES ASSUME Base, Single, [Next]_vars PROVE Single'
  OBVIOUS
<1>0. ASSUME NEW c \in Calls, Sqlite
      PROVE  OneRow(rows, Excused) /\ (holder # None => OneRow(undo, Excused)) /\ AbsentOK(calls[c], rows, Excused)
  BY <1>0 DEF Single, Absent
<1>1. ASSUME NEW c \in Calls, NEW op \in Operations, Start(c, op) PROVE Single'
  <2>1. /\ Aside /\ UNCHANGED bare /\ Moved(c) /\ calls'[c].op = op /\ calls'[c].todo = Plan(op)
    BY <1>1, StartShape
  <2>2. AbsentOK(calls'[c], rows', Excused')
    BY <2>1, PlanTodos DEF AbsentOK
  <2> QED
    BY <1>0, <2>1, <2>2, SingleKept DEF Aside, Absent, Excused
<1>2. ASSUME NEW c \in Calls, Begin(c) PROVE Single'
  <2>1. /\ calls[c].pc = "lock" /\ UNCHANGED <<db, rows, blind, bare>> /\ Moved(c)
        /\ calls'[c].op = calls[c].op /\ calls'[c].todo = calls[c].todo /\ calls'[c].pc = "open"
        /\ IF Sqlite THEN holder = None /\ holder' = c /\ undo' = rows ELSE UNCHANGED <<holder, undo>>
    BY <1>2, BeginShape
  <2>2. ASSUME Sqlite PROVE OneRow(rows, Excused) /\ OneRow(undo', Excused) /\ AbsentOK(calls'[c], rows', Excused')
    BY <1>0, <2>1, <2>2 DEF AbsentOK
  <2>3. Excused' = Excused
    BY <2>1 DEF Excused
  <2> QED
    BY <2>1, <2>2, <2>3, SingleKept DEF Absent
<1>3. ASSUME NEW c \in Calls, PassGate(c) PROVE Single'
  <2>1. /\ Aside /\ UNCHANGED bare /\ Moved(c) /\ Keeps(calls[c], calls'[c]) /\ Holds(calls[c], calls'[c])
        /\ calls'[c].todo = calls[c].todo
    BY <1>3, PassGateShape
  <2>2. AbsentOK(calls[c], rows, Excused) => AbsentOK(calls'[c], rows', Excused')
    BY <2>1 DEF AbsentOK, Keeps, Holds, Aside, Excused
  <2> QED
    BY <1>0, <2>1, <2>2, SingleKept DEF Absent, Aside, Excused
<1>4. ASSUME NEW c \in Calls, Look(c) PROVE Single'
  <2>1. PICK found \in SUBSET Matching(c, calls[c].keys) :
          /\ calls[c].pc = "open" /\ calls[c].todo = <<"look">> /\ Aside /\ Moved(c)
          /\ bare' = bare \cup (IF calls[c].tx \/ calls[c].op \in {"add", "set"} THEN {} ELSE calls[c].keys)
          /\ Keeps(calls[c], calls'[c])
          /\ calls[c].op \in {"add", "set"} \/ Matching(c, calls[c].keys) = {} => found = Matching(c, calls[c].keys)
          /\ ~(calls[c].op \in {"add", "set"} \/ Matching(c, calls[c].keys) = {}) => found # {}
          /\ calls'[c].todo = Afterwards(c, Saw(c, found))
          /\ calls'[c].add = Missing(c, Saw(c, found))
    BY <1>4, LookShape
  <2>5. Missing(c, Saw(c, found)) \subseteq calls[c].keys /\ Excused' = Excused \cup bare'
    BY <2>1 DEF Missing, Excused, Aside
  <2>2. ASSUME Sqlite, calls'[c].todo \in Inserts, NEW k \in Missing(c, Saw(c, found)) \ Excused'
        PROVE  calls[c].tx /\ k \notin KeysOf(rows')
    <3>1. calls[c].op \in Looking /\ (calls[c].op \in {"add", "set"} => calls[c].tx)
          /\ (calls[c].op \in {"getOrCreate", "updateOrCreate"} => \E j \in Keys : calls[c].keys = {j})
      BY <2>1 DEF Base, Shapes, ShapeOK
    <3>2. calls[c].tx
      BY <2>1, <2>2, <2>5, <3>1 DEF Looking
    <3>3. Visible(c) = rows /\ rows' = rows
      BY <2>1, <2>2, VisibleRows DEF Aside
    <3>4. Missing(c, Saw(c, found)) # {}
      BY <2>1, <2>2, AfterwardsTodos
    <3>5. Missing(c, Saw(c, found)) \cap KeysOf(rows) = {}
      <4>1. CASE calls[c].op = "set"
        BY <3>3, <4>1 DEF Missing, Saw
      <4>2. CASE calls[c].op # "set" /\ found = Matching(c, calls[c].keys)
        <5>1. Saw(c, found) = {r \in rows : r.key \in calls[c].keys}
          BY <3>3, <4>2 DEF Saw, Matching
        <5>2. KeysOf(rows) \cap calls[c].keys \subseteq KeysOf(Saw(c, found))
          BY <5>1 DEF KeysOf
        <5> QED
          BY <5>2 DEF Missing
      <4>3. CASE calls[c].op # "set" /\ found # Matching(c, calls[c].keys)
        <5>1. PICK j \in Keys : calls[c].keys = {j}
          BY <2>1, <3>1, <4>3 DEF Looking
        <5>2. PICK r \in found : TRUE
          BY <2>1, <4>3
        <5>3. r.key = j
          BY <5>1, <5>2 DEF Matching
        <5>4. j \in KeysOf(found)
          BY <5>2, <5>3 DEF KeysOf
        <5>5. Missing(c, Saw(c, found)) = {}
          BY <4>3, <5>1, <5>4 DEF Missing, Saw
        <5> QED
          BY <3>4, <5>5
      <4> QED
        BY <4>1, <4>2, <4>3
    <3> QED
      BY <2>2, <3>2, <3>3, <3>5
  <2>3. ASSUME Sqlite PROVE AbsentOK(calls'[c], rows', Excused')
    BY <2>1, <2>2, <2>3 DEF AbsentOK, Keeps
  <2>4. Excused \subseteq Excused' /\ UNCHANGED <<db, rows, holder, undo>>
    BY <2>1, <2>5 DEF Aside
  <2>6. ASSUME Sqlite PROVE OneRow(rows', Excused') /\ (holder' # None => OneRow(undo', Excused'))
    BY <1>0, <2>4, <2>6, OneRowGrows
  <2> QED
    BY <2>1, <2>3, <2>4, <2>6, SingleKept DEF Absent
<1>5. ASSUME NEW c \in Calls, Doom(c) PROVE Single'
  <2>1. /\ calls[c].todo \in Dooming /\ Aside /\ UNCHANGED bare /\ Moved(c)
        /\ Keeps(calls[c], calls'[c]) /\ calls'[c].todo = Tail(calls[c].todo) /\ calls'[c].add = calls[c].add
    BY <1>5, DoomShape
  <2>2. calls[c].todo \in Inserts <=> calls'[c].todo \in Inserts
    BY <2>1, TodoTails
  <2>3. AbsentOK(calls[c], rows, Excused) => AbsentOK(calls'[c], rows', Excused')
    BY <2>1, <2>2 DEF AbsentOK, Keeps, Aside, Excused
  <2> QED
    BY <1>0, <2>1, <2>3, SingleKept DEF Absent, Aside, Excused
<1>6. ASSUME NEW c \in Calls, Remove(c) PROVE Single'
  <2>1. /\ calls[c].todo \in Removing /\ UNCHANGED <<blind, bare>> /\ Wrote(c, Matching(c, calls[c].drop), {})
        /\ Keeps(calls[c], calls'[c]) /\ calls'[c].add = calls[c].add
        /\ calls'[c].todo \in {Tail(Tail(calls[c].todo)), Tail(calls[c].todo)}
    BY <1>6, RemoveShape
  <2>2. calls[c].todo \in Inserts <=> calls'[c].todo \in Inserts
    <3>1. PICK t \in Removing : t = calls[c].todo
      BY <2>1
    <3>2. (t \in Inserts <=> Tail(t) \in Inserts) /\ (t \in Inserts <=> Tail(Tail(t)) \in Inserts)
      BY TodoTails
    <3> QED
      BY <2>1, <3>1, <3>2
  <2>3. UNCHANGED <<db, holder, undo, Excused>> /\ Moved(c)
    BY <2>1 DEF Wrote, Excused
  <2>4. Sqlite => rows' \subseteq rows
    BY <2>1 DEF Wrote
  <2>5. Sqlite => KeysOf(rows') \subseteq KeysOf(rows)
    BY <2>4 DEF KeysOf
  <2>6. Sqlite /\ AbsentOK(calls[c], rows, Excused) => AbsentOK(calls'[c], rows', Excused')
    BY <2>1, <2>2, <2>3, <2>5 DEF AbsentOK, Keeps
  <2>7. Sqlite /\ OneRow(rows, Excused) => OneRow(rows', Excused')
    BY <2>3, <2>4 DEF OneRow
  <2> QED
    BY <1>0, <2>3, <2>5, <2>6, <2>7, SingleKept DEF Absent
<1>7. ASSUME NEW c \in Calls, Insert(c) PROVE Single'
  <2>1. /\ calls[c].pc = "open" /\ calls[c].todo = Inserting /\ UNCHANGED bare
        /\ blind' = blind \cup (IF calls[c].op = "create" THEN calls[c].add ELSE {}) /\ calls'[c].todo = <<"told">>
    BY <1>7, InsertShape
  <2>2. PICK R : /\ KeysOf(R) = calls[c].add /\ \A r, s \in R : r.key = s.key => r = s
                 /\ Wrote(c, {}, R)
    BY <1>7, InsertShape
  <2>3. UNCHANGED <<db, holder, undo>> /\ Moved(c) /\ (Sqlite => rows' = (rows \ {}) \cup R)
    BY <2>2 DEF Wrote
  <2>4. AbsentOK(calls'[c], rows', Excused')
    BY <2>1, TodoKinds DEF AbsentOK
  <2>5. Excused' = Excused \cup (IF calls[c].op = "create" THEN calls[c].add ELSE {})
    BY <2>1 DEF Excused
  <2>6. ASSUME Sqlite
        PROVE  /\ OneRow(rows', Excused') /\ (holder' # None => OneRow(undo', Excused'))
               /\ KeysOf(rows') \subseteq KeysOf(rows) \cup Excused' \/ calls[c].tx
    <3>1. OneRow(rows, Excused') /\ (holder # None => OneRow(undo, Excused'))
      BY <1>0, <2>5, <2>6, OneRowGrows
    <3>2. ASSUME NEW k \in calls[c].add \ Excused' PROVE calls[c].tx /\ k \notin KeysOf(rows)
      BY <1>0, <2>1, <2>5, <2>6, <3>2, TodoKinds DEF AbsentOK
    <3>3. ASSUME NEW r \in rows, NEW s \in R, s.key \notin Excused' PROVE r.key # s.key
      BY <2>2, <3>2, <3>3 DEF KeysOf
    <3>4. OneRow(rows', Excused')
      BY <2>2, <2>3, <2>6, <3>1, <3>3 DEF OneRow
    <3>5. KeysOf(rows') \subseteq KeysOf(rows) \cup calls[c].add
      BY <2>2, <2>3, <2>6 DEF KeysOf
    <3> QED
      BY <2>3, <3>1, <3>2, <3>4, <3>5
  <2> QED
    BY <2>3, <2>4, <2>5, <2>6, SingleKept DEF Absent
<1>8. ASSUME NEW c \in Calls, WriteRows(c) PROVE Single'
  <2>1. /\ UNCHANGED bare /\ blind' = blind \cup {calls[c].to} /\ calls'[c].todo = <<"told">>
    BY <1>8, WriteRowsShape
  <2>2. PICK out, ins : Wrote(c, out, ins) /\ KeysOf(ins) \subseteq {calls[c].to}
    BY <1>8, WriteRowsShape
  <2>3. UNCHANGED <<db, holder, undo>> /\ Moved(c) /\ (Sqlite => rows' = (rows \ out) \cup ins)
    BY <2>2 DEF Wrote
  <2>4. AbsentOK(calls'[c], rows', Excused')
    BY <2>1, TodoKinds DEF AbsentOK
  <2>5. Excused' = Excused \cup {calls[c].to}
    BY <2>1 DEF Excused
  <2>6. ASSUME Sqlite
        PROVE  /\ OneRow(rows', Excused') /\ (holder' # None => OneRow(undo', Excused'))
               /\ KeysOf(rows') \subseteq KeysOf(rows) \cup Excused'
    <3>1. OneRow(rows, Excused') /\ (holder # None => OneRow(undo, Excused'))
      BY <1>0, <2>5, <2>6, OneRowGrows
    <3>2. \A r \in ins : r.key \in Excused'
      BY <2>2, <2>5 DEF KeysOf
    <3>3. \A r \in rows' : r \in rows \/ r.key \in Excused'
      BY <2>3, <2>6, <3>2
    <3> QED
      BY <2>3, <3>1, <3>3 DEF OneRow, KeysOf
  <2> QED
    BY <2>3, <2>4, <2>5, <2>6, SingleKept DEF Absent
<1>9. ASSUME NEW c \in Calls, RunHooks(c) PROVE Single'
  <2>1. /\ calls[c].todo \in Telling /\ Aside /\ UNCHANGED bare /\ Moved(c)
        /\ Keeps(calls[c], calls'[c]) /\ Holds(calls[c], calls'[c]) /\ calls'[c].todo = Tail(calls[c].todo)
    BY <1>9, RunHooksShape
  <2>2. calls[c].todo \in Inserts <=> calls'[c].todo \in Inserts
    BY <2>1, TodoTails
  <2>3. AbsentOK(calls[c], rows, Excused) => AbsentOK(calls'[c], rows', Excused')
    BY <2>1, <2>2 DEF AbsentOK, Keeps, Holds, Aside, Excused
  <2> QED
    BY <1>0, <2>1, <2>3, SingleKept DEF Absent, Aside, Excused
<1>10. ASSUME NEW c \in Calls, Finish(c) \/ Throw(c) PROVE Single'
  <2>1. PICK final : /\ EndsTx(c, final)
                     /\ final = Visible(c) \/ (final = (IF Sqlite THEN undo ELSE rows) /\ calls[c].tx)
    BY <1>10, FinishShape, ThrowShape
  <2>2. /\ Moved(c) /\ UNCHANGED <<db, blind, bare>> /\ rows' = final /\ calls'[c].pc = "done"
        /\ holder' = (IF holder = c THEN None ELSE holder) /\ undo' = (IF holder = c THEN {} ELSE undo)
    BY <2>1 DEF EndsTx
  <2>3. AbsentOK(calls'[c], rows', Excused')
    BY <2>2 DEF AbsentOK
  <2>5. Excused' = Excused
    BY <2>2 DEF Excused
  <2>4. ASSUME Sqlite
        PROVE  /\ OneRow(rows', Excused') /\ (holder' # None => OneRow(undo', Excused'))
               /\ KeysOf(rows') \subseteq KeysOf(rows) \/ calls[c].tx
    <3>1. OneRow(rows, Excused) /\ (holder # None => OneRow(undo, Excused)) /\ Visible(c) = rows
      BY <1>0, <2>4, VisibleRows
    <3>2. calls[c].tx => holder = c /\ c # None
      BY <2>4, DataLayerConstants DEF Base, Locked
    <3> QED
      BY <2>1, <2>2, <2>4, <2>5, <3>1, <3>2 DEF OneRow
  <2> QED
    BY <2>2, <2>3, <2>4, <2>5, SingleKept DEF Absent
<1>12. ASSUME NEW c \in Calls, ThrowOutside(c) PROVE Single'
  <2>1. /\ Aside /\ UNCHANGED bare /\ Moved(c) /\ calls'[c].pc = "done"
    BY <1>12, ThrowOutsideShape
  <2>2. AbsentOK(calls'[c], rows', Excused')
    BY <2>1 DEF AbsentOK
  <2> QED
    BY <1>0, <2>1, <2>2, SingleKept DEF Absent, Aside, Excused
<1>11. CASE ReaderPassesGate \/ ReaderReads \/ ReaderStores \/ UNCHANGED vars
  <2>1. UNCHANGED <<db, rows, holder, undo, Excused, Absent>>
    BY <1>11 DEF ReaderPassesGate, ReaderReads, ReaderStores, vars, Absent, Excused
  <2> QED
    BY <2>1 DEF Single, Sqlite
<1> QED
  BY <1>1, <1>2, <1>3, <1>4, <1>5, <1>6, <1>7, <1>8, <1>9, <1>10, <1>11, <1>12 DEF Next, CallStep

(* On SQLite add, set, and getOrCreate and updateOrCreate inside atomic(), never make a second *)
(* row for a key: who looks holds the connection until what was missing is there, whatever     *)
(* other keys are written and rolled back meanwhile.  Keys that some call created or renamed   *)
(* rows to without looking, or looked for outside a transaction, are excused from then on.     *)
THEOREM KeysStaySingle == Spec => []OneRowPerKey
<1>1. Single => OneRowPerKey
  BY DEF Single, OneRowPerKey, OneRow, Excused
<1>2. Base /\ Single /\ [Next]_vars => Single'
  BY SingleNext
<1> QED
  BY <1>1, <1>2, BaseHolds, SingleInit, PTL DEF Spec

-----------------------------------------------------------------------------
(* The cached view, on SQLite *)

(* A call has written and not yet cleared the view. *)
Told(call) == call.pc = "open" /\ call.todo \in Telling
Tellers == {c \in Calls : Told(calls[c])}

(* Until a statement races it, a reader reads what a rollback would return to; and a view that *)
(* no statement raced and no hook missed is out of date only while the hooks that clear it are still to run, for  *)
(* the rows as they are and for the rows that a rollback would bring back.                     *)
Fresh ==
  Sqlite =>
    /\ reader.pc # "idle" /\ ~reader.raced =>
         (holder # None => undo = rows) /\ (reader.pc = "read" => reader.rows = rows)
    /\ view.kept /\ ~view.raced /\ ~view.missed =>
         /\ rows = view.rows \/ Tellers # {}
         /\ holder # None => undo = view.rows \/ Tellers \ {holder} # {}

LEMMA TellersKept ==
  ASSUME NEW c \in Calls, Moved(c)
  PROVE  Tellers' \ {c} = Tellers \ {c}
  BY DEF Moved, Besides, Tellers, Told

(* A step that changes nothing the reader or the view depends on. *)
LEMMA FreshAside ==
  ASSUME Fresh, NEW c \in Calls, Moved(c), UNCHANGED <<db, rows, holder, undo, view, reader>>,
         ~Told(calls[c])
  PROVE  Fresh'
<1>1. Tellers \subseteq Tellers'
  BY TellersKept DEF Tellers
<1> QED
  BY <1>1 DEF Fresh, Sqlite

(* A statement races the reader, and the hooks of the call that ran it are still to run. *)
LEMMA FreshWrite ==
  ASSUME Base, Fresh, NEW c \in Calls, NEW out, NEW ins, Wrote(c, out, ins), UNCHANGED view,
         ~Told(calls[c]), rows' = rows \/ Told(calls'[c])
  PROVE  Fresh'
<1> SUFFICES ASSUME Sqlite PROVE Fresh'
  BY DEF Fresh, Wrote, Sqlite
<1>1. Moved(c) /\ UNCHANGED <<db, holder, undo>> /\ RacedBy(rows')
  BY DEF Wrote
<1>2. /\ reader'.pc = reader.pc /\ reader'.rows = reader.rows
      /\ reader'.raced <=> reader.raced \/ (rows # rows' /\ reader.pc # "idle")
  BY <1>1, RacedType
<1>3. Tellers \subseteq Tellers' /\ (Told(calls'[c]) => c \in Tellers')
  BY <1>1, TellersKept DEF Tellers
<1>4. reader'.pc # "idle" /\ ~reader'.raced =>
        (holder' # None => undo' = rows') /\ (reader'.pc = "read" => reader'.rows = rows')
  BY <1>1, <1>2 DEF Fresh
<1>5. view'.kept /\ ~view'.raced /\ ~view'.missed =>
        /\ rows' = view'.rows \/ Tellers' # {}
        /\ holder' # None => undo' = view'.rows \/ Tellers' \ {holder'} # {}
  BY <1>1, <1>3 DEF Fresh
<1> QED
  BY <1>4, <1>5 DEF Fresh

LEMMA FreshInit == Init => Fresh
  BY DEF Init, Fresh, EmptyView, IdleReader

LEMMA FreshNext == Base /\ Fresh /\ [Next]_vars => Fresh'
<1> SUFFICES ASSUME Base, Fresh, [Next]_vars PROVE Fresh'
  OBVIOUS
<1>0. ASSUME NEW t \in {<<"look">>, Inserting, Writing} \cup Dooming \cup Removing PROVE t \notin Telling
  BY DEF Telling, Inserting, Writing, Dooming, Removing
<1>1. ASSUME NEW c \in Calls, NEW op \in Operations, Start(c, op) PROVE Fresh'
  <2>1. /\ calls[c].pc = "idle" /\ Aside /\ UNCHANGED <<view, reader>> /\ Moved(c)
    BY <1>1, StartShape
  <2> QED
    BY <2>1, FreshAside DEF Aside, Told
<1>2. ASSUME NEW c \in Calls, Begin(c) PROVE Fresh'
  <2>1. /\ calls[c].pc = "lock" /\ UNCHANGED <<db, rows, view, reader>> /\ Moved(c)
        /\ IF Sqlite THEN holder = None /\ holder' = c /\ undo' = rows ELSE UNCHANGED <<holder, undo>>
    BY <1>2, BeginShape
  <2>2. c \notin Tellers
    BY <2>1 DEF Tellers, Told
  <2>3. Tellers \subseteq Tellers' \ {c}
    BY <2>1, <2>2, TellersKept
  <2> QED
    BY <2>1, <2>3 DEF Fresh, Sqlite
<1>3. ASSUME NEW c \in Calls, PassGate(c) PROVE Fresh'
  <2>1. Aside /\ UNCHANGED <<view, reader>> /\ Moved(c)
    BY <1>3, PassGateShape
  <2>2. ~Told(calls[c])
    <3>1. Stage(c) # "told"
      BY <1>3 DEF PassGate
    <3> QED
      BY <3>1, ToldStage DEF Told
  <2> QED
    BY <2>1, <2>2, FreshAside DEF Aside
<1>4. ASSUME NEW c \in Calls, Look(c) \/ Doom(c) PROVE Fresh'
  <2>1. calls[c].todo \in {<<"look">>} \cup Dooming /\ Aside /\ UNCHANGED <<view, reader>> /\ Moved(c)
    BY <1>4, LookShape, DoomShape
  <2>2. ~Told(calls[c])
    BY <1>0, <2>1 DEF Told
  <2> QED
    BY <2>1, <2>2, FreshAside DEF Aside
<1>5. ASSUME NEW c \in Calls, Remove(c) PROVE Fresh'
  <2>1. PICK hits : hits = Matching(c, calls[c].drop)
    OBVIOUS
  <2>2. /\ calls[c].pc = "open" /\ calls[c].todo \in Removing /\ UNCHANGED view /\ Wrote(c, hits, {})
        /\ Keeps(calls[c], calls'[c])
        /\ calls'[c].todo = IF hits = {} THEN Tail(Tail(calls[c].todo)) ELSE Tail(calls[c].todo)
    BY <1>5, <2>1, RemoveShape
  <2>3. hits = {} => rows' = rows
    BY <2>2 DEF Wrote
  <2>4. hits # {} => Told(calls'[c])
    BY <2>2, TodoTails DEF Told, Keeps
  <2>5. ~Told(calls[c])
    BY <1>0, <2>2 DEF Told
  <2> QED
    BY <2>2, <2>3, <2>4, <2>5, FreshWrite
<1>6. ASSUME NEW c \in Calls, Insert(c) \/ WriteRows(c) PROVE Fresh'
  <2>1. /\ calls[c].pc = "open" /\ calls[c].todo \in {Inserting, Writing} /\ UNCHANGED view
        /\ Keeps(calls[c], calls'[c]) /\ calls'[c].todo = <<"told">>
    BY <1>6, InsertShape, WriteRowsShape
  <2>2. PICK out, ins : Wrote(c, out, ins)
    BY <1>6, InsertShape, WriteRowsShape
  <2>3. Told(calls'[c]) /\ ~Told(calls[c])
    BY <1>0, <2>1, TodoKinds DEF Told, Keeps
  <2> QED
    BY <2>1, <2>2, <2>3, FreshWrite
<1>7. ASSUME NEW c \in Calls, RunHooks(c) PROVE Fresh'
  <2>1. Aside /\ UNCHANGED reader /\ view' = EmptyView
    BY <1>7, RunHooksShape
  <2> QED
    BY <2>1 DEF Fresh, Aside, EmptyView, Sqlite
<1>8. ASSUME NEW c \in Calls, Finish(c) \/ Throw(c), Sqlite PROVE Fresh'
  <2>1. PICK final : /\ EndsTx(c, final) /\ calls[c].pc = "open"
                     /\ \/ final = Visible(c) /\ calls[c].todo = <<>>
                        \/ final = undo /\ calls[c].tx
    BY <1>8, FinishShape, ThrowShape
  <2>2. /\ Moved(c) /\ UNCHANGED <<db, view, reader>> /\ rows' = final
        /\ holder' = (IF holder = c THEN None ELSE holder) /\ undo' = (IF holder = c THEN {} ELSE undo)
    BY <2>1 DEF EndsTx
  <2>3. Tellers \ {c} \subseteq Tellers'
    BY <2>2, TellersKept
  <2>4. CASE final = Visible(c) /\ calls[c].todo = <<>>
    <3>1. rows' = rows
      BY <1>8, <2>2, <2>4, VisibleRows
    <3>2. c \notin Tellers
      BY <2>4, TodoKinds DEF Tellers, Told
    <3>3. Tellers \subseteq Tellers'
      BY <2>3, <3>2
    <3>4. CASE holder = c
      BY <2>2, <3>1, <3>3, <3>4 DEF Fresh, Sqlite
    <3>5. CASE holder # c
      BY <2>2, <3>1, <3>3, <3>5 DEF Fresh, Sqlite
    <3> QED
      BY <3>4, <3>5
  <2>5. CASE final = undo /\ calls[c].tx
    <3>1. holder = c /\ c # None
      BY <1>8, <2>5, DataLayerConstants DEF Base, Locked
    <3>2. holder' = None /\ rows' = undo
      BY <2>2, <2>5, <3>1
    <3> QED
      BY <2>2, <2>3, <3>1, <3>2 DEF Fresh, Sqlite
  <2> QED
    BY <2>1, <2>4, <2>5
<1>9. ASSUME NEW c \in Calls, Finish(c) \/ Throw(c), ~Sqlite PROVE Fresh'
  <2>1. UNCHANGED db
    BY <1>9 DEF Finish, Throw
  <2> QED
    BY <1>9, <2>1 DEF Fresh, Sqlite
<1>10. CASE ReaderPassesGate \/ ReaderReads \/ ReaderStores
  <2>1. UNCHANGED <<db, rows, holder, undo, calls>> /\ reader \in [pc: {"idle", "ready", "read"}, rows: SUBSET Row, raced: BOOLEAN]
    BY <1>10 DEF ReaderPassesGate, ReaderReads, ReaderStores, Base, TypeOK
  <2>2. Tellers' = Tellers
    BY <2>1 DEF Tellers
  <2>3. CASE ReaderPassesGate
    <3>1. /\ ~view.kept /\ UNCHANGED view /\ (Sqlite => holder = None)
          /\ reader'.pc = "ready"
      BY <2>3, DataLayerConstants DEF ReaderPassesGate, GateOpen, IdleReader
    <3> QED
      BY <2>1, <3>1 DEF Fresh, Sqlite
  <2>4. CASE ReaderReads
    <3>1. /\ UNCHANGED view /\ reader.pc = "ready"
          /\ reader'.pc = "read" /\ reader'.rows = rows /\ reader'.raced = reader.raced
      BY <2>1, <2>4 DEF ReaderReads
    <3> QED
      BY <2>1, <2>2, <3>1 DEF Fresh, Sqlite
  <2>5. CASE ReaderStores
    <3>1. /\ reader.pc = "read" /\ reader'.pc = "idle"
          /\ view'.rows = reader.rows /\ view'.raced = reader.raced
      BY <2>5 DEF ReaderStores, IdleReader
    <3> QED
      BY <2>1, <2>2, <3>1 DEF Fresh, Sqlite
  <2> QED
    BY <1>10, <2>3, <2>4, <2>5
<1>11. CASE UNCHANGED vars
  BY <1>11 DEF vars, Fresh, Sqlite, Tellers
<1>12. ASSUME NEW c \in Calls, ThrowOutside(c) PROVE Fresh'
  <2>1. /\ Aside /\ UNCHANGED reader /\ Moved(c) /\ view'.rows = view.rows /\ view'.kept = view.kept
        /\ view'.raced = view.raced /\ (view'.missed <=> view.missed \/ Stage(c) = "told")
    BY <1>12, ThrowOutsideShape
  <2>2. c \in Tellers => view'.missed
    BY <2>1, ToldStage DEF Tellers, Told
  <2>3. c \notin Tellers => Tellers \subseteq Tellers'
    BY <2>1, TellersKept
  <2> QED
    BY <2>1, <2>2, <2>3 DEF Fresh, Aside, Sqlite
<1> QED
  BY <1>1, <1>2, <1>3, <1>4, <1>5, <1>6, <1>7, <1>8, <1>9, <1>10, <1>11, <1>12 DEF Next, CallStep

(* On SQLite a cached view is out of date at rest only if a statement raced who filled it, or  *)
(* an earlier hook threw outside a transaction and the clearing one was missed; although the   *)
(* hooks run before their transaction commits or rolls back: who would fill it waits at the    *)
(* gate.                                                                                       *)
THEOREM ViewStaysFresh == Spec => []ViewFresh
<1>1. Base /\ Fresh => ViewFresh
  <2> SUFFICES ASSUME Base, Fresh, Sqlite, holder = None, \A c \in Calls : Stage(c) # "told", view.kept,
                      ~view.raced, ~view.missed
               PROVE  view.rows = rows
    BY DEF ViewFresh
  <2>1. Tellers = {}
    BY ToldStage DEF Tellers, Told
  <2> QED
    BY <2>1 DEF Fresh
<1>2. Base /\ Fresh /\ [Next]_vars => Fresh'
  BY FreshNext
<1> QED
  BY <1>1, <1>2, BaseHolds, FreshInit, PTL DEF Spec

-----------------------------------------------------------------------------
(* Paging by cursor, as CursorPages states it and QuerySets implements it.   *)

(* Every row that has matched all along is shown, or comes after all that    *)
(* was shown; that is what lets the next page forget what was shown before.  *)
PagesInv ==
  /\ shown \in Seq(Int) /\ matching \in SUBSET Int /\ steady \subseteq matching /\ desc \in BOOLEAN
  /\ InOrder(shown)
  /\ phase = "off" => shown = <<>>
  /\ phase \in {"off", "on"} => steady \subseteq Keyed(shown) \cup Remaining
  /\ phase = "over" => steady \subseteq Keyed(shown)
  /\ phase \in {"off", "on", "over"}

LEMMA TurnLosesNothing ==
  ASSUME PagesInv, Turn
  PROVE  PagesInv'
<1>0. PICK n \in 0..PerPage : \E page \in [1..n -> Remaining] :
        /\ shown' = shown \o page
        /\ InOrder(page) /\ \A i \in 1..n, k \in Remaining \ Keyed(page) : Precedes(page[i], k)
        /\ IF Remaining \ Keyed(page) = {} THEN phase' = "over" ELSE n = PerPage /\ phase' = "on"
  BY DEF Turn
<1>1. PICK page \in [1..n -> Remaining] :
        /\ shown' = shown \o page
        /\ InOrder(page) /\ \A i \in 1..n, k \in Remaining \ Keyed(page) : Precedes(page[i], k)
        /\ IF Remaining \ Keyed(page) = {} THEN phase' = "over" ELSE n = PerPage /\ phase' = "on"
  BY <1>0
<1>2. n \in Nat /\ Remaining \subseteq Int /\ page \in Seq(Int) /\ Len(page) = n
  <2>1. n \in Nat
    OBVIOUS
  <2>2. Remaining \subseteq Int
    BY DEF Remaining, PagesInv
  <2>3. page \in [1..n -> Int]
    BY <2>2
  <2> QED
    BY <2>1, <2>2, <2>3
<1>3. /\ DOMAIN shown = 1..Len(shown) /\ Len(shown) \in Nat
      /\ DOMAIN shown' = 1..Len(shown') /\ DOMAIN page = 1..n
      /\ shown \in Seq(Int) /\ shown' \in Seq(Int) /\ Len(shown') = Len(shown) + n
      /\ \A i \in 1..Len(shown) : shown'[i] = shown[i]
      /\ \A i \in 1..n : shown'[Len(shown) + i] = page[i]
  <2>1. shown \in Seq(Int)
    BY DEF PagesInv
  <2>2. PICK s \in Seq(Int) : s = shown
    BY <2>1
  <2>3. PICK t : t = s \o page
    OBVIOUS
  <2>4. t \in Seq(Int) /\ Len(t) = Len(s) + n
    BY <1>2, <2>2, <2>3, ConcatProperties
  <2>5. \A i \in 1..Len(s) : t[i] = s[i]
    BY <1>2, <2>3
  <2>6. \A i \in 1..n : t[Len(s) + i] = page[i]
    BY <1>2, <2>3
  <2>7. shown' = t
    BY <1>1, <2>2, <2>3
  <2> QED
    BY <2>1, <2>2, <2>4, <2>5, <2>6, <2>7
<1>4. desc' = desc /\ matching' = matching /\ steady' = steady /\ phase = "on"
  BY DEF Turn
<1>5. Keyed(shown') = Keyed(shown) \cup Keyed(page)
  <2>1. \A k \in Keyed(shown) \cup Keyed(page) : k \in Keyed(shown')
    <3>1. ASSUME NEW i \in DOMAIN shown PROVE shown[i] \in Keyed(shown')
      <4>1. i \in DOMAIN shown' /\ shown'[i] = shown[i]
        BY <1>2, <1>3
      <4> QED
        BY <4>1 DEF Keyed
    <3>2. ASSUME NEW i \in DOMAIN page PROVE page[i] \in Keyed(shown')
      <4>1. Len(shown) + i \in DOMAIN shown' /\ shown'[Len(shown) + i] = page[i]
        BY <1>2, <1>3
      <4> QED
        BY <4>1 DEF Keyed
    <3> QED
      BY <3>1, <3>2 DEF Keyed
  <2>2. ASSUME NEW i \in 1..Len(shown') PROVE shown'[i] \in Keyed(shown) \cup Keyed(page)
    <3>1. CASE i <= Len(shown)
      <4>1. i \in DOMAIN shown /\ shown'[i] = shown[i]
        BY <1>3, <3>1
      <4> QED
        BY <4>1 DEF Keyed
    <3>2. CASE i > Len(shown)
      <4>1. i - Len(shown) \in 1..n /\ i = Len(shown) + (i - Len(shown))
        BY <1>2, <1>3, <3>2
      <4>2. shown'[i] = page[i - Len(shown)]
        BY <1>3, <4>1
      <4> QED
        BY <1>2, <4>1, <4>2 DEF Keyed
    <3> QED
      BY <1>3, <3>1, <3>2
  <2> QED
    BY <1>3, <2>1, <2>2 DEF Keyed
<1>6. InOrder(shown')
  <2> SUFFICES ASSUME NEW i \in 1..Len(shown'), NEW j \in 1..Len(shown'), i < j
               PROVE  Precedes(shown'[i], shown'[j])
    BY <1>3 DEF InOrder
  <2>1. CASE j <= Len(shown)
    <3>1. i \in 1..Len(shown) /\ j \in 1..Len(shown)
      BY <1>2, <1>3, <2>1
    <3>2. i \in DOMAIN shown /\ j \in DOMAIN shown /\ shown'[i] = shown[i] /\ shown'[j] = shown[j]
      BY <1>3, <3>1
    <3>3. Precedes(shown[i], shown[j])
      BY <3>2 DEF InOrder, PagesInv
    <3> QED
      BY <3>2, <3>3
  <2>2. CASE i <= Len(shown) /\ j > Len(shown)
    <3>1. j - Len(shown) \in 1..n /\ j = Len(shown) + (j - Len(shown))
      BY <1>2, <1>3, <2>2
    <3>2. shown'[j] = page[j - Len(shown)] /\ page[j - Len(shown)] \in Remaining
      BY <1>1, <1>3, <3>1
    <3>3. shown'[i] = shown[i] /\ i \in DOMAIN shown
      BY <1>3, <2>2
    <3> QED
      BY <3>2, <3>3 DEF Remaining
  <2>3. CASE i > Len(shown)
    <3>1. /\ i - Len(shown) \in 1..n /\ i = Len(shown) + (i - Len(shown))
          /\ j - Len(shown) \in 1..n /\ j = Len(shown) + (j - Len(shown))
          /\ i - Len(shown) < j - Len(shown)
      BY <1>2, <1>3, <2>3
    <3>2. shown'[i] = page[i - Len(shown)] /\ shown'[j] = page[j - Len(shown)]
      BY <1>3, <3>1
    <3> QED
      BY <1>1, <1>2, <3>1, <3>2 DEF InOrder
  <2> QED
    BY <1>3, <2>1, <2>2, <2>3
<1>7. \A k \in Remaining \ Keyed(page) : \A i \in 1..Len(shown') : Precedes(shown'[i], k)
  <2> SUFFICES ASSUME NEW k \in Remaining \ Keyed(page), NEW i \in 1..Len(shown')
               PROVE  Precedes(shown'[i], k)
    OBVIOUS
  <2>1. CASE i <= Len(shown)
    BY <1>3, <2>1 DEF Remaining
  <2>2. CASE i > Len(shown)
    <3>1. i - Len(shown) \in 1..n /\ i = Len(shown) + (i - Len(shown))
      BY <1>2, <1>3, <2>2
    <3> QED
      BY <1>1, <1>3, <3>1
  <2> QED
    BY <1>3, <2>1, <2>2
<1>8. Remaining \ Keyed(page) \subseteq Remaining'
  BY <1>3, <1>4, <1>7 DEF Remaining, Precedes
<1>9. steady \subseteq Keyed(shown') \cup (Remaining \ Keyed(page))
  BY <1>4, <1>5 DEF PagesInv
<1>10. InOrder(shown)'
  BY <1>4, <1>6 DEF InOrder, Precedes
<1>11. Keyed(shown)' = Keyed(shown')
  BY DEF Keyed
<1> QED
  BY <1>1, <1>3, <1>4, <1>8, <1>9, <1>10, <1>11 DEF PagesInv

LEMMA PagesInductive == PagesInv /\ [PagesNext]_pagesVars => PagesInv'
<1> SUFFICES ASSUME PagesInv, [PagesNext]_pagesVars PROVE PagesInv'
  OBVIOUS
<1>1. CASE FirstTurn
  <2>1. shown = <<>> /\ shown' = <<>> /\ phase' = "on" /\ steady' = matching' /\ matching' \in SUBSET Int /\ desc' \in BOOLEAN
    BY <1>1 DEF FirstTurn, PagesInv
  <2> QED
    BY <2>1 DEF PagesInv, InOrder, Remaining
<1>2. CASE Turn
  BY <1>2, TurnLosesNothing
<1>3. CASE RowsChange
  <2>1. /\ shown' = shown /\ desc' = desc /\ phase' = phase /\ phase = "on"
        /\ matching' \in SUBSET Int /\ steady' = steady \cap matching'
    BY <1>3 DEF RowsChange
  <2>2. steady' \subseteq Keyed(shown)' \cup Remaining'
    BY <2>1 DEF PagesInv, Keyed, Remaining, Precedes
  <2> QED
    BY <2>1, <2>2 DEF PagesInv, InOrder, Precedes
<1>4. CASE UNCHANGED pagesVars
  BY <1>4 DEF pagesVars, PagesInv, InOrder, Precedes, Keyed, Remaining
<1> QED
  BY <1>1, <1>2, <1>3, <1>4 DEF PagesNext

(* A caller of page() (db/queryset.ts) who keeps nothing but a cursor sees   *)
(* no row twice and misses none that matched all along, for any page size,   *)
(* in both directions, and whatever rows come and go between the pages.      *)
THEOREM NothingLostBetweenPages == PagesSpec => []PagesLoseNothing
<1>1. PagesInit => PagesInv
  <2> SUFFICES ASSUME PagesInit PROVE PagesInv
    OBVIOUS
  <2>1. shown = <<>> /\ shown \in Seq(Int) /\ DOMAIN shown = {}
    BY DEF PagesInit
  <2> QED
    BY <2>1 DEF PagesInit, PagesInv, InOrder
<1>2. PagesInv => PagesLoseNothing
  BY DEF PagesInv, PagesLoseNothing
<1> QED
  BY <1>1, <1>2, PagesInductive, PTL DEF PagesSpec

-----------------------------------------------------------------------------
(* Sequences by rank *)

Below(S, P, x) == {y \in S : <<y, x>> \in P}
StrictOrder(S, P) ==
  /\ \A x \in S : <<x, x>> \notin P
  /\ \A x, y, z \in S : <<x, y>> \in P /\ <<y, z>> \in P => <<x, z>> \in P
  /\ \A x, y \in S : x # y => <<x, y>> \in P \/ <<y, x>> \in P

\* Under a strict order on a finite set, the members before one are more than those before
\* an earlier one, and as many as any number below the size of the set.
LEMMA RanksRise ==
  ASSUME NEW S, IsFiniteSet(S), NEW P, StrictOrder(S, P)
  PROVE  /\ Cardinality(S) \in Nat
         /\ \A x \in S : Cardinality(Below(S, P, x)) \in 0..(Cardinality(S) - 1)
         /\ \A x, y \in S : <<x, y>> \in P => Cardinality(Below(S, P, x)) < Cardinality(Below(S, P, y))
<1>1. Cardinality(S) \in Nat
  BY FS_CardinalityType
<1>2. ASSUME NEW x \in S
      PROVE  /\ IsFiniteSet(Below(S, P, x)) /\ Cardinality(Below(S, P, x)) \in Nat
             /\ Cardinality(Below(S, P, x)) < Cardinality(S)
  <2>1. /\ IsFiniteSet(S \ {x}) /\ Cardinality(S \ {x}) = Cardinality(S) - 1
    BY FS_RemoveElement
  <2>2. Below(S, P, x) \in SUBSET (S \ {x})
    BY DEF Below, StrictOrder
  <2>3. IsFiniteSet(Below(S, P, x)) /\ Cardinality(Below(S, P, x)) <= Cardinality(S \ {x})
    BY <2>1, <2>2, FS_Subset
  <2>4. Cardinality(Below(S, P, x)) \in Nat
    BY <2>3, FS_CardinalityType
  <2>5. QED
    BY <1>1, <2>1, <2>3, <2>4
<1>3. ASSUME NEW x \in S, NEW y \in S, <<x, y>> \in P
      PROVE  Cardinality(Below(S, P, x)) < Cardinality(Below(S, P, y))
  <2>1. /\ Below(S, P, x) \in SUBSET Below(S, P, y)
        /\ x \in Below(S, P, y) /\ x \notin Below(S, P, x)
    BY <1>3 DEF Below, StrictOrder
  <2>2. /\ Cardinality(Below(S, P, x)) <= Cardinality(Below(S, P, y))
        /\ Cardinality(Below(S, P, y)) # Cardinality(Below(S, P, x))
    BY <1>2, <2>1, FS_Subset
  <2>3. QED
    BY <1>2, <2>2
<1>4. QED
  BY <1>1, <1>2, <1>3

\* As many come before some member as any number below the size of the set.
LEMMA RanksTaken ==
  ASSUME NEW S, IsFiniteSet(S), NEW P, StrictOrder(S, P), NEW k \in 0..(Cardinality(S) - 1)
  PROVE  \E x \in S : Cardinality(Below(S, P, x)) = k
<1> DEFINE N == Cardinality(S)
           rank == [x \in S |-> Cardinality(Below(S, P, x)) + 1]
<1>1. N \in Nat /\ IsFiniteSet(1..N) /\ Cardinality(1..N) = N
  BY FS_CardinalityType, FS_Interval
<1>2. rank \in [S -> 1..N]
  <2>1. ASSUME NEW x \in S PROVE Cardinality(Below(S, P, x)) + 1 \in 1..N
    BY <1>1, RanksRise
  <2>2. QED
    BY <2>1
<1>3. ASSUME NEW x \in S, NEW y \in S, x # y PROVE rank[x] # rank[y]
  <2>1. /\ Cardinality(Below(S, P, x)) \in 0..(N - 1) /\ Cardinality(Below(S, P, y)) \in 0..(N - 1)
        /\ <<x, y>> \in P => Cardinality(Below(S, P, x)) < Cardinality(Below(S, P, y))
        /\ <<y, x>> \in P => Cardinality(Below(S, P, y)) < Cardinality(Below(S, P, x))
    BY RanksRise
  <2>2. <<x, y>> \in P \/ <<y, x>> \in P
    BY <1>3 DEF StrictOrder
  <2>3. rank[x] = Cardinality(Below(S, P, x)) + 1 /\ rank[y] = Cardinality(Below(S, P, y)) + 1
    OBVIOUS
  <2>4. QED
    BY <1>1, <2>1, <2>2, <2>3
<1>4. rank \in Injection(S, 1..N)
  <2> HIDE DEF rank
  <2>1. QED
    BY <1>2, <1>3 DEF Injection, IsInjective
<1>5. rank \in Surjection(S, 1..N)
  <2> HIDE DEF rank
  <2>1. QED
    BY <1>1, <1>4, FS_Injection
<1>6. PICK x \in S : rank[x] = k + 1
  <2> HIDE DEF rank
  <2>1. k + 1 \in 1..N
    BY <1>1
  <2>2. QED
    BY <1>5, <2>1 DEF Surjection
<1>7. QED
  BY <1>1, <1>6, RanksRise

\* Arranged(S, P) has every member of S once, in the order of P.
LEMMA ArrangedOrders ==
  ASSUME NEW S, IsFiniteSet(S), NEW P, StrictOrder(S, P)
  PROVE  /\ Cardinality(S) \in Nat /\ Arranged(S, P) \in [1..Cardinality(S) -> S]
         /\ Arranged(S, P) \in Seq(S) /\ Len(Arranged(S, P)) = Cardinality(S)
         /\ \A i, j \in 1..Cardinality(S) : i < j <=> <<Arranged(S, P)[i], Arranged(S, P)[j]>> \in P
         /\ \A i, j \in 1..Cardinality(S) : Arranged(S, P)[i] = Arranged(S, P)[j] => i = j
         /\ \A x \in S : \E i \in 1..Cardinality(S) : Arranged(S, P)[i] = x
         /\ \A i \in 1..Cardinality(S) : Cardinality(Below(S, P, Arranged(S, P)[i])) = i - 1
<1> DEFINE A == Arranged(S, P)
           N == Cardinality(S)
<1>1. N \in Nat
  BY FS_CardinalityType
<1>2. ASSUME NEW n \in 1..N PROVE A[n] \in S /\ Cardinality(Below(S, P, A[n])) = n - 1
  <2>1. \E x \in S : Cardinality({y \in S : <<y, x>> \in P}) = n - 1
    <3>1. n - 1 \in 0..(N - 1)
      BY <1>1
    <3>2. QED
      BY <3>1, RanksTaken DEF Below
  <2>2. A[n] = CHOOSE x \in S : Cardinality({y \in S : <<y, x>> \in P}) = n - 1
    BY DEF Arranged
  <2>3. QED
    BY <2>1, <2>2 DEF Below
<1>3. A \in [1..N -> S]
  BY <1>2 DEF Arranged
<1>4. A \in Seq(S) /\ Len(A) = N
  <2> HIDE DEF A
  <2>1. QED
    BY <1>1, <1>3
<1> HIDE DEF A
<1>5. ASSUME NEW i \in 1..N, NEW j \in 1..N PROVE i < j <=> <<A[i], A[j]>> \in P
  <2>1. /\ A[i] \in S /\ A[j] \in S
        /\ Cardinality(Below(S, P, A[i])) = i - 1 /\ Cardinality(Below(S, P, A[j])) = j - 1
    BY <1>2
  <2>2. CASE <<A[i], A[j]>> \in P
    BY <2>1, <2>2, RanksRise
  <2>3. CASE <<A[j], A[i]>> \in P
    <3>1. j < i
      BY <2>1, <2>3, RanksRise
    <3>2. <<A[i], A[j]>> \notin P
      BY <2>1, <2>3 DEF StrictOrder
    <3>3. QED
      BY <3>1, <3>2
  <2>4. CASE A[i] = A[j]
    BY <2>1, <2>4 DEF StrictOrder
  <2>5. QED
    BY <2>1, <2>2, <2>3, <2>4 DEF StrictOrder
<1>6. ASSUME NEW i \in 1..N, NEW j \in 1..N, A[i] = A[j] PROVE i = j
  <2>1. A[i] \in S /\ <<A[i], A[j]>> \notin P /\ <<A[j], A[i]>> \notin P
    BY <1>2, <1>6 DEF StrictOrder
  <2>2. QED
    BY <1>5, <2>1
<1>7. ASSUME NEW x \in S PROVE \E i \in 1..N : A[i] = x
  <2>1. Cardinality(Below(S, P, x)) \in 0..(N - 1)
    BY RanksRise
  <2>2. Cardinality(Below(S, P, x)) + 1 \in 1..N
    BY <1>1, <2>1
  <2>3. PICK i \in 1..N : i = Cardinality(Below(S, P, x)) + 1
    BY <2>2
  <2>4. A[i] \in S /\ Cardinality(Below(S, P, A[i])) = Cardinality(Below(S, P, x))
    BY <1>2, <2>1, <2>3
  <2>5. A[i] = x
    <3>1. /\ <<A[i], x>> \in P => Cardinality(Below(S, P, A[i])) < Cardinality(Below(S, P, x))
          /\ <<x, A[i]>> \in P => Cardinality(Below(S, P, x)) < Cardinality(Below(S, P, A[i]))
      BY <2>4, RanksRise
    <3>2. <<A[i], x>> \notin P /\ <<x, A[i]>> \notin P
      BY <2>1, <2>4, <3>1
    <3>3. QED
      BY <2>4, <3>2 DEF StrictOrder
  <2>6. QED
    BY <2>5
<1>8. QED
  BY <1>1, <1>2, <1>3, <1>4, <1>5, <1>6, <1>7 DEF A

\* Kept(s, I) has the elements of s at the indices I, in their order.
KeptAt(I) == Arranged(I, {p \in I \X I : p[1] < p[2]})
\* The indices that Kept takes are those it is given, each once and in order.
LEMMA KeptPicks ==
  ASSUME NEW I \in SUBSET Int, IsFiniteSet(I), NEW s
  PROVE  /\ Cardinality(I) \in Nat /\ KeptAt(I) \in [1..Cardinality(I) -> I]
         /\ \A i, j \in 1..Cardinality(I) : i < j <=> KeptAt(I)[i] < KeptAt(I)[j]
         /\ \A k \in I : \E i \in 1..Cardinality(I) : KeptAt(I)[i] = k
         /\ \A i \in 1..Cardinality(I) : Cardinality({k \in I : k < KeptAt(I)[i]}) = i - 1
         /\ Kept(s, I) = [n \in 1..Cardinality(I) |-> s[KeptAt(I)[n]]]
<1> DEFINE P == {p \in I \X I : p[1] < p[2]}
<1>1. StrictOrder(I, P)
  <2>1. \A x, y \in I : <<x, y>> \in P <=> x < y
    OBVIOUS
  <2> HIDE DEF P
  <2>2. QED
    BY <2>1 DEF StrictOrder
<1>2. \A x, y \in I : <<x, y>> \in P <=> x < y
  OBVIOUS
<1>3. KeptAt(I) = Arranged(I, P)
  BY DEF KeptAt
<1>4. Kept(s, I) = [n \in DOMAIN KeptAt(I) |-> s[KeptAt(I)[n]]]
  BY DEF Kept, KeptAt
<1> HIDE DEF P
<1>5. /\ Cardinality(I) \in Nat /\ KeptAt(I) \in [1..Cardinality(I) -> I]
      /\ \A i, j \in 1..Cardinality(I) : i < j <=> <<KeptAt(I)[i], KeptAt(I)[j]>> \in P
      /\ \A k \in I : \E i \in 1..Cardinality(I) : KeptAt(I)[i] = k
      /\ \A i \in 1..Cardinality(I) : Cardinality(Below(I, P, KeptAt(I)[i])) = i - 1
  <2>1. /\ Cardinality(I) \in Nat /\ Arranged(I, P) \in [1..Cardinality(I) -> I]
        /\ Arranged(I, P) \in Seq(I) /\ Len(Arranged(I, P)) = Cardinality(I)
        /\ \A i, j \in 1..Cardinality(I) : i < j <=> <<Arranged(I, P)[i], Arranged(I, P)[j]>> \in P
        /\ \A i, j \in 1..Cardinality(I) : Arranged(I, P)[i] = Arranged(I, P)[j] => i = j
        /\ \A x \in I : \E i \in 1..Cardinality(I) : Arranged(I, P)[i] = x
        /\ \A i \in 1..Cardinality(I) : Cardinality(Below(I, P, Arranged(I, P)[i])) = i - 1
    BY <1>1, ArrangedOrders
  <2>2. QED
    BY <1>3, <2>1
<1>6. ASSUME NEW i \in 1..Cardinality(I)
      PROVE  {k \in I : k < KeptAt(I)[i]} = Below(I, P, KeptAt(I)[i])
  BY <1>2, <1>5 DEF Below
<1>7. QED
  BY <1>2, <1>4, <1>5, <1>6

\* Whoever keeps every element keeps the sequence.
LEMMA KeptAll ==
  ASSUME NEW n \in Nat, NEW s, s = [i \in 1..n |-> s[i]]
  PROVE  Kept(s, 1..n) = s
<1>1. IsFiniteSet(1..n) /\ Cardinality(1..n) = n /\ 1..n \in SUBSET Int
  BY FS_Interval
<1>2. /\ KeptAt(1..n) \in [1..n -> 1..n]
      /\ \A i \in 1..n : Cardinality({k \in 1..n : k < KeptAt(1..n)[i]}) = i - 1
      /\ Kept(s, 1..n) = [i \in 1..n |-> s[KeptAt(1..n)[i]]]
  <2> DEFINE I == 1..n
  <2>1. IsFiniteSet(I) /\ Cardinality(I) = n /\ I \in SUBSET Int
    BY <1>1
  <2> HIDE DEF I
  <2>2. /\ KeptAt(I) \in [1..n -> I]
        /\ \A i \in 1..n : Cardinality({k \in I : k < KeptAt(I)[i]}) = i - 1
        /\ Kept(s, I) = [i \in 1..n |-> s[KeptAt(I)[i]]]
    BY <2>1, KeptPicks
  <2>3. QED
    BY <2>2 DEF I
<1>3. ASSUME NEW i \in 1..n PROVE KeptAt(1..n)[i] = i
  <2> DEFINE a == KeptAt(1..n)[i]
  <2>1. a \in 1..n
    BY <1>2
  <2> HIDE DEF a
  <2>2. PICK b \in Nat : a = b + 1
    <3>1. a - 1 \in Nat /\ a = (a - 1) + 1
      BY <2>1
    <3>2. QED
      BY <3>1
  <2>3. {k \in 1..n : k < a} = 1..b
    BY <2>1, <2>2
  <2>4. Cardinality(1..b) = b
    BY FS_Interval
  <2>5. a = i
    <3>1. Cardinality({k \in 1..n : k < a}) = i - 1
      BY <1>2 DEF a
    <3>2. b = i - 1
      BY <2>3, <2>4, <3>1
    <3>3. QED
      BY <2>2, <3>2
  <2>6. QED
    BY <2>5 DEF a
<1>4. QED
  BY <1>2, <1>3

\* A set of numbers that are at least 1 has a least.
LEMMA LeastExists ==
  ASSUME NEW I \in SUBSET Nat, I # {}
  PROVE  \E i \in I : \A j \in I : i <= j
<1> DEFINE R == {ss \in Nat \X Nat : ss[1] < ss[2]}
<1>1. IsWellFoundedOn(R, Nat)
  BY NatLessThanWellFounded DEF OpToRel
<1>2. \A x, y \in Nat : <<y, x>> \notin R => x <= y
  OBVIOUS
<1> HIDE DEF R
<1>3. PICK x \in I : \A y \in I : <<y, x>> \notin R
  BY <1>1, WFMin
<1>4. QED
  BY <1>2, <1>3

-----------------------------------------------------------------------------
(* The order of found *)

Less(k, l) == \E i \in DOMAIN k : k[i] < l[i] /\ \A j \in 1..(i - 1) : k[j] = l[j]

\* Sort keys of one length are compared in a strict order, and any two that differ are.
LEMMA LessTotal ==
  ASSUME NEW n \in Nat, NEW k \in [1..n -> Int], NEW l \in [1..n -> Int], k # l
  PROVE  Less(k, l) \/ Less(l, k)
<1> DEFINE I == {i \in 1..n : k[i] # l[i]}
<1>1. I \in SUBSET Nat /\ I # {}
  OBVIOUS
<1>2. PICK i \in I : \A j \in I : i <= j
  <2> HIDE DEF I
  <2>1. QED
    BY <1>1, LeastExists
<1>3. \A j \in 1..(i - 1) : k[j] = l[j]
  BY <1>2
<1>4. i \in 1..n /\ (k[i] < l[i] \/ l[i] < k[i])
  OBVIOUS
<1>5. QED
  BY <1>3, <1>4 DEF Less

LEMMA LessTransitive ==
  ASSUME NEW n \in Nat, NEW k \in [1..n -> Int], NEW l \in [1..n -> Int], NEW m \in [1..n -> Int],
         Less(k, l), Less(l, m)
  PROVE  Less(k, m)
<1>1. PICK i \in 1..n : k[i] < l[i] /\ \A j \in 1..(i - 1) : k[j] = l[j]
  BY DEF Less
<1>2. PICK j \in 1..n : l[j] < m[j] /\ \A h \in 1..(j - 1) : l[h] = m[h]
  BY DEF Less
<1>3. CASE i <= j
  <2>1. k[i] < m[i]
    BY <1>1, <1>2, <1>3
  <2>2. \A h \in 1..(i - 1) : k[h] = m[h]
    BY <1>1, <1>2, <1>3
  <2>3. QED
    BY <2>1, <2>2 DEF Less
<1>4. CASE j < i
  <2>1. k[j] < m[j]
    BY <1>1, <1>2, <1>4
  <2>2. \A h \in 1..(j - 1) : k[h] = m[h]
    BY <1>1, <1>2, <1>4
  <2>3. QED
    BY <2>1, <2>2 DEF Less
<1>5. QED
  BY <1>3, <1>4

LEMMA LessIrreflexive ==
  ASSUME NEW n \in Nat, NEW k \in [1..n -> Int]
  PROVE  ~Less(k, k)
BY DEF Less

\* How many numbers a row is ordered by.
KeyLength(q) == (IF q.ranked = Undefined THEN 0 ELSE 1) + Len(EffectiveOrdering(q))

\* The ordering in effect is one, and a row's sort key has a number for each of its parts.
LEMMA OrderingTyped ==
  ASSUME NEW q, QueryOK(q)
  PROVE  /\ EffectiveOrdering(q) \in Sorts /\ Len(EffectiveOrdering(q)) \in Nat
         /\ DOMAIN EffectiveOrdering(q) = 1..Len(EffectiveOrdering(q))
         /\ KeyLength(q) \in Nat
<1>1. <<>> \in Sorts
  BY DEF Sorts
<1>2. EffectiveOrdering(q) \in Sorts
  BY <1>1, QueriesTyped DEF QueryOK, EffectiveOrdering, QueriesTyped
<1>3. QED
  BY <1>2 DEF KeyLength, Sorts

LEMMA KeyTyped ==
  ASSUME NEW q, QueryOK(q), NEW r \in Rows
  PROVE  SortKey(q, r) \in [1..KeyLength(q) -> Int]
<1> DEFINE o == EffectiveOrdering(q)
           byRank == IF q.ranked = Undefined THEN <<>> ELSE <<-Relevance(r, q.ranked)>>
           Part(i) == IF o[i].desc THEN -SortValue(r[o[i].attr]) ELSE SortValue(r[o[i].attr])
           byColumn == [i \in DOMAIN o |-> Part(i)]
<1>1. SortKey(q, r) = byRank \o byColumn
  BY DEF SortKey
<1>2. byRank \in Seq(Int) /\ Len(byRank) = IF q.ranked = Undefined THEN 0 ELSE 1
  <2>1. q.ranked # Undefined => Relevance(r, q.ranked) \in Int
    BY QueriesTyped DEF QueriesTyped, QueryOK
  <2>2. QED
    BY <2>1
<1>3. byColumn \in Seq(Int) /\ Len(byColumn) = Len(o)
  <2>1. o \in Sorts /\ Len(o) \in Nat /\ DOMAIN o = 1..Len(o)
    BY OrderingTyped
  <2> HIDE DEF o
  <2>2. ASSUME NEW i \in 1..Len(o) PROVE Part(i) \in Int
    <3>1. o[i] \in [attr: Sortable, desc: BOOLEAN]
      BY <2>1, ElementOfSeq DEF Sorts
    <3>2. r[o[i].attr] \in Int \cup {Null} /\ Least \in Int /\ Greatest \in Int
      BY <3>1, RowsKeyed DEF RowsKeyed, Sortable
    <3>3. SortValue(r[o[i].attr]) \in Int
      BY <3>2 DEF SortValue
    <3>4. QED
      BY <3>1, <3>3
  <2> HIDE DEF Part
  <2>3. byColumn = [i \in 1..Len(o) |-> Part(i)]
    BY <2>1
  <2>4. QED
    BY <2>1, <2>2, <2>3
<1> HIDE DEF byRank, byColumn
<1>4. byRank \o byColumn \in Seq(Int) /\ Len(byRank \o byColumn) = KeyLength(q)
  <2>1. Len(byRank \o byColumn) = Len(byRank) + Len(byColumn)
    BY <1>2, <1>3, ConcatProperties
  <2>2. byRank \o byColumn \in Seq(Int)
    BY <1>2, <1>3, ConcatProperties
  <2>3. QED
    BY <1>2, <1>3, <2>1, <2>2 DEF KeyLength, o
<1>5. QED
  BY <1>1, <1>4, LenProperties

SortPairs(q, R) == {p \in R \X R : Before(SortKey(q, p[1]), SortKey(q, p[2]), p[1], p[2])}

\* ORDER BY, with the primary key last, orders the found strictly.
LEMMA SortPairsStrict ==
  ASSUME TableOK, NEW q, QueryOK(q), NEW R \in SUBSET table
  PROVE  StrictOrder(R, SortPairs(q, R))
<1> DEFINE n == KeyLength(q)
           Key(r) == SortKey(q, r)
<1>1. n \in Nat /\ \A r \in R : Key(r) \in [1..n -> Int] /\ r.id \in Int
  BY OrderingTyped, KeyTyped, RowsKeyed DEF TableOK, RowsKeyed
<1>2. \A a, b \in R : <<a, b>> \in SortPairs(q, R) <=> Less(Key(a), Key(b)) \/ (Key(a) = Key(b) /\ a.id < b.id)
  BY DEF SortPairs, Before, Less
<1>3. \A a, b \in R : a.id = b.id => a = b
  BY DEF TableOK
<1> HIDE DEF n, Key
<1>4. ASSUME NEW a \in R PROVE <<a, a>> \notin SortPairs(q, R)
  BY <1>1, <1>2, LessIrreflexive
<1>5. ASSUME NEW a \in R, NEW b \in R, NEW c \in R, <<a, b>> \in SortPairs(q, R), <<b, c>> \in SortPairs(q, R)
      PROVE  <<a, c>> \in SortPairs(q, R)
  <2>1. Less(Key(a), Key(b)) /\ Less(Key(b), Key(c)) => Less(Key(a), Key(c))
    BY <1>1, LessTransitive
  <2>2. QED
    BY <1>1, <1>2, <1>5, <2>1
<1>6. ASSUME NEW a \in R, NEW b \in R, a # b PROVE <<a, b>> \in SortPairs(q, R) \/ <<b, a>> \in SortPairs(q, R)
  <2>1. Key(a) # Key(b) => Less(Key(a), Key(b)) \/ Less(Key(b), Key(a))
    BY <1>1, LessTotal
  <2>2. a.id < b.id \/ b.id < a.id
    BY <1>1, <1>3, <1>6
  <2>3. QED
    BY <1>2, <2>1, <2>2
<1>7. QED
  BY <1>4, <1>5, <1>6 DEF StrictOrder

-----------------------------------------------------------------------------
(* Types *)

\* Indices of a sequence are a finite set of numbers.
LEMMA FinitePart ==
  ASSUME NEW n \in Nat, NEW I \in SUBSET (1..n)
  PROVE  I \in SUBSET Int /\ IsFiniteSet(I)
<1>1. IsFiniteSet(1..n)
  BY FS_Interval
<1>2. IsFiniteSet(I)
  BY <1>1, FS_Subset
<1>3. QED
  BY <1>2

\* What is kept of a sequence are the elements at the indices kept.
LEMMA KeptTyped ==
  ASSUME NEW S, NEW s \in Seq(S), NEW I \in SUBSET (DOMAIN s), NEW T, \A i \in I : s[i] \in T
  PROVE  Kept(s, I) \in Seq(T)
<1>1. DOMAIN s = 1..Len(s) /\ Len(s) \in Nat
  BY LenProperties
<1>2. I \in SUBSET Int /\ IsFiniteSet(I)
  BY <1>1, FinitePart
<1>3. /\ Cardinality(I) \in Nat /\ KeptAt(I) \in [1..Cardinality(I) -> I]
      /\ Kept(s, I) = [n \in 1..Cardinality(I) |-> s[KeptAt(I)[n]]]
  BY <1>2, KeptPicks
<1>4. Kept(s, I) \in [1..Cardinality(I) -> T]
  BY <1>3
<1>5. QED
  BY <1>3, <1>4, SeqDef

\* Chaining, a list request and the admin's changelist keep a queryset's state one.
LEMMA ReversedTyped ==
  ASSUME NEW o \in Sorts
  PROVE  Reversed(o) \in Sorts
<1>1. DOMAIN o = 1..Len(o) /\ Len(o) \in Nat /\ o \in [1..Len(o) -> [attr: Sortable, desc: BOOLEAN]]
  BY LenProperties DEF Sorts
<1>2. \A i \in 1..Len(o) : [o[i] EXCEPT !.desc = ~@] \in [attr: Sortable, desc: BOOLEAN]
  BY <1>1
<1>3. Reversed(o) \in [1..Len(o) -> [attr: Sortable, desc: BOOLEAN]]
  BY <1>1, <1>2 DEF Reversed
<1>4. QED
  BY <1>1, <1>3 DEF Sorts

LEMMA FirstState == QueryOK(QueryState)
BY QueryConstants DEF QueryOK, QueryState, Sorts, Unset, All

LEMMA DerivedTyped ==
  ASSUME NEW q, QueryOK(q), NEW p \in Derived(q)
  PROVE  QueryOK(p)
<1>1. ASSUME NEW c PROVE QueryOK([q EXCEPT !.filters = @ \cup {c}]) /\ QueryOK([q EXCEPT !.excludes = @ \cup {c}])
  BY DEF QueryOK
<1>2. ASSUME NEW c \in Searches, NEW rank \in BOOLEAN PROVE QueryOK(Search(q, c, rank))
  BY DEF QueryOK, Search
<1>3. ASSUME NEW o \in Sorts \cup {NoOrdering} PROVE QueryOK([q EXCEPT !.ordering = o])
  BY DEF QueryOK
<1>4. QueryOK(Backwards(q))
  <2>1. Reversed(EffectiveOrdering(q)) \in Sorts
    BY OrderingTyped, ReversedTyped
  <2>2. QED
    BY <1>3, <2>1 DEF Backwards
<1>5. QueryOK([q EXCEPT !.distinct = TRUE])
  BY DEF QueryOK
<1>6. QueryOK([q EXCEPT !.related = TRUE])
  BY DEF QueryOK
<1>7. ASSUME NEW k \in Nat, NEW n \in Nat \cup {Unset}
      PROVE  QueryOK([q EXCEPT !.limit = n]) /\ QueryOK([q EXCEPT !.offset = k, !.limit = n])
  <2>1. QueryOK([q EXCEPT !.limit = n])
    BY DEF QueryOK
  <2>2. QueryOK([q EXCEPT !.offset = k, !.limit = n])
    BY DEF QueryOK
  <2>3. QED
    BY <2>1, <2>2
<1>8. QueryOK(Limit(q, 1)) /\ QueryOK(Slice(q, 1, 2)) /\ QueryOK(Slice(q, 1, Unset))
  <2>1. 1 \in Nat /\ q.limit \in Nat \cup {Unset} /\ 2 # Unset /\ 2 - 1 = 1
    BY DEF QueryOK, Unset
  <2>2. Slice(q, 1, 2) = [q EXCEPT !.offset = 1, !.limit = 1]
    BY <2>1 DEF Slice
  <2>3. Slice(q, 1, Unset) = [q EXCEPT !.offset = 1, !.limit = q.limit]
    BY <2>1 DEF Slice
  <2>4. /\ QueryOK([q EXCEPT !.limit = 1]) /\ QueryOK([q EXCEPT !.offset = 1, !.limit = 1])
        /\ QueryOK([q EXCEPT !.offset = 1, !.limit = q.limit])
    BY <1>7, <2>1
  <2>5. QED
    BY <2>2, <2>3, <2>4 DEF Limit
<1>9. ASSUME NEW f \in SUBSET Fields PROVE QueryOK([q EXCEPT !.fields = f])
  BY DEF QueryOK
<1>10. ASSUME NEW f \in Selections PROVE QueryOK([q EXCEPT !.fields = f]) /\ QueryOK(Only(q, f))
  <2>1. f \in SUBSET Fields /\ f \cup {"id"} \in SUBSET Fields
    BY QueriesTyped DEF QueriesTyped, Fields, Kind
  <2>2. QED
    BY <1>9, <2>1 DEF Only
<1>11. /\ \A o \in Orderings \cup {NoOrdering} : o \in Sorts \cup {NoOrdering}
       /\ \A d \in Conditions : d.op = "search" => d \in Searches
  BY QueriesTyped DEF QueriesTyped, Searches
<1>12. \/ \E c : p = [q EXCEPT !.filters = @ \cup {c}] \/ p = [q EXCEPT !.excludes = @ \cup {c}]
       \/ \E c \in Searches, rank \in BOOLEAN : p = Search(q, c, rank)
       \/ \E o \in Sorts \cup {NoOrdering} : p = [q EXCEPT !.ordering = o]
       \/ p \in {Backwards(q), [q EXCEPT !.distinct = TRUE], [q EXCEPT !.related = TRUE],
                Limit(q, 1), Slice(q, 1, 2), Slice(q, 1, Unset)}
       \/ \E f \in Selections : p = [q EXCEPT !.fields = f] \/ p = Only(q, f)
  BY <1>11 DEF Derived
<1>13. QED
  BY <1>1, <1>2, <1>3, <1>4, <1>5, <1>6, <1>8, <1>10, <1>12

LEMMA RequestTyped ==
  ASSUME NEW q, QueryOK(q), NEW r \in Requests
  PROVE  QueryOK(List(q, r)) /\ QueryOK(Changelist(q, r))
<1>1. ASSUME NEW p, QueryOK(p), NEW o \in Sorts PROVE QueryOK(Ordered(p, o))
  BY <1>1 DEF QueryOK, Ordered
<1>2. ASSUME NEW c PROVE QueryOK([q EXCEPT !.filters = c])
  BY DEF QueryOK
<1>3. ASSUME NEW c PROVE QueryOK(Filtered(q, c))
  BY <1>2 DEF Filtered
<1>4. /\ r.ordering \in Seq([attr: Fields, desc: BOOLEAN]) /\ Len(r.ordering) \in Nat
      /\ DOMAIN r.ordering = 1..Len(r.ordering)
      /\ \A i \in 1..Len(r.ordering) : r.ordering[i] \in [attr: Fields, desc: BOOLEAN]
  <2>1. r.ordering \in Seq([attr: Fields, desc: BOOLEAN])
    BY QueriesTyped DEF QueriesTyped
  <2>2. QED
    BY <2>1, LenProperties
<1>5. QueryOK(List(q, r))
  <2> DEFINE asked == {i \in DOMAIN r.ordering : r.ordering[i].attr \in OrderingFields}
             filtered == Filtered(q, QueryFilters(r.params))
             searched == IF r.search = Undefined \/ dialect = "postgres" THEN filtered
                         ELSE Search(filtered, SearchFor(r.search), r.rank)
  <2>1. List(q, r) = Ordered(searched, Kept(r.ordering, asked))
    BY DEF List
  <2>2. QueryOK(filtered)
    BY <1>3
  <2> HIDE DEF filtered
  <2>3. QueryOK(searched)
    <3>1. r.search # Undefined => SearchFor(r.search) \in Searches
      BY DEF Searches
    <3>2. ASSUME NEW c \in Searches, NEW rank PROVE QueryOK(Search(filtered, c, rank))
      BY <2>2 DEF QueryOK, Search
    <3>3. QED
      BY <2>2, <3>1, <3>2
  <2> HIDE DEF searched
  <2>4. Kept(r.ordering, asked) \in Sorts
    <3>1. asked \in SUBSET (DOMAIN r.ordering) /\ \A i \in asked : r.ordering[i] \in [attr: Sortable, desc: BOOLEAN]
      BY <1>4, QueriesTyped DEF QueriesTyped
    <3> HIDE DEF asked
    <3>2. Kept(r.ordering, asked) \in Seq([attr: Sortable, desc: BOOLEAN])
      BY <1>4, <3>1, KeptTyped
    <3>3. QED
      BY <3>2 DEF Sorts
  <2>5. QED
    BY <1>1, <2>1, <2>3, <2>4
<1>6. QueryOK(Changelist(q, r))
  <2> DEFINE conditions == QueryFilters(r.params)
             asked == {conditions[i] : i \in {j \in DOMAIN conditions : conditions[j].meant.lookup = "exact"}}
             searched == IF r.search = Undefined THEN {}
                         ELSE {[op |-> "or", children |-> <<Condition("title", "icontains", r.search)>>]}
  <2>1. Changelist(q, r) = Ordered([q EXCEPT !.filters = @ \cup asked \cup searched], UpTo(r.ordering, 1))
    BY DEF Changelist
  <2> HIDE DEF asked, searched
  <2>2. QueryOK([q EXCEPT !.filters = @ \cup asked \cup searched])
    BY <1>2
  <2>3. UpTo(r.ordering, 1) \in Sorts
    <3>1. CASE r.ordering = <<>>
      BY <3>1 DEF UpTo, Sorts
    <3>2. CASE r.ordering # <<>>
      <4>1. Len(r.ordering) >= 1 /\ r.ordering[1] \in [attr: Sortable, desc: BOOLEAN]
        BY <1>4, <3>2, QueriesTyped DEF QueriesTyped
      <4>2. UpTo(r.ordering, 1) = SubSeq(r.ordering, 1, 1)
        BY <1>4, <4>1 DEF UpTo
      <4>3. \A i \in 1..1 : r.ordering[i] \in [attr: Sortable, desc: BOOLEAN]
        BY <4>1
      <4>4. SubSeq(r.ordering, 1, 1) \in Seq([attr: Sortable, desc: BOOLEAN])
        BY <4>3, SubSeqProperties
      <4>5. QED
        BY <4>2, <4>4 DEF Sorts
    <3>3. QED
      BY <3>1, <3>2
  <2>4. QED
    BY <1>1, <2>1, <2>2, <2>3
<1>7. QED
  BY <1>5, <1>6

\* A query is of found of the table, and its results are in their order.
LEMMA SortedRows ==
  ASSUME TableOK, NEW q, QueryOK(q), NEW R \in SUBSET table
  PROVE  /\ IsFiniteSet(R) /\ Cardinality(R) \in Nat
         /\ Sorted(q, R) \in [1..Cardinality(R) -> R] /\ Sorted(q, R) \in Seq(R)
         /\ Len(Sorted(q, R)) = Cardinality(R)
         /\ \A i, j \in 1..Cardinality(R) : i < j <=> <<Sorted(q, R)[i], Sorted(q, R)[j]>> \in SortPairs(q, R)
         /\ \A i, j \in 1..Cardinality(R) : Sorted(q, R)[i] = Sorted(q, R)[j] => i = j
         /\ \A r \in R : \E i \in 1..Cardinality(R) : Sorted(q, R)[i] = r
<1>1. IsFiniteSet(R)
  BY FS_Subset DEF TableOK
<1>2. Sorted(q, R) = Arranged(R, SortPairs(q, R))
  BY DEF Sorted, SortPairs
<1>3. StrictOrder(R, SortPairs(q, R))
  BY SortPairsStrict
<1>4. /\ Cardinality(R) \in Nat /\ Arranged(R, SortPairs(q, R)) \in [1..Cardinality(R) -> R]
      /\ Arranged(R, SortPairs(q, R)) \in Seq(R) /\ Len(Arranged(R, SortPairs(q, R))) = Cardinality(R)
      /\ \A i, j \in 1..Cardinality(R) :
           i < j <=> <<Arranged(R, SortPairs(q, R))[i], Arranged(R, SortPairs(q, R))[j]>> \in SortPairs(q, R)
      /\ \A i, j \in 1..Cardinality(R) : Arranged(R, SortPairs(q, R))[i] = Arranged(R, SortPairs(q, R))[j] => i = j
      /\ \A x \in R : \E i \in 1..Cardinality(R) : Arranged(R, SortPairs(q, R))[i] = x
  BY <1>1, <1>3, ArrangedOrders
<1>5. QED
  BY <1>1, <1>2, <1>4

\* What the results of a query are before DISTINCT.
Matches(q) == Joined(q, Selected(q))
Rows0(q) == Projected(q, Sorted(q, Matches(q)))

\* The results are the matching found in their order, in shape, and once each if distinct.
LEMMA ProjectedRows ==
  ASSUME TableOK, NEW q, QueryOK(q)
  PROVE  /\ Matches(q) = Selected(q) /\ Selected(q) \in SUBSET table
         /\ Cardinality(Selected(q)) \in Nat
         /\ Rows0(q) = [i \in 1..Cardinality(Selected(q)) |-> Shape(q, Sorted(q, Selected(q))[i])]
         /\ Results(q) = IF q.distinct THEN Deduplicated(Rows0(q)) ELSE Rows0(q)
<1>1. Matches(q) = Selected(q) /\ Selected(q) \in SUBSET table
  BY DEF Matches, Joined, Selected
<1>2. /\ Cardinality(Selected(q)) \in Nat
      /\ DOMAIN Sorted(q, Selected(q)) = 1..Cardinality(Selected(q))
  BY <1>1, SortedRows
<1>3. Rows0(q) = [i \in 1..Cardinality(Selected(q)) |-> Shape(q, Sorted(q, Selected(q))[i])]
  BY <1>1, <1>2 DEF Rows0, Projected
<1>4. Results(q) = IF q.distinct THEN Deduplicated(Rows0(q)) ELSE Rows0(q)
  BY DEF Results, Rows0, Matches
<1>5. QED
  BY <1>1, <1>2, <1>3, <1>4

\* Where the results have their primary keys, no two are equal: DISTINCT changes nothing.
LEMMA ShapeKeyed ==
  ASSUME NEW q, QueryOK(q), "id" \in q.fields, NEW r \in Rows
  PROVE  "id" \in DOMAIN Shape(q, r) /\ Shape(q, r).id = r.id
<1>1. "id" # "joined"
  OBVIOUS
<1>2. QED
  BY <1>1 DEF Shape

\* Results that have the primary key are no two the same: DISTINCT takes none away.
LEMMA KeyedResults ==
  ASSUME TableOK, NEW q, QueryOK(q), "id" \in q.fields
  PROVE  /\ Results(q) = Rows0(q)
         /\ \A i \in 1..Cardinality(Selected(q)) :
              "id" \in DOMAIN Results(q)[i] /\ Results(q)[i].id = Sorted(q, Selected(q))[i].id
<1> DEFINE n == Cardinality(Selected(q))
           s == Sorted(q, Selected(q))
<1>1. /\ n \in Nat /\ Rows0(q) = [i \in 1..n |-> Shape(q, s[i])]
      /\ Selected(q) \in SUBSET table
      /\ Results(q) = IF q.distinct THEN Deduplicated(Rows0(q)) ELSE Rows0(q)
  BY ProjectedRows
<1>2. /\ \A i \in 1..n : s[i] \in table /\ s[i] \in Rows
      /\ \A i, j \in 1..n : s[i] = s[j] => i = j
  BY <1>1, SortedRows DEF TableOK
<1> HIDE DEF n, s
<1>3. \A i \in 1..n : "id" \in DOMAIN Rows0(q)[i] /\ Rows0(q)[i].id = s[i].id
  BY <1>1, <1>2, ShapeKeyed
<1>4. \A i, j \in 1..n : Rows0(q)[i] = Rows0(q)[j] => i = j
  BY <1>2, <1>3 DEF TableOK
<1>5. {i \in DOMAIN Rows0(q) : \A j \in 1..(i - 1) : Rows0(q)[j] # Rows0(q)[i]} = 1..n
  <2>1. DOMAIN Rows0(q) = 1..n
    BY <1>1
  <2>2. ASSUME NEW i \in 1..n, NEW j \in 1..(i - 1) PROVE Rows0(q)[j] # Rows0(q)[i]
    <3>1. j \in 1..n /\ j # i
      BY <1>1
    <3>2. QED
      BY <1>4, <3>1
  <2>3. QED
    BY <2>1, <2>2
<1>6. Deduplicated(Rows0(q)) = Rows0(q)
  <2>1. Rows0(q) = [i \in 1..n |-> Rows0(q)[i]]
    BY <1>1
  <2>2. QED
    BY <1>1, <1>5, <2>1, KeptAll DEF Deduplicated
<1>7. QED
  BY <1>1, <1>3, <1>6 DEF n, s

-----------------------------------------------------------------------------
(* Windows *)

\* A window's found are those of the results from its offset on, and no more than its limit.
WindowEnd(q, n) == IF q.limit = Unset \/ n < q.offset + q.limit THEN n ELSE q.offset + q.limit
\* LIMIT and OFFSET, of a sequence.
LEMMA WindowIs ==
  ASSUME NEW q, QueryOK(q), NEW n \in Nat, NEW s, s = [i \in 1..n |-> s[i]]
  PROVE  /\ WindowEnd(q, n) \in Nat
         /\ Window(q, s) = SubSeq(s, q.offset + 1, WindowEnd(q, n))
         /\ q.offset = 0 /\ q.limit = Unset => Window(q, s) = s
<1>1. Len(s) = n
  OBVIOUS
<1>2. q.offset \in Nat /\ q.limit \in Nat \cup {Unset} /\ Unset \notin Nat
  BY DEF QueryOK, Unset
<1>3. WindowEnd(q, n) \in Nat
  BY <1>2 DEF WindowEnd
<1>4. Window(q, s) = SubSeq(s, q.offset + 1, WindowEnd(q, n))
  <2> DEFINE last == IF q.limit = Unset THEN Len(s) ELSE q.offset + q.limit
  <2>1. (IF last < Len(s) THEN last ELSE Len(s)) = WindowEnd(q, n)
    BY <1>1, <1>2 DEF WindowEnd
  <2>2. Window(q, s) = SubSeq(s, q.offset + 1, IF last < Len(s) THEN last ELSE Len(s))
    BY DEF Window
  <2>3. QED
    BY <2>1, <2>2
<1>5. ASSUME q.offset = 0, q.limit = Unset PROVE Window(q, s) = s
  <2>1. Window(q, s) = SubSeq(s, 1, n)
    BY <1>1, <1>5 DEF Window
  <2>2. SubSeq(s, 1, n) = [i \in 1..n |-> s[i]]
    OBVIOUS
  <2>3. QED
    BY <2>1, <2>2
<1>6. QED
  BY <1>3, <1>4, <1>5

-----------------------------------------------------------------------------
(* A page *)

Goes(down, a, b) == IF down THEN b < a ELSE a < b
Asked(down, cursor) == Limit(After(qs, cursor, down), PageSize + 1)
Beyond(down, cursor) == {k \in IdsOf(Selected(qs)) : cursor # Undefined => Goes(down, cursor, k)}

\* What page() asks for: the found beyond the cursor, by primary key, one more than a page.
LEMMA AskedTyped ==
  ASSUME QueryOK(qs), NEW down \in BOOLEAN, NEW cursor
  PROVE  /\ QueryOK(Asked(down, cursor))
         /\ Asked(down, cursor).ordering = <<[attr |-> "id", desc |-> down]>>
         /\ Asked(down, cursor).limit = PageSize + 1 /\ Asked(down, cursor).offset = qs.offset
         /\ Asked(down, cursor).fields = qs.fields /\ Asked(down, cursor).ranked = qs.ranked
         /\ Asked(down, cursor).excludes = qs.excludes
         /\ Asked(down, cursor).filters =
              qs.filters \cup (IF cursor = Undefined THEN {} ELSE {Comparison(IF down THEN "lt" ELSE "gt", cursor)})
<1> DEFINE more == IF cursor = Undefined THEN {} ELSE {Comparison(IF down THEN "lt" ELSE "gt", cursor)}
           o == <<[attr |-> "id", desc |-> down]>>
           q == Asked(down, cursor)
<1>1. o \in Sorts
  BY DEF Sorts, Sortable
<1>2. PageSize + 1 \in Nat
  BY QueryConstants DEF QueryConstants
<1>3. q = [qs EXCEPT !.ordering = o, !.filters = qs.filters \cup more, !.limit = PageSize + 1]
  <2>1. After(qs, cursor, down) = [qs EXCEPT !.ordering = o, !.filters = qs.filters \cup more]
    BY DEF After, QueryOK
  <2>2. q = [After(qs, cursor, down) EXCEPT !.limit = PageSize + 1]
    BY DEF Asked, Limit
  <2> HIDE DEF o, more, q
  <2>3. QED
    BY <2>1, <2>2 DEF QueryOK
<1> HIDE DEF o, more, q
<1>4. /\ QueryOK(q) /\ q.ordering = o /\ q.limit = PageSize + 1 /\ q.offset = qs.offset
      /\ q.fields = qs.fields /\ q.ranked = qs.ranked /\ q.excludes = qs.excludes
      /\ q.filters = qs.filters \cup more
  BY <1>1, <1>2, <1>3 DEF QueryOK
<1>5. QED
  BY <1>4 DEF o, more, q

\* page() asks for the found beyond the cursor.
LEMMA AskedSelects ==
  ASSUME TableOK, QueryOK(qs), NEW down \in BOOLEAN, NEW cursor \in IdsOf(Rows) \cup {Undefined}
  PROVE  IdsOf(Selected(Asked(down, cursor))) = Beyond(down, cursor)
<1> DEFINE q == Asked(down, cursor)
           c == Comparison(IF down THEN "lt" ELSE "gt", cursor)
<1>1. /\ q.excludes = qs.excludes
      /\ q.filters = qs.filters \cup (IF cursor = Undefined THEN {} ELSE {c})
  BY AskedTyped
<1>2. cursor # Undefined => /\ ~Vacuous(c)
                           /\ \A r \in table : Verdict(dialect, table, r, c) = "true" <=> Goes(down, cursor, r.id)
  <2>1. cursor # Undefined => cursor \in {r.id : r \in Rows}
    BY DEF IdsOf
  <2>2. dialect \in Dialects /\ table \in SUBSET Rows
    BY DEF TableOK
  <2>3. CASE down
    BY <2>1, <2>2, <2>3, CursorsCompare DEF CursorsCompare, Goes
  <2>4. CASE ~down
    <3>1. ASSUME cursor # Undefined
          PROVE  /\ ~Vacuous(Comparison("gt", cursor))
                 /\ \A r \in table : Verdict(dialect, table, r, Comparison("gt", cursor)) = "true" <=> r.id > cursor
      BY <2>1, <2>2, <3>1, CursorsCompare DEF CursorsCompare
    <3>2. QED
      BY <2>4, <3>1 DEF Goes
  <2>5. QED
    BY <2>3, <2>4
<1> HIDE DEF q, c
<1>3. Where(q) = Where(qs) \cup (IF cursor = Undefined THEN {} ELSE {c})
  BY <1>1, <1>2 DEF Where
<1>4. Selected(q) = {r \in Selected(qs) : cursor # Undefined => Goes(down, cursor, r.id)}
  BY <1>2, <1>3 DEF Selected
<1>5. QED
  BY <1>4 DEF IdsOf, Beyond, q

\* Its found come in the order of their keys.
LEMMA AskedOrder ==
  ASSUME TableOK, QueryOK(qs), qs.ranked = Undefined, NEW down \in BOOLEAN, NEW cursor,
         NEW a \in Rows, NEW b \in Rows
  PROVE  LET q == Asked(down, cursor)
         IN Before(SortKey(q, a), SortKey(q, b), a, b) => Goes(down, a.id, b.id)
<1> DEFINE q == Asked(down, cursor)
           Part(r) == IF down THEN -r.id ELSE r.id
<1>1. q.ordering = <<[attr |-> "id", desc |-> down]>> /\ q.ranked = Undefined
  BY AskedTyped
<1>2. EffectiveOrdering(q) = <<[attr |-> "id", desc |-> down]>>
  BY <1>1 DEF EffectiveOrdering, NoOrdering
<1> HIDE DEF q
<1>3. ASSUME NEW r \in Rows PROVE r.id \in Int /\ SortKey(q, r) = <<Part(r)>>
  <2>1. r.id \in Int /\ SortValue(r.id) = r.id
    BY RowsKeyed, QueryConstants DEF RowsKeyed, QueryConstants, SortValue
  <2>2. SortKey(q, r) = <<>> \o [i \in 1..1 |-> Part(r)]
    BY <1>1, <1>2, <2>1 DEF SortKey
  <2>3. <<>> \o [i \in 1..1 |-> Part(r)] = <<Part(r)>>
    OBVIOUS
  <2>4. QED
    BY <2>1, <2>2, <2>3
<1>4. ASSUME Before(SortKey(q, a), SortKey(q, b), a, b) PROVE Goes(down, a.id, b.id)
  <2>1. Part(a) < Part(b) \/ (<<Part(a)>> = <<Part(b)>> /\ a.id < b.id)
    BY <1>3, <1>4 DEF Before
  <2>2. QED
    BY <1>3, <2>1 DEF Goes
<1>5. QED
  BY <1>4 DEF q

\* A page is the beginning of what is beyond the cursor.
FirstBeyond(down, cursor) ==
  LET found == Execute(Asked(down, cursor))
      page == UpTo(found, PageSize)
      rest == Beyond(down, cursor)
  IN  \E n \in Nat : \E keys \in [1..n -> rest] :
        /\ \A i, j \in 1..n : i < j => Goes(down, keys[i], keys[j])
        /\ \A k \in rest : \E i \in 1..n : keys[i] = k
        /\ DOMAIN page = 1..(IF n < PageSize THEN n ELSE PageSize)
        /\ \A i \in DOMAIN page : page[i].id = keys[i]
        /\ Len(found) > PageSize <=> n > PageSize
        /\ n > PageSize => Cursor(page[PageSize]) = keys[PageSize]
\* page() returns the beginning of what lies beyond the cursor, and its cursor is the last of it.
LEMMA PageShown ==
  ASSUME TableOK, QueryOK(qs), "id" \in qs.fields, qs.ranked = Undefined, qs.offset = 0,
         NEW down \in BOOLEAN, NEW cursor \in IdsOf(Rows) \cup {Undefined}
  PROVE  FirstBeyond(down, cursor)
<1> DEFINE q == Asked(down, cursor)
           R == Selected(q)
           n == Cardinality(R)
           s == Sorted(q, R)
           keys == [i \in 1..n |-> s[i].id]
           rest == Beyond(down, cursor)
           found == Execute(q)
           page == UpTo(found, PageSize)
           m == IF n < PageSize + 1 THEN n ELSE PageSize + 1
           l == IF n < PageSize THEN n ELSE PageSize
<1>1. /\ QueryOK(q) /\ q.limit = PageSize + 1 /\ q.offset = 0 /\ "id" \in q.fields
      /\ PageSize \in Nat \ {0}
  <2>1. /\ QueryOK(Asked(down, cursor)) /\ Asked(down, cursor).limit = PageSize + 1
        /\ Asked(down, cursor).offset = qs.offset /\ Asked(down, cursor).fields = qs.fields
    BY AskedTyped
  <2>2. PageSize \in Nat \ {0}
    BY QueryConstants DEF QueryConstants
  <2>3. QED
    BY <2>1, <2>2
<1>2. IdsOf(R) = rest
  BY AskedSelects
<1>3. /\ R \in SUBSET table /\ n \in Nat
      /\ Results(q) = [i \in 1..n |-> Shape(q, s[i])]
      /\ \A i \in 1..n : "id" \in DOMAIN Results(q)[i] /\ Results(q)[i].id = s[i].id
  BY <1>1, ProjectedRows, KeyedResults
<1>4. /\ s \in [1..n -> R]
      /\ \A i, j \in 1..n : i < j <=> <<s[i], s[j]>> \in SortPairs(q, R)
      /\ \A r \in R : \E i \in 1..n : s[i] = r
  <2> HIDE DEF q, R
  <2>1. /\ Sorted(q, R) \in [1..Cardinality(R) -> R]
        /\ \A i, j \in 1..Cardinality(R) : i < j <=> <<Sorted(q, R)[i], Sorted(q, R)[j]>> \in SortPairs(q, R)
        /\ \A r \in R : \E i \in 1..Cardinality(R) : Sorted(q, R)[i] = r
    BY <1>1, <1>3, SortedRows
  <2>2. QED
    BY <2>1
<1>5. \A a, b \in R : <<a, b>> \in SortPairs(q, R) => Goes(down, a.id, b.id)
  <2>1. R \in SUBSET Rows
    BY <1>3 DEF TableOK
  <2>2. ASSUME NEW a \in R, NEW b \in R, Before(SortKey(q, a), SortKey(q, b), a, b)
        PROVE  Goes(down, a.id, b.id)
    BY <2>1, <2>2, AskedOrder
  <2> HIDE DEF R, q
  <2>3. QED
    BY <2>2 DEF SortPairs
<1>6. found = Window(q, Results(q))
  BY DEF Execute
<1> HIDE DEF q, R, n, s, rest, found
<1>7. keys \in [1..n -> rest]
  <2>1. \A i \in 1..n : s[i].id \in rest
    BY <1>2, <1>4 DEF IdsOf
  <2>2. QED
    BY <2>1
<1>8. \A i, j \in 1..n : i < j => Goes(down, keys[i], keys[j])
  BY <1>4, <1>5
<1>9. \A k \in rest : \E i \in 1..n : keys[i] = k
  <2>1. ASSUME NEW k \in rest PROVE \E i \in 1..n : keys[i] = k
    <3>1. PICK r \in R : r.id = k
      BY <1>2, <2>1 DEF IdsOf
    <3>2. PICK i \in 1..n : s[i] = r
      BY <1>4
    <3>3. QED
      BY <3>1, <3>2
  <2>2. QED
    BY <2>1
<1>10. /\ DOMAIN found = 1..m /\ Len(found) = m
       /\ \A i \in 1..m : found[i] = Results(q)[i]
  <2>1. WindowEnd(q, n) = m
    BY <1>1, <1>3 DEF WindowEnd, Unset
  <2>2. found = SubSeq(Results(q), 1, m)
    <3>1. Results(q) = [i \in 1..n |-> Results(q)[i]]
      BY <1>3
    <3>2. Window(q, Results(q)) = SubSeq(Results(q), q.offset + 1, WindowEnd(q, n))
      BY <1>1, <1>3, <3>1, WindowIs
    <3>3. QED
      BY <1>1, <1>6, <2>1, <3>2
  <2>3. SubSeq(Results(q), 1, m) = [i \in 1..m |-> Results(q)[i]]
    BY <1>1, <1>3
  <2>4. m \in Nat
    BY <1>1, <1>3
  <2> HIDE DEF m
  <2>5. QED
    BY <2>2, <2>3, <2>4
<1>11. page = [i \in 1..l |-> found[i]]
  <2>1. page = SubSeq(found, 1, IF PageSize < m THEN PageSize ELSE m)
    BY <1>10 DEF UpTo
  <2>2. (IF PageSize < m THEN PageSize ELSE m) = l
    BY <1>1, <1>3
  <2>3. l \in Nat
    BY <1>1, <1>3
  <2>4. page = SubSeq(found, 1, l)
    BY <2>1, <2>2
  <2> HIDE DEF l
  <2>5. QED
    BY <2>3, <2>4
<1>12. \A i \in 1..l : i \in 1..m /\ i \in 1..n
  BY <1>1, <1>3
<1>13. /\ DOMAIN page = 1..l
       /\ \A i \in 1..l : "id" \in DOMAIN page[i] /\ page[i].id = keys[i]
  <2> HIDE DEF page, l
  <2>1. QED
    BY <1>3, <1>10, <1>11, <1>12
<1>14. Len(found) > PageSize <=> n > PageSize
  BY <1>1, <1>3, <1>10
<1>15. n > PageSize => Cursor(page[PageSize]) = keys[PageSize]
  <2>1. n > PageSize => PageSize \in 1..l
    BY <1>1, <1>3
  <2> HIDE DEF page, l, keys
  <2>2. QED
    BY <1>13, <2>1 DEF Cursor
<1> HIDE DEF page, keys
<1>16. QED
  BY <1>3, <1>7, <1>8, <1>9, <1>13, <1>14, <1>15 DEF l, q, rest, found, page, FirstBeyond
-----------------------------------------------------------------------------
(* Steps keep the types *)

LEMMA SelectedTyped ==
  ASSUME TableOK, NEW q
  PROVE  IdsOf(Selected(q)) \in SUBSET IdsOf(Rows)
BY DEF Selected, TableOK, IdsOf

\* While somebody pages: the found keep their keys and their order is that of the keys, the cursor
\* is where what was shown ends, and matching is what the queryset selects by now.
WalkOn ==
  walk.pc = "on" =>
    /\ "id" \in qs.fields /\ qs.ranked = Undefined /\ qs.offset = 0
    /\ walk.matching = IdsOf(Selected(qs))
    /\ IF walk.cursor = Undefined THEN walk.seen = <<>>
       ELSE /\ \E i \in DOMAIN walk.seen : walk.seen[i] = walk.cursor
            /\ \A i \in DOMAIN walk.seen : walk.seen[i] = walk.cursor \/ Goes(walk.desc, walk.seen[i], walk.cursor)
QueryInv == QueryTypeOK /\ WalkOn /\ (walk.pc = "off" => walk.seen = <<>>)

KeyPart(page) == {page[i] : i \in DOMAIN page}

\* What NextPage does, with a page as its keys.
Turned(m, page, rest) ==
  /\ walk' = [walk EXCEPT !.seen = @ \o page, !.pc = walk'.pc, !.cursor = walk'.cursor]
  /\ \A i, j \in 1..m : i < j => Goes(walk.desc, page[i], page[j])
  /\ \A i \in 1..m, k \in rest \ KeyPart(page) : Goes(walk.desc, page[i], k)
  /\ \/ walk'.pc = "over" /\ walk'.cursor = Undefined /\ rest \ KeyPart(page) = {}
     \/ walk'.pc = "on" /\ m = PageSize /\ walk'.cursor = page[m] /\ rest \ KeyPart(page) # {}

\* A page, as its caller sees it.
LEMMA NextTurn ==
  ASSUME QueryInv, NextPage
  PROVE  /\ Beyond(walk.desc, walk.cursor) \in SUBSET IdsOf(Rows) /\ IdsOf(Rows) \in SUBSET Int
         /\ \E m \in 0..PageSize : \E page \in [1..m -> Beyond(walk.desc, walk.cursor)] :
              Turned(m, page, Beyond(walk.desc, walk.cursor))
<1> DEFINE found == Execute(Asked(walk.desc, walk.cursor))
           upTo == UpTo(found, PageSize)
           rest == Beyond(walk.desc, walk.cursor)
<1>1. /\ TableOK /\ QueryOK(qs) /\ WalkOK /\ PageSize \in Nat \ {0}
      /\ "id" \in qs.fields /\ qs.ranked = Undefined /\ qs.offset = 0
  BY QueryConstants DEF QueryInv, QueryTypeOK, WalkOn, NextPage, QueryConstants
<1>2. walk.desc \in BOOLEAN /\ walk.cursor \in IdsOf(Rows) \cup {Undefined}
  BY <1>1 DEF WalkOK
<1>3. rest \in SUBSET IdsOf(Rows) /\ IdsOf(Rows) \in SUBSET Int
  <2>1. IdsOf(Selected(qs)) \in SUBSET IdsOf(Rows)
    BY <1>1, SelectedTyped
  <2>2. IdsOf(Rows) \in SUBSET Int
    BY RowsKeyed DEF RowsKeyed, IdsOf
  <2>3. QED
    BY <2>1, <2>2 DEF Beyond
<1>4. PICK n \in Nat : \E keys \in [1..n -> rest] :
        /\ \A i, j \in 1..n : i < j => Goes(walk.desc, keys[i], keys[j])
        /\ \A k \in rest : \E i \in 1..n : keys[i] = k
        /\ DOMAIN upTo = 1..(IF n < PageSize THEN n ELSE PageSize)
        /\ \A i \in DOMAIN upTo : upTo[i].id = keys[i]
        /\ Len(found) > PageSize <=> n > PageSize
        /\ n > PageSize => Cursor(upTo[PageSize]) = keys[PageSize]
  <2>1. FirstBeyond(walk.desc, walk.cursor)
    BY <1>1, <1>2, PageShown
  <2>2. QED
    BY <2>1 DEF FirstBeyond
<1>5. PICK keys \in [1..n -> rest] :
        /\ \A i, j \in 1..n : i < j => Goes(walk.desc, keys[i], keys[j])
        /\ \A k \in rest : \E i \in 1..n : keys[i] = k
        /\ DOMAIN upTo = 1..(IF n < PageSize THEN n ELSE PageSize)
        /\ \A i \in DOMAIN upTo : upTo[i].id = keys[i]
        /\ Len(found) > PageSize <=> n > PageSize
        /\ n > PageSize => Cursor(upTo[PageSize]) = keys[PageSize]
  BY <1>4
<1>6. walk' = [walk EXCEPT !.seen = @ \o [i \in DOMAIN upTo |-> upTo[i].id],
                 !.pc = IF Len(found) > PageSize THEN "on" ELSE "over",
                 !.cursor = IF Len(found) > PageSize THEN Cursor(upTo[PageSize]) ELSE Undefined]
  BY DEF NextPage, Asked
<1> HIDE DEF found, upTo, rest
<1> DEFINE m == IF n < PageSize THEN n ELSE PageSize
           page == [i \in 1..m |-> keys[i]]
<1>7. m \in 0..PageSize /\ m \in 0..n /\ (n > PageSize => m = PageSize) /\ (n <= PageSize => m = n)
  BY <1>1
<1>8. [i \in DOMAIN upTo |-> upTo[i].id] = page
  BY <1>5
<1> HIDE DEF m
<1>9. page \in [1..m -> rest] /\ KeyPart(page) = {keys[i] : i \in 1..m}
  BY <1>7 DEF KeyPart
<1>10. \A i, j \in 1..m : i < j => Goes(walk.desc, page[i], page[j])
  BY <1>5, <1>7
<1>11. ASSUME NEW i \in 1..m, NEW k \in rest \ KeyPart(page) PROVE Goes(walk.desc, page[i], k)
  <2>1. PICK j \in 1..n : keys[j] = k
    BY <1>5
  <2>2. j \notin 1..m
    BY <1>9, <2>1
  <2>3. i \in 1..n /\ i < j
    BY <1>7, <2>2
  <2>4. QED
    BY <1>5, <2>1, <2>3
<1>12. CASE n > PageSize
  <2>1. walk'.pc = "on" /\ walk'.cursor = keys[PageSize] /\ m = PageSize
    BY <1>1, <1>5, <1>6, <1>7, <1>12 DEF WalkOK
  <2>2. page[m] = keys[PageSize]
    BY <1>1, <2>1
  <2>3. PageSize + 1 \in 1..n /\ keys[PageSize + 1] \in rest
    BY <1>1, <1>12
  <2>4. ASSUME NEW i \in 1..m PROVE keys[i] # keys[PageSize + 1]
    <3>1. i \in 1..n /\ i < PageSize + 1
      BY <1>1, <1>7, <2>1
    <3>2. Goes(walk.desc, keys[i], keys[PageSize + 1]) /\ keys[i] \in Int
      BY <1>3, <1>5, <2>3, <3>1
    <3>3. QED
      BY <3>2 DEF Goes
  <2>5. keys[PageSize + 1] \in rest \ KeyPart(page)
    BY <1>9, <2>3, <2>4
  <2>6. walk' = [walk EXCEPT !.seen = @ \o page, !.pc = walk'.pc, !.cursor = walk'.cursor]
    BY <1>1, <1>6, <1>8 DEF WalkOK
  <2> HIDE DEF page
  <2>7. Turned(m, page, rest)
    BY <1>10, <1>11, <2>1, <2>2, <2>5, <2>6 DEF Turned
  <2>8. QED
    BY <1>3, <1>7, <1>9, <2>7 DEF rest
<1>13. CASE ~(n > PageSize)
  <2>1. walk'.pc = "over" /\ walk'.cursor = Undefined /\ m = n
    BY <1>1, <1>5, <1>6, <1>7, <1>13 DEF WalkOK
  <2>2. rest \ KeyPart(page) = {}
    BY <1>5, <1>9, <2>1
  <2>3. walk' = [walk EXCEPT !.seen = @ \o page, !.pc = walk'.pc, !.cursor = walk'.cursor]
    BY <1>1, <1>6, <1>8 DEF WalkOK
  <2> HIDE DEF page
  <2>4. Turned(m, page, rest)
    BY <1>10, <1>11, <2>1, <2>2, <2>3 DEF Turned
  <2>5. QED
    BY <1>3, <1>7, <1>9, <2>4 DEF rest
<1>14. QED
  BY <1>12, <1>13

\* Every step keeps the types.
LEMMA TypesStep ==
  ASSUME QueryInv, [QueryNext]_queryVars
  PROVE  QueryTypeOK'
<1> USE DEF QueryTypeOK, QueryInv
<1>1. CASE Chain
  <2>1. QueryOK(qs')
    BY <1>1, DerivedTyped DEF Chain
  <2>2. chained' \in 0..MaxChain
    BY <1>1, QueryConstants DEF Chain, QueryConstants
  <2>3. QED
    BY <1>1, <2>1, <2>2 DEF Chain, TableOK, WalkOK
<1>2. CASE ListRequest
  <2>1. QueryOK(qs')
    BY <1>2, RequestTyped DEF ListRequest
  <2>2. chained' \in 0..MaxChain
    BY <1>2, QueryConstants DEF ListRequest, QueryConstants
  <2>3. QED
    BY <1>2, <2>1, <2>2 DEF ListRequest, TableOK, WalkOK
<1>3. CASE StartWalk
  <2>1. WalkOK'
    <3>1. IdsOf(Selected(qs)) \in SUBSET IdsOf(Rows) /\ <<>> \in Seq(IdsOf(Rows))
      BY SelectedTyped
    <3>2. PICK down \in BOOLEAN : walk' = [pc |-> "on", cursor |-> Undefined, seen |-> <<>>, desc |-> down,
                                          matching |-> IdsOf(Selected(qs)), steady |-> IdsOf(Selected(qs))]
      BY <1>3 DEF StartWalk, NoWalk
    <3>3. QED
      BY <3>1, <3>2 DEF WalkOK
  <2>2. QED
    BY <1>3, <2>1 DEF StartWalk, TableOK, QueryOK
<1>4. CASE NextPage
  <2>1. WalkOK'
    <3>1. /\ Beyond(walk.desc, walk.cursor) \in SUBSET IdsOf(Rows)
          /\ \E m \in 0..PageSize : \E page \in [1..m -> Beyond(walk.desc, walk.cursor)] :
               Turned(m, page, Beyond(walk.desc, walk.cursor))
      BY <1>4, NextTurn
    <3>2. PICK m \in 0..PageSize : \E page \in [1..m -> IdsOf(Rows)] :
            Turned(m, page, Beyond(walk.desc, walk.cursor))
      BY <3>1
    <3>3. PICK page \in [1..m -> IdsOf(Rows)] : Turned(m, page, Beyond(walk.desc, walk.cursor))
      BY <3>2
    <3>4. page \in Seq(IdsOf(Rows)) /\ m \in Nat
      BY QueryConstants, SeqDef DEF QueryConstants
    <3>5. walk'.pc \in {"on", "over"} /\ walk'.cursor \in IdsOf(Rows) \cup {Undefined}
      BY <3>3, <3>4, QueryConstants DEF Turned, QueryConstants
    <3>6. walk.seen \o page \in Seq(IdsOf(Rows))
      BY <3>4, ConcatProperties DEF WalkOK
    <3>7. walk' = [walk EXCEPT !.seen = @ \o page, !.pc = walk'.pc, !.cursor = walk'.cursor]
      BY <3>3 DEF Turned
    <3>8. QED
      BY <3>5, <3>6, <3>7 DEF WalkOK
  <2>2. QED
    BY <1>4, <2>1 DEF NextPage, TableOK, QueryOK
<1>5. CASE InsertRow
  <2>1. TableOK'
    <3>1. PICK r \in NewRows : r.id \notin {s.id : s \in table} /\ table' = table \cup {r}
      BY <1>5 DEF InsertRow
    <3>2. IsFiniteSet(table \cup {r})
      BY FS_AddElement DEF TableOK
    <3>3. dialect' \in Dialects /\ table' \subseteq Rows /\ IsFiniteSet(table')
      <4>1. r \in Rows
        BY <3>1 DEF Rows
      <4>2. QED
        BY <1>5, <3>1, <3>2, <4>1 DEF InsertRow, TableOK
    <3>4. \A a, b \in table' : a.id = b.id => a = b
      BY <3>1 DEF TableOK
    <3>5. QED
      BY <3>3, <3>4 DEF TableOK
  <2>2. WalkOK'
    <3>1. IdsOf(Selected(qs))' \in SUBSET IdsOf(Rows)
      BY <1>5, <2>1 DEF InsertRow, Selected, TableOK, IdsOf
    <3>2. QED
      BY <1>5, <3>1 DEF InsertRow, Rematched, WalkOK
  <2>3. QED
    BY <1>5, <2>1, <2>2 DEF InsertRow, QueryOK
<1>6. CASE DeleteRow
  <2>1. TableOK'
    BY <1>6, FS_RemoveElement DEF DeleteRow, TableOK
  <2>2. WalkOK'
    <3>1. IdsOf(Selected(qs))' \in SUBSET IdsOf(Rows)
      BY <1>6, <2>1 DEF DeleteRow, Selected, TableOK, IdsOf
    <3>2. QED
      BY <1>6, <3>1 DEF DeleteRow, Rematched, WalkOK
  <2>3. QED
    BY <1>6, <2>1, <2>2 DEF DeleteRow, QueryOK
<1>7. CASE UNCHANGED queryVars
  BY <1>7 DEF queryVars, TableOK, QueryOK, WalkOK
<1>8. QED
  BY <1>1, <1>2, <1>3, <1>4, <1>5, <1>6, <1>7 DEF QueryNext

\* Every step keeps WalkOn.
LEMMA WalkStep ==
  ASSUME QueryInv, [QueryNext]_queryVars
  PROVE  WalkOn'
<1> USE DEF QueryInv, QueryTypeOK
<1>1. CASE Chain \/ ListRequest
  BY <1>1 DEF Chain, ListRequest, WalkOn
<1>2. CASE StartWalk
  <2>1. PICK down \in BOOLEAN : walk' = [pc |-> "on", cursor |-> Undefined, seen |-> <<>>, desc |-> down,
                                        matching |-> IdsOf(Selected(qs)), steady |-> IdsOf(Selected(qs))]
    BY <1>2 DEF StartWalk, NoWalk
  <2>2. IdsOf(Selected(qs))' = IdsOf(Selected(qs))
    BY <1>2 DEF StartWalk, IdsOf, Selected
  <2>3. QED
    BY <1>2, <2>1, <2>2 DEF StartWalk, Pageable, WalkOn
<1>3. CASE NextPage
  <2> DEFINE rest == Beyond(walk.desc, walk.cursor)
  <2>1. /\ rest \in SUBSET IdsOf(Rows) /\ IdsOf(Rows) \in SUBSET Int
        /\ \E m \in 0..PageSize : \E page \in [1..m -> rest] : Turned(m, page, rest)
    BY <1>3, NextTurn
  <2>2. rest = {k \in walk.matching : walk.cursor # Undefined => Goes(walk.desc, walk.cursor, k)}
    BY <1>3 DEF WalkOn, NextPage, Beyond
  <2> HIDE DEF rest
  <2>3. PICK m \in 0..PageSize : \E page \in [1..m -> rest] : Turned(m, page, rest)
    BY <2>1
  <2>4. PICK page \in [1..m -> rest] : Turned(m, page, rest)
    BY <2>3
  <2>5. SUFFICES ASSUME walk'.pc = "on"
                 PROVE  /\ walk'.cursor \in Int
                        /\ \E i \in DOMAIN walk'.seen : walk'.seen[i] = walk'.cursor
                        /\ \A i \in DOMAIN walk'.seen :
                             walk'.seen[i] = walk'.cursor \/ Goes(walk'.desc, walk'.seen[i], walk'.cursor)
    <3>1. walk'.matching = walk.matching /\ walk.matching = IdsOf(Selected(qs))
      BY <1>3, <2>4 DEF Turned, WalkOK, WalkOn, NextPage
    <3>2. IdsOf(Selected(qs))' = IdsOf(Selected(qs))
      BY <1>3 DEF NextPage, IdsOf, Selected
    <3>3. walk'.pc = "on" => walk'.cursor # Undefined
      BY <2>5, QueryConstants DEF QueryConstants
    <3>4. QED
      BY <1>3, <2>5, <3>1, <3>2, <3>3 DEF NextPage, WalkOn
  <2>6. /\ PageSize \in Nat \ {0} /\ m = PageSize /\ m \in Nat /\ m \in 1..m /\ walk'.cursor = page[m]
        /\ \A i \in 1..m : page[i] \in rest
        /\ \A i, j \in 1..m : i < j => Goes(walk.desc, page[i], page[j])
        /\ walk'.seen = walk.seen \o page /\ walk'.desc = walk.desc
    <3>1. PageSize \in Nat \ {0}
      BY QueryConstants DEF QueryConstants
    <3>2. m = PageSize /\ walk'.cursor = page[m] /\ \A i, j \in 1..m : i < j => Goes(walk.desc, page[i], page[j])
      BY <2>4, <2>5 DEF Turned
    <3>3. m \in Nat /\ m \in 1..m
      BY <3>1, <3>2
    <3>4. walk' = [walk EXCEPT !.seen = @ \o page, !.pc = walk'.pc, !.cursor = walk'.cursor]
      BY <2>4 DEF Turned
    <3>5. walk'.seen = walk.seen \o page /\ walk'.desc = walk.desc
      BY <3>4 DEF WalkOK
    <3>6. \A i \in 1..m : page[i] \in rest
      BY <2>4
    <3>7. QED
      BY <3>1, <3>2, <3>3, <3>5, <3>6
  <2>7. /\ walk.seen \in Seq(IdsOf(Rows)) /\ Len(walk.seen) \in Nat /\ DOMAIN walk.seen = 1..Len(walk.seen)
        /\ \A i \in DOMAIN walk.seen : walk.seen[i] \in Int
    BY <2>1, LenProperties, ElementOfSeq DEF WalkOK
  <2>8. /\ page \in Seq(IdsOf(Rows)) /\ Len(page) = m
        /\ \A i \in 1..m : page[i] \in Int
    BY <2>1, <2>6, SeqDef
  <2> DEFINE l == Len(walk.seen)
             seen == walk.seen \o page
  <2>9. /\ DOMAIN seen = 1..(l + m) /\ l \in Nat
        /\ \A i \in 1..(l + m) : seen[i] = IF i <= l THEN walk.seen[i] ELSE page[i - l]
    <3>1. /\ seen \in Seq(IdsOf(Rows)) /\ Len(seen) = l + Len(page)
          /\ \A i \in 1..(l + Len(page)) : seen[i] = IF i <= l THEN walk.seen[i] ELSE page[i - l]
      <4>1. walk.seen \in Seq(IdsOf(Rows)) /\ page \in Seq(IdsOf(Rows))
        BY <2>7, <2>8
      <4>2. walk.seen \o page \in Seq(IdsOf(Rows)) /\ Len(walk.seen \o page) = Len(walk.seen) + Len(page)
        BY <4>1, ConcatProperties
      <4>3. \A i \in 1..(Len(walk.seen) + Len(page)) :
              (walk.seen \o page)[i] = IF i <= Len(walk.seen) THEN walk.seen[i] ELSE page[i - Len(walk.seen)]
        BY <4>1, ConcatProperties
      <4>4. QED
        BY <4>2, <4>3
    <3>2. DOMAIN seen = 1..Len(seen)
      BY <3>1, LenProperties
    <3>3. QED
      BY <2>7, <2>8, <3>1, <3>2
  <2>10. ASSUME NEW i \in 1..l PROVE Goes(walk.desc, walk.seen[i], page[m])
    <3>1. walk.cursor # Undefined /\ walk.cursor \in IdsOf(Rows)
      BY <1>3, <2>7, <2>9 DEF WalkOn, NextPage, WalkOK
    <3>2. Goes(walk.desc, walk.cursor, page[m]) /\ walk.cursor \in Int
      BY <2>1, <2>2, <2>6, <3>1
    <3>3. walk.seen[i] = walk.cursor \/ Goes(walk.desc, walk.seen[i], walk.cursor)
      BY <1>3, <2>7, <3>1 DEF WalkOn, NextPage
    <3>4. walk.seen[i] \in Int /\ page[m] \in Int
      BY <2>6, <2>7, <2>8
    <3>5. QED
      BY <3>2, <3>3, <3>4 DEF Goes
  <2> HIDE DEF seen, l
  <2>11. ASSUME NEW i \in 1..(l + m) PROVE seen[i] = page[m] \/ Goes(walk.desc, seen[i], page[m])
    <3>1. CASE i <= l
      BY <2>9, <2>10, <3>1
    <3>2. CASE ~(i <= l)
      <4>1. i - l \in 1..m /\ seen[i] = page[i - l]
        BY <2>6, <2>9, <3>2
      <4>2. i - l = m \/ i - l < m
        BY <2>6, <4>1
      <4>3. QED
        BY <2>6, <4>1, <4>2
    <3>3. QED
      BY <3>1, <3>2
  <2>12. l + m \in 1..(l + m) /\ seen[l + m] = page[m]
    BY <2>6, <2>9
  <2>13. QED
    BY <2>6, <2>8, <2>9, <2>11, <2>12 DEF seen
<1>4. CASE InsertRow \/ DeleteRow
  <2>1. /\ UNCHANGED qs
        /\ walk' = [walk EXCEPT !.matching = IdsOf(Selected(qs))', !.steady = @ \cap IdsOf(Selected(qs))']
        /\ walk.pc = "on"
    BY <1>4 DEF InsertRow, DeleteRow, Rematched
  <2>2. /\ walk'.matching = IdsOf(Selected(qs))' /\ walk'.seen = walk.seen /\ walk'.cursor = walk.cursor
        /\ walk'.desc = walk.desc
    BY <2>1 DEF WalkOK
  <2>3. QED
    BY <2>1, <2>2 DEF WalkOn
<1>5. CASE UNCHANGED queryVars
  <2>1. IdsOf(Selected(qs))' = IdsOf(Selected(qs))
    BY <1>5 DEF queryVars, IdsOf, Selected
  <2>2. QED
    BY <1>5, <2>1 DEF queryVars, WalkOn
<1>6. QED
  BY <1>1, <1>2, <1>3, <1>4, <1>5 DEF QueryNext

\* The first state.
LEMMA QueryStart == QueryInit => QueryInv
<1> SUFFICES ASSUME QueryInit PROVE QueryInv
  OBVIOUS
<1>1. TableOK
  BY RowsKeyed DEF QueryInit, TableOK, RowsKeyed, Rows
<1>2. QueryOK(qs)
  BY FirstState DEF QueryInit
<1>3. WalkOK /\ WalkOn
  BY DEF QueryInit, WalkOK, WalkOn, NoWalk
<1>4. chained \in 0..MaxChain
  BY QueryConstants DEF QueryInit, QueryConstants
<1>5. walk.seen = <<>>
  BY DEF QueryInit, NoWalk
<1>6. QED
  BY <1>1, <1>2, <1>3, <1>4, <1>5 DEF QueryInv, QueryTypeOK

(* A queryset's state, the table and a caller of page() keep their types, and while somebody   *)
(* pages, the cursor they hold is where what they have seen ends.                              *)
THEOREM QuerySafety == QuerySpec => []QueryInv
<1>1. QueryInv /\ [QueryNext]_queryVars => QueryInv'
  <2> SUFFICES ASSUME QueryInv, [QueryNext]_queryVars PROVE QueryInv'
    OBVIOUS
  <2>1. QueryTypeOK' /\ WalkOn'
    BY TypesStep, WalkStep
  <2>2. (walk.pc = "off" => walk.seen = <<>>)'
    <3>1. CASE NextPage
      <4>1. PICK m, page : Turned(m, page, Beyond(walk.desc, walk.cursor))
        BY <3>1, NextTurn
      <4>2. QED
        BY <4>1 DEF Turned
    <3>2. CASE StartWalk
      BY <3>2 DEF StartWalk, NoWalk
    <3>3. CASE InsertRow \/ DeleteRow
      BY <3>3 DEF InsertRow, DeleteRow, Rematched, QueryInv, QueryTypeOK, WalkOK
    <3>4. CASE Chain \/ ListRequest \/ UNCHANGED queryVars
      BY <3>4 DEF Chain, ListRequest, queryVars, QueryInv
    <3>5. QED
      BY <3>1, <3>2, <3>3, <3>4 DEF QueryNext
  <2>3. QED
    BY <2>1, <2>2 DEF QueryInv
<1>2. QED
  BY QueryStart, <1>1, PTL DEF QuerySpec

-----------------------------------------------------------------------------
(* Paging implements CursorPages *)

\* The first state, and each step, are CursorPages'.
LEMMA PagesStart == QueryInit => Pages!PagesInit
  BY DEF QueryInit, Pages!PagesInit, NoWalk

LEMMA RemainingIs ==
  ASSUME QueryInv, walk.pc = "on"
  PROVE  Pages!Remaining = Beyond(walk.desc, walk.cursor)
<1>1. /\ walk.matching = IdsOf(Selected(qs)) /\ WalkOK /\ walk.matching \in SUBSET Int
      /\ \A i \in DOMAIN walk.seen : walk.seen[i] \in Int
  <2>1. IdsOf(Rows) \in SUBSET Int
    BY RowsKeyed DEF RowsKeyed, IdsOf
  <2>2. WalkOK /\ walk.matching = IdsOf(Selected(qs))
    BY DEF QueryInv, QueryTypeOK, WalkOn
  <2>3. \A i \in 1..Len(walk.seen) : walk.seen[i] \in IdsOf(Rows)
    BY <2>2, ElementOfSeq DEF WalkOK
  <2>4. DOMAIN walk.seen = 1..Len(walk.seen)
    BY <2>2, LenProperties DEF WalkOK
  <2>5. QED
    BY <2>1, <2>2, <2>3, <2>4 DEF WalkOK
<1>2. CASE walk.cursor = Undefined
  <2>1. walk.seen = <<>>
    BY <1>2 DEF QueryInv, WalkOn
  <2>2. QED
    BY <1>1, <1>2, <2>1 DEF Pages!Remaining, Beyond
<1>3. CASE walk.cursor # Undefined
  <2>1. /\ \E i \in DOMAIN walk.seen : walk.seen[i] = walk.cursor
        /\ \A i \in DOMAIN walk.seen : walk.seen[i] = walk.cursor \/ Goes(walk.desc, walk.seen[i], walk.cursor)
    BY <1>3 DEF QueryInv, WalkOn
  <2>2. walk.cursor \in Int
    BY <1>1, <2>1
  <2>3. ASSUME NEW k \in walk.matching
        PROVE  (\A i \in DOMAIN walk.seen : Goes(walk.desc, walk.seen[i], k)) <=> Goes(walk.desc, walk.cursor, k)
    <3>1. ASSUME Goes(walk.desc, walk.cursor, k), NEW i \in DOMAIN walk.seen PROVE Goes(walk.desc, walk.seen[i], k)
      BY <1>1, <2>1, <2>2, <3>1 DEF Goes
    <3>2. QED
      BY <2>1, <3>1
  <2>4. \A a, b : Pages!Precedes(a, b) <=> Goes(walk.desc, a, b)
    BY DEF Pages!Precedes, Goes
  <2>5. QED
    BY <1>1, <1>3, <2>3, <2>4 DEF Pages!Remaining, Beyond
<1>4. QED
  BY <1>2, <1>3

LEMMA PagesStep ==
  ASSUME QueryInv, [QueryNext]_queryVars
  PROVE  [Pages!PagesNext]_(Pages!pagesVars)
<1>1. WalkOK /\ IdsOf(Rows) \in SUBSET Int
  BY RowsKeyed DEF QueryInv, QueryTypeOK, RowsKeyed, IdsOf
<1>2. CASE Chain \/ ListRequest \/ UNCHANGED queryVars
  BY <1>2 DEF Chain, ListRequest, queryVars, Pages!pagesVars
<1>3. CASE StartWalk
  <2>1. PICK down \in BOOLEAN : walk' = [pc |-> "on", cursor |-> Undefined, seen |-> <<>>, desc |-> down,
                                        matching |-> IdsOf(Selected(qs)), steady |-> IdsOf(Selected(qs))]
    BY <1>3 DEF StartWalk, NoWalk
  <2>2. IdsOf(Selected(qs)) \in SUBSET Int
    BY <1>1, SelectedTyped DEF QueryInv, QueryTypeOK
  <2>3. walk.seen = <<>> /\ walk.pc = "off"
    BY <1>3 DEF StartWalk, QueryInv
  <2>4. QED
    BY <2>1, <2>2, <2>3 DEF Pages!PagesNext, Pages!FirstTurn
<1>4. CASE NextPage
  <2>1. walk.pc = "on" /\ Pages!Remaining = Beyond(walk.desc, walk.cursor)
    BY <1>4, RemainingIs DEF NextPage
  <2>2. PICK m \in 0..PageSize : \E page \in [1..m -> Pages!Remaining] : Turned(m, page, Pages!Remaining)
    BY <1>4, <2>1, NextTurn
  <2>3. PICK page \in [1..m -> Pages!Remaining] : Turned(m, page, Pages!Remaining)
    BY <2>2
  <2>4. walk' = [walk EXCEPT !.seen = @ \o page, !.pc = walk'.pc, !.cursor = walk'.cursor]
    BY <2>3 DEF Turned
  <2>5. /\ walk'.seen = walk.seen \o page /\ walk'.desc = walk.desc /\ walk'.matching = walk.matching
        /\ walk'.steady = walk.steady
    BY <1>1, <2>4 DEF WalkOK
  <2>6. DOMAIN page = 1..m /\ Pages!Keyed(page) = KeyPart(page)
    BY DEF Pages!Keyed, KeyPart
  <2>7. \A a, b : Pages!Precedes(a, b) <=> Goes(walk.desc, a, b)
    BY DEF Pages!Precedes, Goes
  <2>8. Pages!InOrder(page) /\ \A i \in 1..m, k \in Pages!Remaining \ Pages!Keyed(page) : Pages!Precedes(page[i], k)
    BY <2>3, <2>6, <2>7 DEF Turned, Pages!InOrder
  <2>9. IF Pages!Remaining \ Pages!Keyed(page) = {} THEN walk'.pc = "over" ELSE m = PageSize /\ walk'.pc = "on"
    BY <2>3, <2>6 DEF Turned
  <2>10. Pages!Turn
    BY <2>1, <2>5, <2>8, <2>9 DEF Pages!Turn
  <2>11. QED
    BY <2>10 DEF Pages!PagesNext
<1>5. CASE InsertRow \/ DeleteRow
  <2>1. /\ walk' = [walk EXCEPT !.matching = IdsOf(Selected(qs))', !.steady = @ \cap IdsOf(Selected(qs))']
        /\ walk.pc = "on"
    BY <1>5 DEF InsertRow, DeleteRow, Rematched
  <2>2. /\ walk'.matching = IdsOf(Selected(qs))' /\ walk'.seen = walk.seen /\ walk'.pc = walk.pc
        /\ walk'.desc = walk.desc /\ walk'.steady = walk.steady \cap IdsOf(Selected(qs))'
    BY <1>1, <2>1 DEF WalkOK
  <2>3. IdsOf(Selected(qs))' \in SUBSET Int
    <3>1. QueryTypeOK'
      BY TypesStep
    <3>2. walk'.matching \in SUBSET IdsOf(Rows)
      BY <3>1 DEF QueryTypeOK, WalkOK
    <3>3. QED
      BY <1>1, <2>2, <3>2
  <2>4. QED
    BY <2>1, <2>2, <2>3 DEF Pages!PagesNext, Pages!RowsChange
<1>6. QED
  BY <1>2, <1>3, <1>4, <1>5 DEF QueryNext

(* page() of db/queryset.ts implements CursorPages: each page is the beginning of what matches *)
(* by now beyond all that was shown, whatever found were inserted or deleted since, and the     *)
(* caller keeps nothing but the last cursor.                                                   *)
THEOREM PagingByCursor == QuerySpec => PagesByCursor
<1>1. QueryInit => Pages!PagesInit
  BY PagesStart
<1>2. QueryInv /\ [QueryNext]_queryVars => [Pages!PagesNext]_(Pages!pagesVars)
  BY PagesStep
<1>3. QED
  BY <1>1, <1>2, QuerySafety, PTL DEF QuerySpec, PagesByCursor, Pages!PagesSpec

-----------------------------------------------------------------------------
(* Results *)

\* DISTINCT leaves as many results as there are different ones.
LEMMA Deduplicates ==
  ASSUME NEW n \in Nat, NEW s, s = [i \in 1..n |-> s[i]]
  PROVE  /\ IsFiniteSet({s[i] : i \in 1..n}) /\ Cardinality({s[i] : i \in 1..n}) \in Nat
         /\ Len(Deduplicated(s)) = Cardinality({s[i] : i \in 1..n})
         /\ Deduplicated(s) = [i \in 1..Len(Deduplicated(s)) |-> Deduplicated(s)[i]]
<1> DEFINE I == {i \in 1..n : \A j \in 1..(i - 1) : s[j] # s[i]}
           V == {s[i] : i \in 1..n}
           first == [i \in I |-> s[i]]
<1>1. DOMAIN s = 1..n
  OBVIOUS
<1>2. I \in SUBSET Int /\ IsFiniteSet(I)
  <2>1. I \in SUBSET (1..n)
    OBVIOUS
  <2> HIDE DEF I
  <2>2. QED
    BY <2>1, FinitePart
<1>3. /\ Cardinality(I) \in Nat
      /\ Deduplicated(s) = [i \in 1..Cardinality(I) |-> s[KeptAt(I)[i]]]
  <2>1. Deduplicated(s) = Kept(s, I)
    BY <1>1 DEF Deduplicated
  <2> HIDE DEF I
  <2>2. QED
    BY <1>2, <2>1, KeptPicks
<1>4. \A i, j \in I : s[i] = s[j] => i = j
  <2>1. ASSUME NEW i \in I, NEW j \in I, s[i] = s[j], i < j PROVE FALSE
    <3>1. i \in 1..(j - 1)
      BY <2>1
    <3>2. QED
      BY <2>1, <3>1
  <2>2. ASSUME NEW i \in I, NEW j \in I, s[i] = s[j], i # j PROVE FALSE
    <3>1. i < j \/ j < i
      BY <2>2
    <3>2. QED
      BY <2>1, <2>2, <3>1
  <2>3. QED
    BY <2>2
<1>5. \A v \in V : \E i \in I : s[i] = v
  <2>1. ASSUME NEW v \in V PROVE \E i \in I : s[i] = v
    <3> DEFINE at == {i \in 1..n : s[i] = v}
    <3>1. at \in SUBSET Nat /\ at # {}
      OBVIOUS
    <3>2. PICK i \in at : \A j \in at : i <= j
      <4> HIDE DEF at
      <4>1. QED
        BY <3>1, LeastExists
    <3>3. ASSUME NEW j \in 1..(i - 1), s[j] = s[i] PROVE FALSE
      <4>1. j \in at /\ ~(i <= j)
        BY <3>2, <3>3
      <4>2. QED
        BY <3>2, <4>1
    <3>4. QED
      BY <3>2, <3>3
  <2>2. QED
    BY <2>1
<1>6. first \in Bijection(I, V)
  <2>1. first \in [I -> V]
    OBVIOUS
  <2>2. \A i \in I : first[i] = s[i]
    OBVIOUS
  <2> HIDE DEF first, I, V
  <2>3. QED
    BY <1>4, <1>5, <2>1, <2>2 DEF Bijection, Injection, Surjection, IsInjective
<1>7. IsFiniteSet(V) /\ Cardinality(V) = Cardinality(I)
  <2> HIDE DEF first, I, V
  <2>1. QED
    BY <1>2, <1>6, FS_Bijection DEF ExistsBijection
<1>8. Len(Deduplicated(s)) = Cardinality(I)
  <2> HIDE DEF I
  <2>1. QED
    BY <1>3
<1> HIDE DEF I
<1>9. QED
  BY <1>3, <1>7, <1>8

Resulting(q) == {Shape(q, r) : r \in Selected(q)}

\* The results as a sequence.
LEMMA ResultsIs ==
  ASSUME TableOK, NEW q, QueryOK(q)
  PROVE  /\ Len(Results(q)) \in Nat /\ Results(q) = [i \in 1..Len(Results(q)) |-> Results(q)[i]]
         /\ ~q.distinct => Len(Results(q)) = Cardinality(Selected(q))
         /\ q.distinct => Len(Results(q)) = Cardinality(Resulting(q))
         /\ Len(Results(q)) = 0 <=> Selected(q) = {}
<1> DEFINE R == Selected(q)
           n == Cardinality(R)
           s == Rows0(q)
<1>1. /\ R \in SUBSET table /\ n \in Nat /\ s = [i \in 1..n |-> Shape(q, Sorted(q, R)[i])]
      /\ Results(q) = IF q.distinct THEN Deduplicated(s) ELSE s
  BY ProjectedRows
<1>2. IsFiniteSet(R) /\ \A r \in R : \E i \in 1..n : Sorted(q, R)[i] = r
  <2> HIDE DEF R
  <2>1. QED
    BY <1>1, SortedRows
<1>3. \A i \in 1..n : Sorted(q, R)[i] \in R
  <2> HIDE DEF R
  <2>1. QED
    BY <1>1, SortedRows
<1>4. n = 0 <=> R = {}
  BY <1>2, FS_EmptySet
<1> HIDE DEF s
<1>5. s = [i \in 1..n |-> s[i]] /\ Len(s) = n
  BY <1>1
<1>6. {s[i] : i \in 1..n} = Resulting(q)
  <2>1. \A i \in 1..n : s[i] = Shape(q, Sorted(q, R)[i])
    BY <1>1
  <2>2. QED
    BY <1>2, <1>3, <2>1 DEF Resulting
<1>7. CASE ~q.distinct
  BY <1>1, <1>4, <1>5, <1>7
<1>8. CASE q.distinct
  <2>1. /\ IsFiniteSet(Resulting(q)) /\ Cardinality(Resulting(q)) \in Nat
        /\ Len(Deduplicated(s)) = Cardinality(Resulting(q))
        /\ Deduplicated(s) = [i \in 1..Len(Deduplicated(s)) |-> Deduplicated(s)[i]]
    <3> HIDE DEF R, n
    <3>1. /\ IsFiniteSet({s[i] : i \in 1..n}) /\ Cardinality({s[i] : i \in 1..n}) \in Nat
          /\ Len(Deduplicated(s)) = Cardinality({s[i] : i \in 1..n})
          /\ Deduplicated(s) = [i \in 1..Len(Deduplicated(s)) |-> Deduplicated(s)[i]]
      <4>1. n \in Nat
        BY <1>1
      <4>2. s = [i \in 1..n |-> s[i]]
        BY <1>5
      <4>3. QED
        BY <4>1, <4>2, Deduplicates
    <3>2. QED
      BY <1>6, <3>1
  <2>2. Cardinality(Resulting(q)) = 0 <=> R = {}
    BY <2>1, FS_EmptySet DEF Resulting
  <2>3. QED
    BY <1>1, <1>8, <2>1, <2>2
<1>9. QED
  BY <1>7, <1>8

\* Where the window is does not matter to the results.
From(q, k, n) == [q EXCEPT !.offset = k, !.limit = n]
\* Another window of the same results.
LEMMA Rewindowed ==
  ASSUME NEW q, QueryOK(q), NEW k \in Nat, NEW n \in Nat
  PROVE  /\ QueryOK(From(q, k, n)) /\ From(q, k, n).offset = k /\ From(q, k, n).limit = n
         /\ Results(From(q, k, n)) = Results(q)
<1> DEFINE p == From(q, k, n)
<1>1. /\ QueryOK(p) /\ p.offset = k /\ p.limit = n
      /\ p.filters = q.filters /\ p.excludes = q.excludes /\ p.ordering = q.ordering
      /\ p.distinct = q.distinct /\ p.fields = q.fields /\ p.related = q.related /\ p.ranked = q.ranked
  BY DEF QueryOK, Unset, From
<1> HIDE DEF p
<1>2. Selected(p) = Selected(q)
  BY <1>1 DEF Selected, Where
<1>3. \A r : SortKey(p, r) = SortKey(q, r)
  <2>1. EffectiveOrdering(p) = EffectiveOrdering(q)
    BY <1>1 DEF EffectiveOrdering
  <2>2. QED
    BY <1>1, <2>1 DEF SortKey
<1>4. \A R : Sorted(p, R) = Sorted(q, R)
  BY <1>3 DEF Sorted
<1>5. \A r : Shape(p, r) = Shape(q, r)
  BY <1>1 DEF Shape
<1>6. \A s : Projected(p, s) = Projected(q, s)
  BY <1>5 DEF Projected
<1>7. Results(p) = Results(q)
  BY <1>1, <1>2, <1>4, <1>6 DEF Results, Joined
<1>8. QED
  BY <1>1, <1>7 DEF p

LEMMA Windowed ==
  ASSUME TableOK, NEW q, QueryOK(q), NEW k \in Nat, NEW n \in Nat
  PROVE  Execute(From(q, k, n)) =
           SubSeq(Results(q), k + 1, IF k + n < Len(Results(q)) THEN k + n ELSE Len(Results(q)))
<1> DEFINE N == Len(Results(q))
           p == From(q, k, n)
<1>1. QueryOK(p) /\ p.offset = k /\ p.limit = n /\ Results(p) = Results(q)
  BY Rewindowed
<1>2. N \in Nat /\ Results(q) = [i \in 1..N |-> Results(q)[i]]
  BY ResultsIs
<1> HIDE DEF p, N
<1>3. WindowEnd(p, N) = IF k + n < N THEN k + n ELSE N
  BY <1>1, <1>2 DEF WindowEnd, Unset
<1>4. Window(p, Results(p)) = SubSeq(Results(p), k + 1, WindowEnd(p, N))
  BY <1>1, <1>2, WindowIs
<1>5. QED
  BY <1>1, <1>3, <1>4 DEF Execute, p, N

\* A limit is a window of the results.
LEMMA LimitIs ==
  ASSUME NEW q, QueryOK(q), q.offset = 0, NEW n \in Nat
  PROVE  Limit(q, n) = From(q, 0, n)
BY DEF Limit, QueryOK, From

\* Where the window is the whole: the results are as many as count() says.
LEMMA Unordered ==
  ASSUME NEW q, QueryOK(q)
  PROVE  LET p == [q EXCEPT !.ordering = NoOrdering]
         IN  /\ QueryOK(p) /\ p.distinct = q.distinct /\ p.offset = q.offset /\ p.limit = q.limit
             /\ Selected(p) = Selected(q) /\ Resulting(p) = Resulting(q)
<1> DEFINE p == [q EXCEPT !.ordering = NoOrdering]
<1>1. /\ QueryOK(p) /\ p.filters = q.filters /\ p.excludes = q.excludes /\ p.distinct = q.distinct
      /\ p.offset = q.offset /\ p.limit = q.limit /\ p.fields = q.fields /\ p.related = q.related
  BY DEF QueryOK
<1> HIDE DEF p
<1>2. Selected(p) = Selected(q)
  BY <1>1 DEF Selected, Where
<1>3. \A r : Shape(p, r) = Shape(q, r)
  BY <1>1 DEF Shape
<1>4. Resulting(p) = Resulting(q)
  BY <1>2, <1>3 DEF Resulting
<1>5. QED
  BY <1>1, <1>2, <1>4 DEF p

LEMMA ExecutesAll ==
  ASSUME TableOK, NEW q, QueryOK(q), q.limit = Unset, q.offset = 0
  PROVE  Execute(q) = Results(q)
<1>1. Len(Results(q)) \in Nat /\ Results(q) = [i \in 1..Len(Results(q)) |-> Results(q)[i]]
  BY ResultsIs
<1>2. QED
  BY <1>1, WindowIs DEF Execute

\* count() is how many results there are.
LEMMA CountsResults ==
  ASSUME TableOK, NEW q, QueryOK(q), q.limit = Unset, q.offset = 0
  PROVE  Count(q) = Len(Results(q)) /\ Execute(q) = Results(q)
<1>1. Execute(q) = Results(q)
  BY ExecutesAll
<1>2. CASE ~q.distinct
  BY <1>2, <1>1, ResultsIs DEF Count
<1>3. CASE q.distinct
  <2> DEFINE p == [q EXCEPT !.ordering = NoOrdering]
  <2>1. /\ QueryOK(p) /\ p.distinct = q.distinct /\ p.offset = q.offset /\ p.limit = q.limit
        /\ Resulting(p) = Resulting(q)
    BY Unordered
  <2>2. Count(q) = Len(Execute(p))
    BY <1>3 DEF Count
  <2> HIDE DEF p
  <2>3. Execute(p) = Results(p)
    BY <2>1, ExecutesAll
  <2>4. Len(Results(p)) = Cardinality(Resulting(p)) /\ Len(Results(q)) = Cardinality(Resulting(q))
    BY <1>3, <2>1, ResultsIs
  <2>5. QED
    BY <1>1, <2>1, <2>2, <2>3, <2>4
<1>4. QED
  BY <1>2, <1>3

\* exists() of a queryset is whether it selects anything.
LEMMA ExistsIs ==
  ASSUME TableOK, NEW q, QueryOK(q), q.offset = 0
  PROVE  Exists(q) <=> Selected(q) # {}
<1> DEFINE o == [q EXCEPT !.ordering = NoOrdering]
           l == From(o, 0, 1)
           p == Only(l, {})
<1>1. QueryOK(o) /\ o.offset = 0 /\ o.filters = q.filters /\ o.excludes = q.excludes
  BY DEF QueryOK
<1>2. Limit(o, 1) = l
  <2> HIDE DEF o
  <2>1. QED
    BY <1>1, LimitIs
<1>3. p.limit = 1 /\ p.offset = 0 /\ p.filters = q.filters /\ p.excludes = q.excludes /\ QueryOK(p)
  <2>1. {} \cup {"id"} \in SUBSET Fields
    BY DEF Fields, Kind
  <2> HIDE DEF o
  <2>2. QED
    BY <1>1, <2>1 DEF QueryOK, Only, From
<1>4. Exists(q) <=> Execute(p) # <<>>
  BY <1>2 DEF Exists
<1> HIDE DEF p, l, o
<1>5. Selected(p) = Selected(q)
  BY <1>3 DEF Selected, Where
<1>6. /\ Len(Results(p)) \in Nat /\ Results(p) = [i \in 1..Len(Results(p)) |-> Results(p)[i]]
      /\ Len(Results(p)) = 0 <=> Selected(p) = {}
  BY <1>3, ResultsIs
<1>7. Execute(p) = SubSeq(Results(p), 1, WindowEnd(p, Len(Results(p))))
  BY <1>3, <1>6, WindowIs DEF Execute
<1>8. CASE Selected(p) = {}
  <2>1. WindowEnd(p, Len(Results(p))) = 0
    BY <1>3, <1>6, <1>8 DEF WindowEnd, Unset
  <2>2. Execute(p) = <<>>
    BY <1>7, <2>1
  <2>3. QED
    BY <1>4, <1>5, <1>8, <2>2
<1>9. CASE Selected(p) # {}
  <2>1. WindowEnd(p, Len(Results(p))) = 1
    BY <1>3, <1>6, <1>9 DEF WindowEnd, Unset
  <2>2. Len(Execute(p)) = 1
    BY <1>6, <1>7, <2>1
  <2>3. QED
    BY <1>4, <1>5, <1>9, <2>2
<1>10. QED
  BY <1>8, <1>9

\* The last row: reversed, the order of found goes the other way, where no two tie.
LEMMA BackwardsOrder ==
  ASSUME TableOK, NEW q, QueryOK(q), q.ranked = Undefined, Orders(q),
         NEW a \in Rows, NEW b \in Rows
  PROVE  Before(SortKey(Backwards(q), a), SortKey(Backwards(q), b), a, b)
           => a = b \/ a.id = b.id \/ Before(SortKey(q, b), SortKey(q, a), b, a)
<1> DEFINE o == EffectiveOrdering(q)
           p == Backwards(q)
           Value(r, i) == SortValue(r[o[i].attr])
           Part(r, i) == IF o[i].desc THEN -Value(r, i) ELSE Value(r, i)
<1>1. /\ o \in Sorts /\ Len(o) \in Nat /\ DOMAIN o = 1..Len(o)
      /\ \A i \in 1..Len(o) : o[i] \in [attr: Sortable, desc: BOOLEAN]
  <2>1. o \in Sorts /\ Len(o) \in Nat /\ DOMAIN o = 1..Len(o)
    BY OrderingTyped
  <2>2. QED
    BY <2>1, ElementOfSeq DEF Sorts
<1>2. PICK k \in 1..Len(o) : o[k].attr = "id"
  BY <1>1 DEF Orders
<1>3. Reversed(o) # <<>> /\ DOMAIN Reversed(o) = 1..Len(o) /\ Reversed(o) \in Sorts
      /\ \A i \in 1..Len(o) : Reversed(o)[i] = [o[i] EXCEPT !.desc = ~@]
  BY <1>1, <1>2, ReversedTyped DEF Reversed
<1>4. EffectiveOrdering(p) = Reversed(o) /\ p.ranked = Undefined
  <2>1. p = [q EXCEPT !.ordering = Reversed(o)]
    BY <1>3 DEF Backwards
  <2>2. p.ordering = Reversed(o) /\ p.ranked = Undefined
    BY <2>1 DEF QueryOK
  <2>3. Reversed(o) # NoOrdering
    BY <1>1, <1>2, <1>3 DEF NoOrdering, Sortable
  <2>4. QED
    BY <1>3, <2>2, <2>3 DEF EffectiveOrdering
<1> HIDE DEF p
<1>5. ASSUME NEW r \in Rows, NEW i \in 1..Len(o) PROVE Value(r, i) \in Int
  <2>1. r[o[i].attr] \in Int \cup {Null} /\ Least \in Int /\ Greatest \in Int
    BY <1>1, RowsKeyed DEF RowsKeyed, Sortable
  <2>2. QED
    BY <2>1 DEF SortValue
<1> HIDE DEF Value
<1>6. ASSUME NEW r \in Rows
      PROVE  SortKey(q, r) = [i \in 1..Len(o) |-> Part(r, i)] /\ SortKey(p, r) = [i \in 1..Len(o) |-> -Part(r, i)]
  <2>1. \A i \in 1..Len(o) : Part(r, i) \in Int
    BY <1>1, <1>5
  <2>2. SortKey(q, r) = <<>> \o [i \in 1..Len(o) |-> Part(r, i)]
    BY <1>1 DEF SortKey, Value
  <2>3. SortKey(p, r) = <<>> \o [i \in 1..Len(o) |-> -Part(r, i)]
    <3>1. SortKey(p, r) = <<>> \o [i \in 1..Len(o) |->
            IF Reversed(o)[i].desc THEN -SortValue(r[Reversed(o)[i].attr]) ELSE SortValue(r[Reversed(o)[i].attr])]
      BY <1>3, <1>4 DEF SortKey
    <3>2. ASSUME NEW i \in 1..Len(o)
          PROVE  (IF Reversed(o)[i].desc THEN -SortValue(r[Reversed(o)[i].attr]) ELSE SortValue(r[Reversed(o)[i].attr]))
                   = -Part(r, i)
      <4>1. Reversed(o)[i].attr = o[i].attr /\ (Reversed(o)[i].desc <=> ~o[i].desc)
        <5>1. \A e \in [attr: Sortable, desc: BOOLEAN] :
                [e EXCEPT !.desc = ~@].attr = e.attr /\ ([e EXCEPT !.desc = ~@].desc <=> ~e.desc)
          OBVIOUS
        <5>2. Reversed(o)[i] = [o[i] EXCEPT !.desc = ~@] /\ o[i] \in [attr: Sortable, desc: BOOLEAN]
          BY <1>1, <1>3
        <5>3. QED
          BY <5>1, <5>2
      <4>2. QED
        BY <1>5, <4>1 DEF Value
    <3>3. QED
      BY <3>1, <3>2
  <2> HIDE DEF Part
  <2>4. QED
    BY <1>1, <2>1, <2>2, <2>3
<1>7. ASSUME NEW r \in Rows PROVE \A i \in 1..Len(o) : Part(r, i) \in Int
  BY <1>1, <1>5
<1>8. Part(a, k) = Part(b, k) => a.id = b.id
  <2>1. /\ a[o[k].attr] = a.id /\ b[o[k].attr] = b.id /\ a.id \in Int /\ b.id \in Int
        /\ a.id # Null /\ b.id # Null
    BY <1>2, RowsKeyed, QueryConstants DEF RowsKeyed, QueryConstants
  <2>2. Value(a, k) = a.id /\ Value(b, k) = b.id
    BY <2>1 DEF Value, SortValue
  <2>3. QED
    BY <2>1, <2>2
<1> HIDE DEF Part, o
<1>9. SUFFICES ASSUME Before(SortKey(p, a), SortKey(p, b), a, b), a.id # b.id
               PROVE  Before(SortKey(q, b), SortKey(q, a), b, a)
  BY DEF p
<1>10. SortKey(p, a) # SortKey(p, b)
  <2>1. -Part(a, k) # -Part(b, k)
    BY <1>2, <1>7, <1>8, <1>9
  <2>2. SortKey(p, a)[k] = -Part(a, k) /\ SortKey(p, b)[k] = -Part(b, k)
    BY <1>2, <1>6
  <2>3. QED
    BY <2>1, <2>2
<1>11. PICK i \in 1..Len(o) : -Part(a, i) < -Part(b, i) /\ \A j \in 1..(i - 1) : SortKey(p, a)[j] = SortKey(p, b)[j]
  BY <1>6, <1>9, <1>10 DEF Before
<1>12. SortKey(q, b)[i] < SortKey(q, a)[i]
  BY <1>6, <1>7, <1>11
<1>13. ASSUME NEW j \in 1..(i - 1) PROVE SortKey(q, b)[j] = SortKey(q, a)[j]
  <2>1. j \in 1..Len(o)
    BY <1>1, <1>11
  <2>2. -Part(a, j) = -Part(b, j)
    BY <1>6, <1>11, <2>1
  <2>3. QED
    BY <1>6, <1>7, <2>1, <2>2
<1>14. QED
  BY <1>6, <1>12, <1>13 DEF Before

\* Reversed, the first row is the last.
LEMMA LastIs ==
  ASSUME TableOK, NEW q, QueryOK(q), q.ranked = Undefined, Orders(q), ~q.distinct,
         q.limit = Unset, q.offset = 0
  PROVE  LET found == Execute(q)
         IN LastRow(q) = SubSeq(found, IF found = <<>> THEN 1 ELSE Len(found), Len(found))
<1> DEFINE p == Backwards(q)
           R == Selected(q)
           n == Cardinality(R)
           found == Execute(q)
<1>1. /\ QueryOK(p) /\ p.filters = q.filters /\ p.excludes = q.excludes /\ p.offset = 0
      /\ p.fields = q.fields /\ p.related = q.related /\ ~p.distinct
  <2>1. Reversed(EffectiveOrdering(q)) \in Sorts
    BY OrderingTyped, ReversedTyped
  <2>2. PICK o \in Sorts \cup {NoOrdering} : p = [q EXCEPT !.ordering = o]
    BY <2>1 DEF Backwards
  <2> HIDE DEF p
  <2>3. QED
    BY <2>2 DEF QueryOK
<1>2. \A a, b \in Rows : Before(SortKey(p, a), SortKey(p, b), a, b)
                            => a = b \/ a.id = b.id \/ Before(SortKey(q, b), SortKey(q, a), b, a)
  BY BackwardsOrder
<1>3. LastRow(q) = Execute(Limit(p, 1))
  BY DEF LastRow
<1> HIDE DEF p
<1>4. Selected(p) = R /\ \A r : Shape(p, r) = Shape(q, r)
  BY <1>1 DEF Selected, Where, Shape
<1>5. found = Results(q)
  BY ExecutesAll
<1>6. /\ R \in SUBSET table /\ n \in Nat
      /\ Results(q) = [i \in 1..n |-> Shape(q, Sorted(q, R)[i])]
      /\ Results(p) = [i \in 1..n |-> Shape(q, Sorted(p, R)[i])]
  <2>1. Rows0(p) = [i \in 1..Cardinality(Selected(p)) |-> Shape(p, Sorted(p, Selected(p))[i])]
    BY <1>1, ProjectedRows
  <2>2. Results(p) = Rows0(p)
    BY <1>1, ProjectedRows
  <2>3. Results(p) = [i \in 1..n |-> Shape(q, Sorted(p, R)[i])]
    BY <1>4, <2>1, <2>2
  <2>4. /\ R \in SUBSET table /\ n \in Nat
        /\ Results(q) = [i \in 1..n |-> Shape(q, Sorted(q, R)[i])]
    BY ProjectedRows
  <2>5. QED
    BY <2>3, <2>4
<1>7. LastRow(q) = SubSeq(Results(p), 1, IF 1 < n THEN 1 ELSE n)
  <2>1. Limit(p, 1) = From(p, 0, 1)
    BY <1>1, LimitIs
  <2>2. Len(Results(p)) = n
    BY <1>6
  <2>3. Execute(Limit(p, 1)) =
          SubSeq(Results(p), 0 + 1, IF 0 + 1 < Len(Results(p)) THEN 0 + 1 ELSE Len(Results(p)))
    BY <1>1, <2>1, Windowed
  <2>4. QED
    BY <1>3, <2>1, <2>2, <2>3
<1> HIDE DEF found
<1>8. Len(found) = n /\ (found = <<>> <=> n = 0)
  BY <1>5, <1>6
<1>9. CASE n = 0
  BY <1>5, <1>6, <1>7, <1>8, <1>9 DEF found
<1>10. CASE n # 0
  <2>1. 1 \in 1..n /\ n \in 1..n
    BY <1>6, <1>10
  <2>2. Sorted(p, R)[1] = Sorted(q, R)[n]
    <3> HIDE DEF R
    <3>1. /\ Sorted(q, R) \in [1..n -> R] /\ Sorted(p, R) \in [1..n -> R]
          /\ \A i, j \in 1..n : i < j <=> <<Sorted(q, R)[i], Sorted(q, R)[j]>> \in SortPairs(q, R)
          /\ \A i, j \in 1..n : i < j <=> <<Sorted(p, R)[i], Sorted(p, R)[j]>> \in SortPairs(p, R)
          /\ \A r \in R : \E i \in 1..n : Sorted(p, R)[i] = r
          /\ \A r \in R : \E i \in 1..n : Sorted(q, R)[i] = r
      <4>1. /\ Sorted(q, R) \in [1..n -> R]
            /\ \A i, j \in 1..n : i < j <=> <<Sorted(q, R)[i], Sorted(q, R)[j]>> \in SortPairs(q, R)
            /\ \A r \in R : \E i \in 1..n : Sorted(q, R)[i] = r
        BY <1>6, SortedRows
      <4>2. /\ Sorted(p, R) \in [1..n -> R]
            /\ \A i, j \in 1..n : i < j <=> <<Sorted(p, R)[i], Sorted(p, R)[j]>> \in SortPairs(p, R)
            /\ \A r \in R : \E i \in 1..n : Sorted(p, R)[i] = r
        BY <1>1, <1>6, SortedRows
      <4>3. QED
        BY <4>1, <4>2
    <3>2. PICK i \in 1..n : Sorted(p, R)[i] = Sorted(q, R)[n]
      BY <2>1, <3>1
    <3>3. PICK j \in 1..n : Sorted(q, R)[j] = Sorted(p, R)[1]
      BY <2>1, <3>1
    <3>4. ASSUME i # 1 PROVE FALSE
      <4>1. <<Sorted(p, R)[1], Sorted(p, R)[i]>> \in SortPairs(p, R)
        <5>1. 1 < i
          BY <1>6, <3>4
        <5>2. QED
          BY <2>1, <3>1, <5>1
      <4>2. Before(SortKey(p, Sorted(q, R)[j]), SortKey(p, Sorted(q, R)[n]), Sorted(q, R)[j], Sorted(q, R)[n])
        BY <3>2, <3>3, <4>1 DEF SortPairs
      <4>3. /\ Sorted(q, R)[j] \in R /\ Sorted(q, R)[n] \in R /\ R \in SUBSET Rows
            /\ \A a, b \in R : a.id = b.id => a = b
        BY <1>6, <2>1, <3>1 DEF TableOK
      <4>4. Sorted(q, R)[j] # Sorted(q, R)[n]
        <5>1. StrictOrder(R, SortPairs(p, R))
          BY <1>1, <1>6, SortPairsStrict
        <5>2. Sorted(p, R)[1] # Sorted(p, R)[i]
          BY <2>1, <3>1, <4>1, <5>1 DEF StrictOrder
        <5>3. QED
          BY <3>2, <3>3, <5>2
      <4>5. Before(SortKey(q, Sorted(q, R)[n]), SortKey(q, Sorted(q, R)[j]), Sorted(q, R)[n], Sorted(q, R)[j])
        BY <1>2, <4>2, <4>3, <4>4
      <4>6. <<Sorted(q, R)[n], Sorted(q, R)[j]>> \in SortPairs(q, R)
        BY <4>3, <4>5 DEF SortPairs
      <4>7. n < j
        BY <2>1, <3>1, <4>6
      <4>8. QED
        BY <1>6, <4>7
    <3>5. QED
      BY <3>2, <3>4
  <2>3. Results(p)[1] = Results(q)[n]
    BY <1>6, <2>1, <2>2
  <2> HIDE DEF R, n
  <2>4. (IF 1 < n THEN 1 ELSE n) = 1
    BY <1>6, <1>10
  <2>5. SubSeq(Results(p), 1, 1) = [i \in 1..1 |-> Results(p)[i]]
    BY <1>6
  <2>6. SubSeq(Results(q), n, n) = [i \in 1..1 |-> Results(q)[n]]
    <3>1. SubSeq(Results(q), n, n) = [i \in 1..(n - n + 1) |-> Results(q)[n + i - 1]]
      BY <1>6
    <3>2. n - n + 1 = 1 /\ \A i \in 1..1 : n + i - 1 = n
      BY <1>6
    <3>3. QED
      BY <3>1, <3>2
  <2>7. \A i \in 1..1 : Results(p)[i] = Results(q)[n]
    BY <2>3
  <2>8. SubSeq(Results(p), 1, 1) = SubSeq(Results(q), n, n)
    BY <2>5, <2>6, <2>7
  <2>9. QED
    BY <1>5, <1>7, <1>8, <1>10, <2>4, <2>8 DEF found
<1>11. QED
  BY <1>9, <1>10

-----------------------------------------------------------------------------
(* The terminal operations agree *)

\* What LIMIT leaves, and how many.
LEMMA LimitedTo ==
  ASSUME TableOK, NEW q, QueryOK(q), q.offset = 0, NEW n \in Nat
  PROVE  /\ Execute(Limit(q, n)) = SubSeq(Results(q), 1, IF n < Len(Results(q)) THEN n ELSE Len(Results(q)))
         /\ Len(Execute(Limit(q, n))) = IF n < Len(Results(q)) THEN n ELSE Len(Results(q))
<1> DEFINE N == Len(Results(q))
<1>1. N \in Nat
  BY ResultsIs
<1>2. Execute(Limit(q, n)) = SubSeq(Results(q), 1, IF n < N THEN n ELSE N)
  <2>1. Limit(q, n) = From(q, 0, n)
    BY LimitIs
  <2>2. Execute(Limit(q, n)) = SubSeq(Results(q), 0 + 1, IF 0 + n < N THEN 0 + n ELSE N)
    BY <2>1, Windowed
  <2>3. QED
    BY <1>1, <2>1, <2>2
<1> HIDE DEF N
<1>3. QED
  BY <1>1, <1>2 DEF N

LEMMA CountsDoAgree ==
  ASSUME QueryTypeOK, Whole
  PROVE  CountsAgree(Execute(qs))
<1> DEFINE found == Execute(qs)
<1>1. TableOK /\ QueryOK(qs) /\ qs.limit = Unset /\ qs.offset = 0
  BY DEF QueryTypeOK, Whole
<1>2. /\ Count(qs) = Len(found) /\ found = Results(qs) /\ Len(found) \in Nat
      /\ found = [i \in 1..Len(found) |-> found[i]] /\ (Len(found) = 0 <=> Selected(qs) = {})
  <2>1. Count(qs) = Len(found) /\ found = Results(qs)
    BY <1>1, CountsResults
  <2> HIDE DEF found
  <2>2. QED
    BY <1>1, <2>1, ResultsIs
<1> HIDE DEF found
<1>3. found = <<>> <=> Len(found) = 0
  <2>1. ASSUME Len(found) = 0 PROVE found = <<>>
    <3>1. found = [i \in 1..0 |-> found[i]]
      BY <1>2, <2>1
    <3>2. QED
      BY <3>1
  <2>2. QED
    BY <2>1
<1>4. Exists(qs) <=> found # <<>>
  BY <1>1, <1>2, <1>3, ExistsIs
<1>5. FirstRow(qs) = UpTo(found, 1)
  BY <1>1, <1>2, LimitedTo DEF FirstRow, UpTo
<1>6. Get(qs) = "row" <=> Len(found) = 1
  <2> DEFINE two == Execute(Limit(qs, 2))
  <2>1. Len(two) = IF 2 < Len(found) THEN 2 ELSE Len(found)
    BY <1>1, <1>2, LimitedTo
  <2>2. two = <<>> => Len(two) = 0
    OBVIOUS
  <2>3. Len(two) = 0 => two = <<>>
    <3>1. two = SubSeq(found, 1, IF 2 < Len(found) THEN 2 ELSE Len(found))
      BY <1>1, <1>2, LimitedTo
    <3> HIDE DEF two
    <3>2. ASSUME Len(two) = 0 PROVE two = SubSeq(found, 1, 0)
      BY <1>2, <2>1, <3>1, <3>2
    <3>3. QED
      BY <3>2
  <2>4. Get(qs) = CASE two = <<>> -> "DoesNotExist" [] Len(two) > 1 -> "MultipleObjectsReturned" [] OTHER -> "row"
    BY DEF Get
  <2> HIDE DEF two
  <2>5. QED
    BY <1>2, <2>1, <2>2, <2>3, <2>4
<1>7. Orders(qs) /\ qs.ranked = Undefined /\ ~qs.distinct
        => LastRow(qs) = SubSeq(found, IF found = <<>> THEN 1 ELSE Len(found), Len(found))
  BY <1>1, LastIs DEF found
<1>8. QED
  BY <1>2, <1>4, <1>5, <1>6, <1>7 DEF CountsAgree, found

\* What is kept of a sequence at the indices where something holds are its elements that it holds of.
Listed(s, n) == s = [i \in 1..n |-> s[i]]
\* What Kept keeps is what is at the indices.
LEMMA KeptValues ==
  ASSUME NEW n \in Nat, NEW s, Listed(s, n), NEW I \in SUBSET (1..n)
  PROVE  /\ \A m \in DOMAIN Kept(s, I) : \E i \in I : Kept(s, I)[m] = s[i]
         /\ \A i \in I : \E m \in DOMAIN Kept(s, I) : Kept(s, I)[m] = s[i]
<1>1. I \in SUBSET Int /\ IsFiniteSet(I)
  BY FinitePart
<1>2. /\ KeptAt(I) \in [1..Cardinality(I) -> I]
      /\ \A k \in I : \E i \in 1..Cardinality(I) : KeptAt(I)[i] = k
      /\ Kept(s, I) = [m \in 1..Cardinality(I) |-> s[KeptAt(I)[m]]]
  BY <1>1, KeptPicks
<1>3. DOMAIN Kept(s, I) = 1..Cardinality(I) /\ \A m \in 1..Cardinality(I) : Kept(s, I)[m] = s[KeptAt(I)[m]]
  BY <1>2
<1>4. ASSUME NEW m \in DOMAIN Kept(s, I) PROVE \E i \in I : Kept(s, I)[m] = s[i]
  <2>1. m \in 1..Cardinality(I) /\ KeptAt(I)[m] \in I
    BY <1>2, <1>3
  <2>2. Kept(s, I)[m] = s[KeptAt(I)[m]]
    BY <1>3, <2>1
  <2>3. QED
    BY <2>1, <2>2
<1>5. ASSUME NEW i \in I PROVE \E m \in DOMAIN Kept(s, I) : Kept(s, I)[m] = s[i]
  <2>1. PICK m \in 1..Cardinality(I) : KeptAt(I)[m] = i
    BY <1>2
  <2>2. m \in DOMAIN Kept(s, I) /\ Kept(s, I)[m] = s[i]
    BY <1>3, <2>1
  <2>3. QED
    BY <2>2
<1>6. QED
  BY <1>4, <1>5

\* inBulk() and prefetch(), by primary key.
LEMMA KeysDoAgree ==
  ASSUME QueryTypeOK, Whole
  PROVE  KeyedAgree(Execute(qs))
<1> DEFINE found == Execute(qs)
           R == Selected(qs)
           n == Cardinality(R)
<1>1. TableOK /\ QueryOK(qs) /\ qs.limit = Unset /\ qs.offset = 0
  BY DEF QueryTypeOK, Whole
<1>2. SUFFICES ASSUME "id" \in qs.fields
               PROVE  /\ Cardinality(InBulk(qs)) = Count(qs)
                      /\ \A i \in DOMAIN found :
                           {Prefetched(found)[i][m] : m \in DOMAIN Prefetched(found)[i]}
                             = {r \in table : r.parent = found[i].id}
  BY DEF KeyedAgree
<1>3. Count(qs) = Len(found) /\ found = Results(qs)
  BY <1>1, CountsResults
<1> HIDE DEF found
<1>4. /\ R \in SUBSET table /\ n \in Nat /\ found = [i \in 1..n |-> Shape(qs, Sorted(qs, R)[i])]
      /\ \A i \in 1..n : found[i].id = Sorted(qs, R)[i].id
  <2>1. Results(qs) = Rows0(qs)
    BY <1>1, <1>2, KeyedResults
  <2>2. \A i \in 1..n : Results(qs)[i].id = Sorted(qs, R)[i].id
    BY <1>1, <1>2, KeyedResults
  <2>3. /\ R \in SUBSET table /\ n \in Nat /\ Rows0(qs) = [i \in 1..n |-> Shape(qs, Sorted(qs, R)[i])]
    BY <1>1, ProjectedRows
  <2>4. QED
    BY <1>3, <2>1, <2>2, <2>3
<1>5. DOMAIN found = 1..n /\ Len(found) = n
  BY <1>4
<1>6. /\ Sorted(qs, R) \in [1..n -> R]
      /\ \A i, j \in 1..n : Sorted(qs, R)[i] = Sorted(qs, R)[j] => i = j
  <2> HIDE DEF R
  <2>1. QED
    BY <1>1, <1>4, SortedRows
<1> HIDE DEF R, n
<1>7. \A i, j \in 1..n : found[i].id = found[j].id => i = j
  <2>1. \A i \in 1..n : Sorted(qs, R)[i] \in table
    BY <1>4, <1>6
  <2>2. QED
    BY <1>1, <1>4, <1>6, <2>1 DEF TableOK
<1>8. Cardinality(InBulk(qs)) = n
  <2> DEFINE entry == [i \in 1..n |-> [pk |-> found[i].id, row |-> found[i]]]
  <2>1. InBulk(qs) = {entry[i] : i \in 1..n}
    BY <1>5 DEF InBulk, found
  <2>2. \A i, j \in 1..n : entry[i] = entry[j] => i = j
    <3>1. \A i \in 1..n : entry[i].pk = found[i].id
      OBVIOUS
    <3>2. QED
      BY <1>7, <3>1
  <2>3. entry \in [1..n -> InBulk(qs)] /\ \A v \in InBulk(qs) : \E i \in 1..n : entry[i] = v
    BY <2>1
  <2> HIDE DEF entry
  <2>4. entry \in Bijection(1..n, InBulk(qs))
    BY <2>2, <2>3 DEF Bijection, Injection, Surjection, IsInjective
  <2>5. IsFiniteSet(1..n) /\ Cardinality(1..n) = n
    BY <1>4, FS_Interval
  <2>6. QED
    BY <2>4, <2>5, FS_Bijection DEF ExistsBijection
<1>9. ASSUME NEW i \in 1..n
      PROVE  {Prefetched(found)[i][m] : m \in DOMAIN Prefetched(found)[i]} = {r \in table : r.parent = found[i].id}
  <2> DEFINE C == {r \in table : r.parent \in {found[j].id : j \in 1..n}}
             children == Sorted(QueryState, C)
             I == {j \in 1..Cardinality(C) : children[j].parent = found[i].id}
  <2>1. /\ Cardinality(C) \in Nat /\ children \in [1..Cardinality(C) -> C]
        /\ \A r \in C : \E j \in 1..Cardinality(C) : children[j] = r
    <3>1. C \in SUBSET table
      OBVIOUS
    <3> HIDE DEF C
    <3>2. QED
      BY <1>1, <3>1, FirstState, SortedRows
  <2>2. Prefetched(found)[i] = Kept(children, I)
    <3>1. DOMAIN children = 1..Cardinality(C)
      BY <2>1
    <3>2. QED
      BY <1>5, <3>1 DEF Prefetched
  <2> HIDE DEF children
  <2>3. {Kept(children, I)[m] : m \in DOMAIN Kept(children, I)} = {children[j] : j \in I}
    <3>1. children = [j \in 1..Cardinality(C) |-> children[j]]
      BY <2>1
    <3>2. I \in SUBSET (1..Cardinality(C))
      OBVIOUS
    <3> HIDE DEF I, C, children
    <3> DEFINE N == Cardinality(C)
    <3>3. N \in Nat /\ Listed(children, N) /\ I \in SUBSET (1..N)
      BY <2>1, <3>1, <3>2 DEF Listed
    <3> HIDE DEF N
    <3>4. /\ \A m \in DOMAIN Kept(children, I) : \E j \in I : Kept(children, I)[m] = children[j]
          /\ \A j \in I : \E m \in DOMAIN Kept(children, I) : Kept(children, I)[m] = children[j]
      BY <3>3, KeptValues
    <3>5. QED
      BY <3>4
  <2>4. {children[j] : j \in I} = {r \in table : r.parent = found[i].id}
    <3>1. ASSUME NEW r \in table, r.parent = found[i].id PROVE r \in {children[j] : j \in I}
      <4>1. r \in C
        BY <3>1
      <4>2. PICK j \in 1..Cardinality(C) : children[j] = r
        BY <2>1, <4>1
      <4>3. QED
        BY <3>1, <4>2
    <3>2. \A j \in I : children[j] \in table /\ children[j].parent = found[i].id
      BY <2>1
    <3>3. QED
      BY <3>1, <3>2
  <2>5. QED
    BY <2>2, <2>3, <2>4
<1>10. QED
  BY <1>3, <1>5, <1>8, <1>9

-----------------------------------------------------------------------------
(* Sums *)

Picked(S) == CHOOSE x \in S : TRUE
Sums(f, g, T) == \A S \in T : g[S] = IF S = {} THEN 0 ELSE f[Picked(S)] + g[S \ {Picked(S)}]
SumsOf(f) ==
  CHOOSE sum : sum = [S \in SUBSET DOMAIN f |->
    IF S = {} THEN 0 ELSE LET x == CHOOSE x \in S : TRUE IN f[x] + sum[S \ {x}]]

\* Summed adds the values up one by one, in an order that makes no difference.
LEMMA SummedIs == ASSUME NEW f PROVE Summed(f) = SumsOf(f)[DOMAIN f]
BY DEF Summed, SumsOf

\* The sums of a function over the subsets of its domain exist.
LEMMA SumsExist ==
  ASSUME NEW D, IsFiniteSet(D), NEW f \in [D -> Int]
  PROVE  SumsOf(f) \in [SUBSET D -> Int] /\ Sums(f, SumsOf(f), SUBSET D)
<1> DEFINE Upto(n) == {S \in SUBSET D : Cardinality(S) <= n}
           Fails == {n \in Nat : \A g \in [Upto(n) -> Int] : ~Sums(f, g, Upto(n))}
<1>1. \A S \in SUBSET D : IsFiniteSet(S) /\ Cardinality(S) \in Nat /\ (Cardinality(S) = 0 <=> S = {})
  BY FS_Subset, FS_CardinalityType, FS_EmptySet
<1>2. \A S \in SUBSET D : S # {} => /\ Picked(S) \in S /\ f[Picked(S)] \in Int
                                  /\ S \ {Picked(S)} \in SUBSET D
                                  /\ Cardinality(S \ {Picked(S)}) = Cardinality(S) - 1
  <2>1. ASSUME NEW S \in SUBSET D, S # {} PROVE Picked(S) \in S
    BY <2>1 DEF Picked
  <2>2. ASSUME NEW S \in SUBSET D, S # {} PROVE Cardinality(S \ {Picked(S)}) = Cardinality(S) - 1
    BY <1>1, <2>1, <2>2, FS_RemoveElement
  <2>3. QED
    BY <2>1, <2>2
<1>3. Fails = {}
  <2>1. SUFFICES ASSUME Fails # {} PROVE FALSE
    OBVIOUS
  <2>2. PICK n \in Fails : \A m \in Fails : n <= m
    <3>1. Fails \in SUBSET Nat
      OBVIOUS
    <3> HIDE DEF Fails
    <3>2. QED
      BY <2>1, <3>1, LeastExists
  <2>3. CASE n = 0
    <3> DEFINE g == [S \in Upto(n) |-> 0]
    <3>1. g \in [Upto(n) -> Int]
      OBVIOUS
    <3>2. \A S \in Upto(n) : S = {}
      BY <1>1, <2>3
    <3>3. Sums(f, g, Upto(n))
      BY <3>2 DEF Sums
    <3>4. QED
      BY <2>2, <3>1, <3>3
  <2>4. CASE n # 0
    <3>1. n - 1 \in Nat /\ n - 1 \notin Fails
      <4>1. n \in Nat /\ n - 1 \in Nat /\ ~(n <= n - 1)
        BY <2>2, <2>4
      <4> HIDE DEF Fails
      <4>2. QED
        BY <2>2, <4>1
    <3>2. PICK h \in [Upto(n - 1) -> Int] : Sums(f, h, Upto(n - 1))
      BY <3>1
    <3> DEFINE g == [S \in Upto(n) |-> IF S = {} THEN 0 ELSE f[Picked(S)] + h[S \ {Picked(S)}]]
    <3>3. ASSUME NEW S \in Upto(n), S # {}
          PROVE  S \ {Picked(S)} \in Upto(n - 1) /\ f[Picked(S)] \in Int /\ S \ {Picked(S)} \in Upto(n)
      <4>1. /\ S \in SUBSET D /\ Cardinality(S) <= n /\ Cardinality(S) \in Nat /\ n \in Nat
            /\ S \ {Picked(S)} \in SUBSET D /\ Cardinality(S \ {Picked(S)}) = Cardinality(S) - 1
            /\ f[Picked(S)] \in Int
        BY <1>1, <1>2, <2>2, <3>3
      <4>2. QED
        BY <4>1
    <3>4. g \in [Upto(n) -> Int]
      <4> HIDE DEF Upto
      <4>1. \A S \in Upto(n) : S # {} => h[S \ {Picked(S)}] \in Int
        BY <3>2, <3>3
      <4>2. QED
        BY <3>3, <4>1
    <3>5. ASSUME NEW S \in Upto(n - 1) PROVE g[S] = h[S] /\ S \in Upto(n)
      <4>1. S \in Upto(n)
        BY <1>1, <2>2
      <4> HIDE DEF Upto
      <4>2. QED
        BY <3>2, <4>1 DEF Sums
    <3>6. Sums(f, g, Upto(n))
      <4> HIDE DEF Upto
      <4>1. ASSUME NEW S \in Upto(n) PROVE g[S] = IF S = {} THEN 0 ELSE f[Picked(S)] + g[S \ {Picked(S)}]
        <5>1. S # {} => g[S \ {Picked(S)}] = h[S \ {Picked(S)}]
          BY <3>3, <3>5
        <5>2. g[S] = IF S = {} THEN 0 ELSE f[Picked(S)] + h[S \ {Picked(S)}]
          OBVIOUS
        <5>3. QED
          BY <5>1, <5>2
      <4>2. QED
        BY <4>1 DEF Sums
    <3>7. QED
      BY <2>2, <3>4, <3>6
  <2>5. QED
    BY <2>3, <2>4
<1>4. PICK g \in [SUBSET D -> Int] : Sums(f, g, SUBSET D)
  <2> DEFINE n == Cardinality(D)
  <2>1. n \in Nat /\ Upto(n) = SUBSET D
    BY FS_Subset, FS_CardinalityType
  <2> HIDE DEF Upto, n
  <2>2. \E g \in [Upto(n) -> Int] : Sums(f, g, Upto(n))
    BY <1>3, <2>1
  <2>3. QED
    BY <2>1, <2>2
<1>5. g = [S \in SUBSET DOMAIN f |-> IF S = {} THEN 0 ELSE LET x == CHOOSE x \in S : TRUE IN f[x] + g[S \ {x}]]
  BY <1>4 DEF Sums, Picked
<1>6. SumsOf(f) = [S \in SUBSET DOMAIN f |->
         IF S = {} THEN 0 ELSE LET x == CHOOSE x \in S : TRUE IN f[x] + SumsOf(f)[S \ {x}]]
  BY <1>5 DEF SumsOf
<1>7. Sums(f, SumsOf(f), SUBSET D)
  BY <1>6 DEF Sums, Picked
<1>8. SumsOf(f) \in [SUBSET D -> Int]
  <2> DEFINE g0 == SumsOf(f)
             Odd == {Cardinality(S) : S \in {T \in SUBSET D : g0[T] \notin Int}}
  <2>1. g0 = [S \in SUBSET D |-> g0[S]]
    BY <1>6
  <2> HIDE DEF g0
  <2>2. SUFFICES ASSUME Odd # {} PROVE FALSE
    <3>1. Odd = {} => \A S \in SUBSET D : g0[S] \in Int
      OBVIOUS
    <3>2. Odd = {} => g0 \in [SUBSET D -> Int]
      BY <2>1, <3>1
    <3>3. QED
      BY <2>2, <3>2 DEF g0
  <2>3. PICK n \in Odd : \A m \in Odd : n <= m
    <3>1. Odd \in SUBSET Nat
      BY <1>1
    <3> HIDE DEF Odd
    <3>2. QED
      BY <2>2, <3>1, LeastExists
  <2>4. PICK S \in SUBSET D : Cardinality(S) = n /\ g0[S] \notin Int
    BY <2>3
  <2>5. g0[S] = IF S = {} THEN 0 ELSE f[Picked(S)] + g0[S \ {Picked(S)}]
    BY <1>7 DEF Sums, g0
  <2>6. S # {}
    BY <2>4, <2>5
  <2>7. /\ S \ {Picked(S)} \in SUBSET D /\ Cardinality(S \ {Picked(S)}) = n - 1 /\ f[Picked(S)] \in Int
        /\ n \in Nat
    BY <1>1, <1>2, <2>4, <2>6
  <2>8. n - 1 \notin Odd
    <3> HIDE DEF Odd
    <3>1. QED
      BY <2>3, <2>7
  <2>9. g0[S \ {Picked(S)}] \in Int
    BY <2>7, <2>8
  <2>10. QED
    BY <2>4, <2>5, <2>6, <2>7, <2>9
<1>9. QED
  BY <1>7, <1>8

\* SumOver(f, S) is the sum of f over a part of its domain; any member may be taken out of it.
SumOver(f, S) == Summed([x \in S |-> f[x]])

LEMMA SumOverIs ==
  ASSUME NEW D, IsFiniteSet(D), NEW f \in [D -> Int], NEW T \in SUBSET D
  PROVE  SumOver(f, T) = SumsOf(f)[T]
<1> DEFINE h == [x \in T |-> f[x]]
           Odd == {Cardinality(S) : S \in {U \in SUBSET T : SumsOf(h)[U] # SumsOf(f)[U]}}
<1>1. IsFiniteSet(T) /\ h \in [T -> Int]
  BY FS_Subset
<1>2. SumOver(f, T) = SumsOf(h)[T]
  BY SummedIs DEF SumOver
<1>3. /\ \A S \in SUBSET D : SumsOf(f)[S] = IF S = {} THEN 0 ELSE f[Picked(S)] + SumsOf(f)[S \ {Picked(S)}]
      /\ \A S \in SUBSET T : SumsOf(h)[S] = IF S = {} THEN 0 ELSE h[Picked(S)] + SumsOf(h)[S \ {Picked(S)}]
  <2>1. Sums(f, SumsOf(f), SUBSET D)
    BY SumsExist
  <2> HIDE DEF h
  <2>2. Sums(h, SumsOf(h), SUBSET T)
    BY <1>1, SumsExist
  <2>3. QED
    BY <2>1, <2>2 DEF Sums
<1>4. Odd = {}
  <2>1. SUFFICES ASSUME Odd # {} PROVE FALSE
    OBVIOUS
  <2>2. \A S \in SUBSET T : IsFiniteSet(S) /\ Cardinality(S) \in Nat
    BY <1>1, FS_Subset, FS_CardinalityType
  <2>3. PICK n \in Odd : \A m \in Odd : n <= m
    <3>1. Odd \in SUBSET Nat
      BY <2>2
    <3> HIDE DEF Odd
    <3>2. QED
      BY <2>1, <3>1, LeastExists
  <2>4. PICK S \in SUBSET T : Cardinality(S) = n /\ SumsOf(h)[S] # SumsOf(f)[S]
    BY <2>3
  <2>5. S # {} /\ S \in SUBSET D
    BY <1>3, <2>4
  <2>6. Picked(S) \in S /\ h[Picked(S)] = f[Picked(S)]
    BY <2>5 DEF Picked
  <2>7. S \ {Picked(S)} \in SUBSET T /\ Cardinality(S \ {Picked(S)}) = n - 1 /\ n \in Nat
    BY <2>2, <2>4, <2>6, FS_RemoveElement
  <2>8. n - 1 \notin Odd
    <3> HIDE DEF Odd
    <3>1. QED
      BY <2>3, <2>7
  <2>9. SumsOf(h)[S \ {Picked(S)}] = SumsOf(f)[S \ {Picked(S)}]
    BY <2>7, <2>8
  <2> HIDE DEF h
  <2>10. QED
    BY <1>3, <2>4, <2>5, <2>6, <2>9
<1>5. QED
  BY <1>2, <1>4

LEMMA SumTakes ==
  ASSUME NEW D, IsFiniteSet(D), NEW f \in [D -> Int]
  PROVE  /\ \A S \in SUBSET D : SumOver(f, S) \in Int
         /\ SumOver(f, {}) = 0
         /\ \A S \in SUBSET D, y \in D : y \in S => SumOver(f, S) = f[y] + SumOver(f, S \ {y})
<1> DEFINE s == SumsOf(f)
           Odd == {Cardinality(S) : S \in {U \in SUBSET D : \E y \in U : s[U] # f[y] + s[U \ {y}]}}
<1>1. /\ \A S \in SUBSET D : s[S] \in Int
      /\ \A S \in SUBSET D : s[S] = IF S = {} THEN 0 ELSE f[Picked(S)] + s[S \ {Picked(S)}]
      /\ \A S \in SUBSET D : SumOver(f, S) = s[S]
  <2>1. s \in [SUBSET D -> Int] /\ Sums(f, s, SUBSET D)
    BY SumsExist
  <2>2. \A S \in SUBSET D : SumOver(f, S) = s[S]
    BY SumOverIs
  <2> HIDE DEF s
  <2>3. QED
    BY <2>1, <2>2 DEF Sums
<1> HIDE DEF s
<1>2. \A S \in SUBSET D : IsFiniteSet(S) /\ Cardinality(S) \in Nat
  BY FS_Subset, FS_CardinalityType
<1>3. \A S \in SUBSET D : \A x \in S : S \ {x} \in SUBSET D /\ Cardinality(S \ {x}) = Cardinality(S) - 1
  BY <1>2, FS_RemoveElement
<1>4. Odd = {}
  <2>1. SUFFICES ASSUME Odd # {} PROVE FALSE
    OBVIOUS
  <2>2. PICK n \in Odd : \A m \in Odd : n <= m
    <3>1. Odd \in SUBSET Nat
      BY <1>2
    <3> HIDE DEF Odd
    <3>2. QED
      BY <2>1, <3>1, LeastExists
  <2>3. PICK S \in SUBSET D : Cardinality(S) = n /\ \E y \in S : s[S] # f[y] + s[S \ {y}]
    BY <2>2
  <2>4. PICK y \in S : s[S] # f[y] + s[S \ {y}]
    BY <2>3
  <2> DEFINE x == Picked(S)
  <2>5. x \in S /\ s[S] = f[x] + s[S \ {x}] /\ x # y
    BY <1>1, <2>4 DEF Picked
  <2> HIDE DEF x
  <2>6. n \in Nat /\ n - 1 \notin Odd
    <3>1. n \in Nat
      BY <1>2, <2>3
    <3> HIDE DEF Odd
    <3>2. QED
      BY <2>2, <3>1
  <2>7. \A U \in SUBSET D : Cardinality(U) = n - 1 => \A z \in U : s[U] = f[z] + s[U \ {z}]
    BY <2>6
  <2>8. /\ S \ {x} \in SUBSET D /\ Cardinality(S \ {x}) = n - 1 /\ y \in S \ {x}
        /\ S \ {y} \in SUBSET D /\ Cardinality(S \ {y}) = n - 1 /\ x \in S \ {y}
    BY <1>3, <2>3, <2>4, <2>5
  <2>9. /\ s[S \ {x}] = f[y] + s[(S \ {x}) \ {y}]
        /\ s[S \ {y}] = f[x] + s[(S \ {y}) \ {x}]
    BY <2>7, <2>8
  <2>10. (S \ {x}) \ {y} = (S \ {y}) \ {x} /\ (S \ {x}) \ {y} \in SUBSET D
    OBVIOUS
  <2>11. s[(S \ {x}) \ {y}] \in Int /\ f[x] \in Int /\ f[y] \in Int
    BY <1>1, <2>3, <2>4, <2>5, <2>10
  <2> DEFINE rest == s[(S \ {x}) \ {y}]
  <2>12. s[S] = f[x] + (f[y] + rest) /\ f[y] + s[S \ {y}] = f[y] + (f[x] + rest)
    BY <2>5, <2>9, <2>10
  <2> HIDE DEF rest
  <2>13. rest \in Int
    BY <2>11 DEF rest
  <2>14. s[S] = f[y] + s[S \ {y}]
    BY <2>11, <2>12, <2>13
  <2>15. QED
    BY <2>4, <2>14
<1>5. \A S \in SUBSET D : \A y \in S : s[S] = f[y] + s[S \ {y}]
  BY <1>4
<1>6. QED
  BY <1>1, <1>5

\* Induction on the parts of a finite set.
LEMMA PartsInduction ==
  ASSUME NEW D, IsFiniteSet(D), NEW Good, {} \in Good,
         \A S \in SUBSET D : \A y \in S : S \ {y} \in Good => S \in Good
  PROVE  \A S \in SUBSET D : S \in Good
<1> DEFINE Odd == {Cardinality(S) : S \in {U \in SUBSET D : U \notin Good}}
<1>1. \A S \in SUBSET D : IsFiniteSet(S) /\ Cardinality(S) \in Nat
  BY FS_Subset, FS_CardinalityType
<1>2. SUFFICES ASSUME Odd # {} PROVE FALSE
  OBVIOUS
<1>3. PICK n \in Odd : \A m \in Odd : n <= m
  <2>1. Odd \in SUBSET Nat
    BY <1>1
  <2> HIDE DEF Odd
  <2>2. QED
    BY <1>2, <2>1, LeastExists
<1>4. PICK S \in SUBSET D : Cardinality(S) = n /\ S \notin Good
  BY <1>3
<1>5. PICK y \in S : TRUE
  BY <1>4
<1>6. /\ S \ {y} \in SUBSET D /\ Cardinality(S \ {y}) = n - 1 /\ S \ {y} \notin Good
  BY <1>1, <1>4, <1>5, FS_RemoveElement
<1>7. n - 1 \in Odd /\ n \in Nat
  BY <1>1, <1>4, <1>6
<1> HIDE DEF Odd
<1>8. QED
  BY <1>3, <1>7

LEMMA SumUnion ==
  ASSUME NEW D, IsFiniteSet(D), NEW f \in [D -> Int], NEW A \in SUBSET D, NEW B \in SUBSET D, A \cap B = {}
  PROVE  SumOver(f, A \cup B) = SumOver(f, A) + SumOver(f, B)
<1> DEFINE Good == {S \in SUBSET B : SumOver(f, A \cup S) = SumOver(f, A) + SumOver(f, S)}
<1>1. /\ \A S \in SUBSET D : SumOver(f, S) \in Int
      /\ SumOver(f, {}) = 0
      /\ \A S \in SUBSET D, y \in D : y \in S => SumOver(f, S) = f[y] + SumOver(f, S \ {y})
  BY SumTakes
<1>2. {} \in Good
  <2>1. A \cup {} = A /\ SumOver(f, A) \in Int
    BY <1>1
  <2>2. QED
    BY <1>1, <2>1
<1>3. ASSUME NEW S \in SUBSET B, NEW y \in S, S \ {y} \in Good PROVE S \in Good
  <2>1. /\ (A \cup S) \ {y} = A \cup (S \ {y}) /\ A \cup S \in SUBSET D /\ S \in SUBSET D
        /\ y \in A \cup S /\ S \ {y} \in SUBSET D /\ y \in D
    OBVIOUS
  <2>2. SumOver(f, A \cup S) = f[y] + SumOver(f, (A \cup S) \ {y})
    BY <1>1, <2>1
  <2>3. SumOver(f, S) = f[y] + SumOver(f, S \ {y})
    BY <1>1, <2>1
  <2>4. SumOver(f, A \cup (S \ {y})) = SumOver(f, A) + SumOver(f, S \ {y})
    BY <1>3
  <2>5. f[y] \in Int /\ SumOver(f, A) \in Int /\ SumOver(f, S \ {y}) \in Int
    BY <1>1, <2>1
  <2>6. SumOver(f, A \cup S) = f[y] + (SumOver(f, A) + SumOver(f, S \ {y}))
    BY <2>1, <2>2, <2>4
  <2>7. QED
    BY <2>3, <2>5, <2>6
<1>4. IsFiniteSet(B)
  BY FS_Subset
<1> HIDE DEF Good
<1>5. B \in Good
  <2>1. \A S \in SUBSET B : \A y \in S : S \ {y} \in Good => S \in Good
    BY <1>3
  <2>2. \A S \in SUBSET B : S \in Good
    BY <1>2, <1>4, <2>1, PartsInduction
  <2>3. QED
    BY <2>2
<1>6. QED
  BY <1>5 DEF Good

\* Noughts add up to nothing, ones to the size of the set.
LEMMA SumConstant ==
  ASSUME NEW D, IsFiniteSet(D), NEW f \in [D -> Int], NEW A \in SUBSET D
  PROVE  /\ (\A x \in A : f[x] = 0) => SumOver(f, A) = 0
         /\ (\A x \in A : f[x] = 1) => SumOver(f, A) = Cardinality(A)
<1> DEFINE Good == {S \in SUBSET A : /\ (\A x \in A : f[x] = 0) => SumOver(f, S) = 0
                                     /\ (\A x \in A : f[x] = 1) => SumOver(f, S) = Cardinality(S)}
<1>1. /\ SumOver(f, {}) = 0
      /\ \A S \in SUBSET D, y \in D : y \in S => SumOver(f, S) = f[y] + SumOver(f, S \ {y})
  BY SumTakes
<1>2. {} \in Good
  BY <1>1, FS_EmptySet
<1>3. ASSUME NEW S \in SUBSET A, NEW y \in S, S \ {y} \in Good PROVE S \in Good
  <2>1. y \in D /\ y \in A /\ SumOver(f, S) = f[y] + SumOver(f, S \ {y})
    BY <1>1
  <2>2. Cardinality(S) \in Nat /\ Cardinality(S \ {y}) = Cardinality(S) - 1
    BY FS_Subset, FS_CardinalityType, FS_RemoveElement
  <2>3. /\ (\A x \in A : f[x] = 0) => SumOver(f, S \ {y}) = 0
        /\ (\A x \in A : f[x] = 1) => SumOver(f, S \ {y}) = Cardinality(S \ {y})
    BY <1>3
  <2>4. (\A x \in A : f[x] = 0) => SumOver(f, S) = 0
    BY <2>1, <2>3
  <2>5. (\A x \in A : f[x] = 1) => SumOver(f, S) = Cardinality(S)
    BY <2>1, <2>2, <2>3
  <2>6. QED
    BY <2>4, <2>5
<1>4. IsFiniteSet(A)
  BY FS_Subset
<1> HIDE DEF Good
<1>5. A \in Good
  BY <1>2, <1>3, <1>4, PartsInduction
<1>6. QED
  BY <1>5 DEF Good

\* Summing the sums of the parts is summing the whole.
LEMMA SumParts ==
  ASSUME NEW D, IsFiniteSet(D), NEW f \in [D -> Int], NEW V, IsFiniteSet(V), NEW part \in [D -> V],
         NEW h \in [V -> Int], \A v \in V : h[v] = SumOver(f, {x \in D : part[x] = v})
  PROVE  Summed(h) = SumOver(f, D)
<1> DEFINE In(U) == {x \in D : part[x] \in U}
           Good == {U \in SUBSET V : SumOver(h, U) = SumOver(f, In(U))}
<1>1. /\ SumOver(h, {}) = 0 /\ SumOver(f, {}) = 0
      /\ \A U \in SUBSET V, v \in V : v \in U => SumOver(h, U) = h[v] + SumOver(h, U \ {v})
  <2>1. SumOver(f, {}) = 0
    BY SumTakes
  <2>2. SumOver(h, {}) = 0 /\ \A U \in SUBSET V, v \in V : v \in U => SumOver(h, U) = h[v] + SumOver(h, U \ {v})
    BY SumTakes
  <2>3. QED
    BY <2>1, <2>2
<1>2. {} \in Good
  <2>1. In({}) = {}
    OBVIOUS
  <2>2. QED
    BY <1>1, <2>1
<1>3. ASSUME NEW U \in SUBSET V, NEW v \in U, U \ {v} \in Good PROVE U \in Good
  <2> DEFINE A == {x \in D : part[x] = v}
             B == In(U \ {v})
  <2>1. A \in SUBSET D /\ B \in SUBSET D /\ A \cap B = {} /\ In(U) = A \cup B
    OBVIOUS
  <2>2. SumOver(h, U) = h[v] + SumOver(h, U \ {v}) /\ h[v] = SumOver(f, A)
    BY <1>1
  <2>3. SumOver(h, U \ {v}) = SumOver(f, B)
    BY <1>3
  <2> HIDE DEF A, B
  <2>4. SumOver(f, A \cup B) = SumOver(f, A) + SumOver(f, B)
    BY <2>1, SumUnion
  <2>5. QED
    BY <2>1, <2>2, <2>3, <2>4
<1>4. In(V) = D
  OBVIOUS
<1>5. SumOver(h, V) = Summed(h)
  <2>1. [v \in V |-> h[v]] = h
    OBVIOUS
  <2>2. QED
    BY <2>1 DEF SumOver
<1> HIDE DEF Good, In
<1>6. V \in Good
  BY <1>2, <1>3, PartsInduction
<1>7. QED
  BY <1>4, <1>5, <1>6 DEF Good

\* A total, NULL counted as nothing, is a sum over the found.
Amount(R) == [r \in R |-> IF r.range = Null THEN 0 ELSE r.range]
\* sum(), where NULLs do not count.
LEMMA TotalIs ==
  ASSUME NEW R \in SUBSET Rows, IsFiniteSet(R), NEW S \in SUBSET R
  PROVE  Amount(R) \in [R -> Int] /\ Total0(Total(S, "range")) = SumOver(Amount(R), S)
<1> DEFINE valued == {r \in S : r["range"] # Null}
           w == Amount(R)
<1>1. w \in [R -> Int] /\ \A r \in R : w[r] = IF r.range = Null THEN 0 ELSE r.range
  BY RowsKeyed DEF RowsKeyed, Amount
<1>2. [r \in valued |-> r["range"]] = [r \in valued |-> w[r]]
  BY <1>1
<1>3. Total(S, "range") = IF valued = {} THEN Null ELSE SumOver(w, valued)
  BY <1>2 DEF Total, SumOver
<1>4. valued \in SUBSET R /\ S \ valued \in SUBSET R /\ valued \cap (S \ valued) = {} /\ valued \cup (S \ valued) = S
  OBVIOUS
<1>5. \A r \in S \ valued : w[r] = 0
  BY <1>1
<1> HIDE DEF w, valued
<1>6. SumOver(w, S) = SumOver(w, valued) + SumOver(w, S \ valued)
  BY <1>1, <1>4, SumUnion
<1>7. SumOver(w, S \ valued) = 0
  BY <1>1, <1>4, <1>5, SumConstant
<1>8. SumOver(w, valued) \in Int /\ SumOver(w, {}) = 0
  BY <1>1, <1>4, SumTakes
<1>9. Null \notin Int
  BY QueryConstants DEF QueryConstants
<1>10. SumOver(w, S) = SumOver(w, valued)
  BY <1>6, <1>7, <1>8
<1>11. Total0(Total(S, "range")) = SumOver(w, valued)
  <2>1. CASE valued = {}
    BY <1>3, <1>8, <2>1 DEF Total0
  <2>2. CASE valued # {}
    BY <1>3, <1>8, <1>9, <2>2 DEF Total0
  <2>3. QED
    BY <2>1, <2>2
<1>12. QED
  BY <1>1, <1>10, <1>11 DEF w

\* Every matching row is in one group of groupBy().
LEMMA GroupsDoAddUp ==
  ASSUME QueryTypeOK
  PROVE  GroupsAddUp
<1> DEFINE R == Selected(qs)
           Of(v) == {r \in R : r["parent"] = v}
           Group(v) == [key |-> v, rows |-> Cardinality(Of(v)), total |-> Total(Of(v), "range")]
           groups == {Group(v) : v \in {r["parent"] : r \in R}}
           part == [r \in R |-> Group(r["parent"])]
           one == [r \in R |-> 1]
           counts == [g \in groups |-> g.rows]
           totals == [g \in groups |-> Total0(g.total)]
<1>1. R \in SUBSET Rows /\ IsFiniteSet(R)
  <2>1. R \in SUBSET table
    BY DEF Selected
  <2>2. IsFiniteSet(R)
    BY <2>1, FS_Subset DEF QueryTypeOK, TableOK
  <2>3. QED
    BY <2>1, <2>2 DEF QueryTypeOK, TableOK
<1>2. GroupBy(qs, "parent") # Bad => GroupBy(qs, "parent") = groups
  BY DEF GroupBy
<1>3. Aggregate(qs).rows = Cardinality(R) /\ Aggregate(qs).total = Total(R, "range")
  BY DEF Aggregate
<1> HIDE DEF R
<1>4. IsFiniteSet(groups) /\ part \in [R -> groups]
  <2>1. part \in [R -> groups] /\ \A g \in groups : \E r \in R : part[r] = g
    OBVIOUS
  <2> HIDE DEF part, groups
  <2>2. part \in Surjection(R, groups)
    BY <2>1 DEF Surjection
  <2>3. QED
    BY <1>1, <2>1, <2>2, FS_Surjection
<1>5. ASSUME NEW g \in groups
      PROVE  /\ {r \in R : part[r] = g} = Of(g.key)
             /\ g.rows = Cardinality(Of(g.key)) /\ g.total = Total(Of(g.key), "range")
  <2>1. PICK v \in {r["parent"] : r \in R} : g = Group(v)
    OBVIOUS
  <2>2. g.key = v /\ g.rows = Cardinality(Of(v)) /\ g.total = Total(Of(v), "range")
    BY <2>1
  <2>3. \A r \in R : Group(r["parent"]).key = r["parent"]
    OBVIOUS
  <2> HIDE DEF Of, Group
  <2>4. \A r \in R : part[r] = g <=> r["parent"] = v
    BY <2>1, <2>2, <2>3
  <2>5. {r \in R : part[r] = g} = Of(v)
    BY <2>4 DEF Of
  <2>6. QED
    BY <2>2, <2>5
<1>6. \A v : Of(v) \in SUBSET R
  OBVIOUS
<1> HIDE DEF groups, part, Of, Group
<1>7. Summed(counts) = Cardinality(R)
  <2>1. one \in [R -> Int] /\ \A r \in R : one[r] = 1
    OBVIOUS
  <2> HIDE DEF one
  <2>2. \A S \in SUBSET R : SumOver(one, S) = Cardinality(S) /\ SumOver(one, S) \in Int
    BY <1>1, <2>1, SumConstant, SumTakes
  <2>3. counts \in [groups -> Int] /\ \A g \in groups : counts[g] = SumOver(one, {r \in R : part[r] = g})
    BY <1>5, <1>6, <2>2
  <2> HIDE DEF counts
  <2>4. Summed(counts) = SumOver(one, R)
    BY <1>1, <1>4, <2>1, <2>3, SumParts
  <2>5. QED
    BY <2>2, <2>4
<1>8. Summed(totals) = Total0(Total(R, "range"))
  <2> DEFINE w == Amount(R)
  <2>1. w \in [R -> Int] /\ \A S \in SUBSET R : Total0(Total(S, "range")) = SumOver(w, S)
    BY <1>1, TotalIs
  <2> HIDE DEF w
  <2>2. \A S \in SUBSET R : SumOver(w, S) \in Int
    BY <1>1, <2>1, SumTakes
  <2>3. totals \in [groups -> Int] /\ \A g \in groups : totals[g] = SumOver(w, {r \in R : part[r] = g})
    <3>1. ASSUME NEW g \in groups
          PROVE  /\ Total0(g.total) = SumOver(w, {r \in R : part[r] = g})
                 /\ SumOver(w, {r \in R : part[r] = g}) \in Int
      <4>1. g.total = Total(Of(g.key), "range") /\ {r \in R : part[r] = g} = Of(g.key) /\ Of(g.key) \in SUBSET R
        BY <1>5, <1>6
      <4>2. Total0(Total(Of(g.key), "range")) = SumOver(w, Of(g.key)) /\ SumOver(w, Of(g.key)) \in Int
        BY <2>1, <2>2, <4>1
      <4>3. QED
        BY <4>1, <4>2
    <3>2. QED
      BY <3>1
  <2> HIDE DEF totals
  <2>4. Summed(totals) = SumOver(w, R)
    BY <1>1, <1>4, <2>1, <2>3, SumParts
  <2>5. QED
    BY <2>1, <2>4
<1>9. QED
  BY <1>2, <1>3, <1>7, <1>8 DEF GroupsAddUp

(* count, exists, first, last, get, inBulk, groupBy, aggregate and prefetch of one queryset    *)
(* agree with the found it returns, whatever was chained, distinct or ranked, on both databases *)
(* and for any tables, conditions and orderings.                                               *)
THEOREM TerminalOperations == QuerySpec => []TerminalsAgree
<1>1. QueryInv => TerminalsAgree
  BY CountsDoAgree, GroupsDoAddUp, KeysDoAgree DEF QueryInv, TerminalsAgree
<1>2. QED
  BY QuerySafety, <1>1, PTL

-----------------------------------------------------------------------------
(* The paginators *)

\* Products, quotients and the pages that so many found fill.
LEMMA Times ==
  ASSUME NEW a \in Int, NEW b \in Int, NEW p \in Nat, a <= b
  PROVE  a * p <= b * p /\ a * p \in Int /\ b * p \in Int
OBVIOUS
LEMMA Divides == ASSUME NEW n \in Nat, NEW p \in Nat \ {0}
  PROVE n \div p \in Nat /\ (n \div p) * p <= n /\ n < (n \div p) * p + p
OBVIOUS
LEMMA Distr ==
  ASSUME NEW a \in Int, NEW p \in Int
  PROVE  (a + 1) * p = a * p + p /\ (a - 1) * p = a * p - p /\ a * p \in Int
OBVIOUS
LEMMA Ceiling ==
  ASSUME NEW c \in Nat, NEW p \in Nat \ {0}, NEW k \in Nat
  PROVE  k <= (c + p - 1) \div p <=> (k - 1) * p < c
<1> DEFINE d == (c + p - 1) \div p
<1>1. c + p - 1 \in Nat
  OBVIOUS
<1>2. d \in Nat /\ d * p <= c + p - 1 /\ c + p - 1 < d * p + p
  BY <1>1, Divides
<1> HIDE DEF d
<1>3. (k - 1) * p = k * p - p /\ k * p \in Int /\ d * p \in Int /\ (d + 1) * p = d * p + p
  BY <1>2, Distr
<1>4. ASSUME k <= d PROVE k * p <= d * p
  BY <1>2, <1>4, Times
<1>5. ASSUME d + 1 <= k PROVE (d + 1) * p <= k * p
  <2>1. d + 1 \in Int /\ k \in Int /\ p \in Nat
    BY <1>2
  <2>2. QED
    BY <1>5, <2>1, Times
<1>6. k <= d <=> (k - 1) * p < c
  <2>1. k <= d \/ d + 1 <= k
    BY <1>2
  <2>2. CASE k <= d
    BY <1>2, <1>3, <1>4, <2>2
  <2>3. CASE d + 1 <= k
    BY <1>2, <1>3, <1>5, <2>3
  <2>4. QED
    BY <2>1, <2>2, <2>3
<1>7. QED
  BY <1>6 DEF d

\* A page or an offset is a window of the queryset's found.
LEMMA SliceIs ==
  ASSUME NEW q, QueryOK(q), NEW start \in Nat, NEW stop \in Nat
  PROVE  Slice(q, start, stop) = From(q, start, stop - start)
<1>1. stop # Unset
  BY DEF Unset
<1>2. Slice(q, start, stop) = [q EXCEPT !.offset = start, !.limit = stop - start]
  <2>1. \A x : (IF stop = Unset THEN x ELSE stop - start) = stop - start
    BY <1>1
  <2>2. QED
    BY <2>1 DEF Slice
<1>3. QED
  BY <1>2 DEF From

LEMMA OnePage ==
  ASSUME QueryTypeOK, Whole, NEW start \in Nat
  PROVE  LET found == Execute(qs)
             results == Execute(Slice(qs, start, start + PageSize))
         IN  /\ results = SubSeq(found, start + 1, IF start + PageSize < Len(found) THEN start + PageSize ELSE Len(found))
             /\ start < Len(found) => results # <<>>
             /\ Len(found) \in Nat /\ Count(qs) = Len(found)
<1> DEFINE found == Execute(qs)
           N == Len(found)
           results == Execute(Slice(qs, start, start + PageSize))
           stop == IF start + PageSize < N THEN start + PageSize ELSE N
<1>1. TableOK /\ QueryOK(qs) /\ qs.limit = Unset /\ qs.offset = 0 /\ PageSize \in Nat \ {0}
  BY QueryConstants DEF QueryTypeOK, Whole, QueryConstants
<1>2. Count(qs) = N /\ found = Results(qs)
  BY <1>1, CountsResults
<1>3. N \in Nat /\ found = [i \in 1..N |-> found[i]]
  BY <1>1, <1>2, ResultsIs
<1>4. Slice(qs, start, start + PageSize) = From(qs, start, PageSize)
  <2>1. start + PageSize \in Nat /\ (start + PageSize) - start = PageSize
    BY <1>1
  <2>2. Slice(qs, start, start + PageSize) = From(qs, start, (start + PageSize) - start)
    BY <1>1, <2>1, SliceIs
  <2>3. QED
    BY <2>1, <2>2
<1>5. results = SubSeq(found, start + 1, stop)
  <2>1. Execute(From(qs, start, PageSize))
          = SubSeq(Results(qs), start + 1,
                   IF start + PageSize < Len(Results(qs)) THEN start + PageSize ELSE Len(Results(qs)))
    BY <1>1, Windowed
  <2>2. QED
    BY <1>2, <1>4, <2>1
<1> HIDE DEF found, results, N
<1>6. start < N => results # <<>>
  <2>1. SUFFICES ASSUME start < N PROVE results # <<>>
    OBVIOUS
  <2>2. stop \in Nat /\ start + 1 <= stop
    BY <1>1, <1>3, <2>1
  <2> HIDE DEF stop
  <2>3. \A i \in (start + 1)..stop : found[i] \in {found[j] : j \in (start + 1)..stop}
    OBVIOUS
  <2>4. Len(results) = stop - (start + 1) + 1
    BY <1>5, <2>2, <2>3, SubSeqProperties
  <2>5. Len(results) > 0
    BY <2>2, <2>4
  <2>6. QED
    BY <2>5
<1>7. QED
  BY <1>2, <1>3, <1>5, <1>6 DEF found, results, N

\* The page-number paginator, whose last page is the count divided by the page size, rounded up.
LEMMA PagesDoCover ==
  ASSUME QueryTypeOK, Whole, NEW page \in PagesVisited(qs)
  PROVE  Covered(Execute(qs), PageNumber(qs, page, PageSize), (page - 1) * PageSize, page + 1)
<1> DEFINE found == Execute(qs)
           N == Len(found)
           P == PageSize
           start == (page - 1) * P
           last == (Count(qs) + P - 1) \div P
           Goto(k) == IF k < (IF last > 1 THEN last ELSE 1) THEN k + 1 ELSE 0
<1>1. P \in Nat \ {0} /\ page \in Nat /\ page >= 1
  <2>1. Cardinality(table) \in Nat
    BY FS_CardinalityType DEF QueryTypeOK, TableOK
  <2>2. page \in 1..(Cardinality(table) + 1)
    BY DEF PagesVisited
  <2>3. QED
    BY <2>1, <2>2, QueryConstants DEF QueryConstants
<1>2. start \in Nat /\ page * P = start + P
  <2>1. (page - 1) * P = page * P - P /\ page * P \in Int
    BY <1>1, Distr
  <2>2. 1 * P <= page * P /\ 1 * P = P
    BY <1>1, Times
  <2>3. QED
    BY <1>1, <2>1, <2>2
<1> HIDE DEF start
<1>3. /\ Execute(Slice(qs, start, start + P)) = SubSeq(found, start + 1, IF start + P < N THEN start + P ELSE N)
      /\ start < N => Execute(Slice(qs, start, start + P)) # <<>>
      /\ N \in Nat /\ Count(qs) = N
  BY <1>2, OnePage
<1>4. /\ PageNumber(qs, page, P).results = Execute(Slice(qs, start, start + P))
      /\ PageNumber(qs, page, P).next = Goto(page)
      /\ \A k : PageNumber(qs, k, P).next = Goto(k)
  BY <1>2 DEF PageNumber, start
<1> HIDE DEF found, N
<1>5. \A k \in Nat : k <= last <=> (k - 1) * P < N
  BY <1>1, <1>3, Ceiling
<1>6. last \in Nat
  <2>1. N + P - 1 \in Nat
    BY <1>1, <1>3
  <2>2. QED
    BY <1>1, <1>3, <2>1, Divides
<1> HIDE DEF last
<1>7. start = 0 \/ start < N
  <2>1. CASE page = 1
    BY <1>1, <2>1 DEF start
  <2>2. CASE page # 1
    <3>1. page - 1 \in 1..(page - 1)
      BY <1>1, <2>2
    <3>2. Goto(page - 1) = (page - 1) + 1
      BY <1>4, <3>1 DEF PagesVisited
    <3>3. page <= last
      BY <1>1, <1>6, <2>2, <3>2
    <3>4. QED
      BY <1>1, <1>5, <3>3 DEF start
  <2>3. QED
    BY <2>1, <2>2
<1>8. IF Goto(page) = 0 THEN N <= start + P ELSE Goto(page) = page + 1
  <2>1. SUFFICES ASSUME Goto(page) = 0 PROVE N <= start + P
    OBVIOUS
  <2>2. ~(page + 1 <= last) /\ page + 1 \in Nat
    BY <1>1, <1>6, <2>1
  <2>3. ~(((page + 1) - 1) * P < N)
    BY <1>5, <2>2
  <2>4. (page + 1) - 1 = page
    BY <1>1
  <2>5. QED
    BY <1>1, <1>2, <1>3, <2>3, <2>4
<1> HIDE DEF Goto
<1>9. Covered(found, PageNumber(qs, page, P), start, page + 1)
  BY <1>3, <1>4, <1>7, <1>8 DEF Covered, N
<1>10. QED
  BY <1>9 DEF found, start

\* The limit-and-offset paginator, whose next link is there while the count is beyond the page.
LEMMA OffsetsDoCover ==
  ASSUME QueryTypeOK, Whole, NEW offset \in OffsetsVisited(qs)
  PROVE  Covered(Execute(qs), LimitOffset(qs, offset, PageSize), offset, offset + PageSize)
<1> DEFINE found == Execute(qs)
           N == Len(found)
           P == PageSize
           Goto(o) == IF o + P < Count(qs) THEN o + P ELSE 0
<1>1. P \in Nat \ {0} /\ Cardinality(table) \in Nat
  BY QueryConstants, FS_CardinalityType DEF QueryConstants, QueryTypeOK, TableOK
<1>2. PICK m \in 0..Cardinality(table) :
        offset = m * P /\ \A k \in 0..(m - 1) : LimitOffset(qs, k * P, P).next = (k + 1) * P
  BY DEF OffsetsVisited
<1>3. offset \in Nat
  <2>1. m \in Nat /\ 0 * P <= m * P /\ 0 * P = 0
    BY <1>1, <1>2, Times
  <2>2. m * P \in Int
    BY <1>1, <2>1, Distr
  <2>3. QED
    BY <1>2, <2>1, <2>2
<1>4. /\ Execute(Slice(qs, offset, offset + P)) = SubSeq(found, offset + 1, IF offset + P < N THEN offset + P ELSE N)
      /\ offset < N => Execute(Slice(qs, offset, offset + P)) # <<>>
      /\ N \in Nat /\ Count(qs) = N
  BY <1>3, OnePage
<1>5. /\ LimitOffset(qs, offset, P).results = Execute(Slice(qs, offset, offset + P))
      /\ \A o : LimitOffset(qs, o, P).next = Goto(o)
  BY DEF LimitOffset
<1> HIDE DEF found, N
<1>6. offset = 0 \/ offset < N
  <2>1. CASE m = 0
    BY <1>1, <1>2, <2>1
  <2>2. CASE m # 0
    <3>1. m - 1 \in 0..(m - 1) /\ (m - 1) + 1 = m /\ m \in Nat
      BY <1>1, <1>2, <2>2
    <3>2. Goto((m - 1) * P) = offset
      BY <1>2, <1>5, <3>1
    <3>3. (m - 1) * P + P = m * P
      BY <1>1, <3>1, Distr
    <3>4. QED
      BY <1>1, <1>2, <1>3, <1>4, <3>2, <3>3
  <2>3. QED
    BY <2>1, <2>2
<1>7. IF Goto(offset) = 0 THEN N <= offset + P ELSE Goto(offset) = offset + P
  BY <1>1, <1>3, <1>4
<1> HIDE DEF Goto
<1>8. Covered(found, LimitOffset(qs, offset, P), offset, offset + P)
  BY <1>4, <1>5, <1>6, <1>7 DEF Covered, N
<1>9. QED
  BY <1>8 DEF found

(* Following next from the first page (PageNumberPagination, LimitOffsetPagination) shows the  *)
(* queryset's found page by page in order where the ordering is total, with no empty page and   *)
(* no last page before the last row, for any page size and any number of found.                 *)
THEOREM Pagination == QuerySpec => []PagesCover
<1>1. QueryInv => PagesCover
  BY PagesDoCover, OffsetsDoCover DEF QueryInv, PagesCover
<1>2. QED
  BY QuerySafety, <1>1, PTL

-----------------------------------------------------------------------------
(* What a lookup says *)

\* A part of a text, n long from its character s + 1 on.
Taken(h, s, n) == s + Len(n) <= Len(h) /\ \A i \in 1..Len(n) : h[s + i] = n[i]
Jokers == {<<>>, Wildcard}

\* A function on 1..n is a sequence.
LEMMA FunctionSeq ==
  ASSUME NEW S, NEW n \in Nat, NEW f \in [1..n -> S]
  PROVE  f \in Seq(S) /\ Len(f) = n
<1>1. f \in UNION {[1..k -> S] : k \in Nat}
  OBVIOUS
<1>2. f \in Seq(S)
  BY <1>1, SeqDef
<1>3. QED
  BY <1>2

\* Where the elements of a concatenation are.
LEMMA ConcatAt ==
  ASSUME NEW S, NEW u \in Seq(S), NEW v \in Seq(S)
  PROVE  /\ u \o v \in Seq(S) /\ Len(u \o v) = Len(u) + Len(v)
         /\ \A i \in 1..Len(u) : (u \o v)[i] = u[i]
         /\ \A i \in 1..Len(v) : (u \o v)[Len(u) + i] = v[i]
<1>1. Len(u) \in Nat /\ Len(v) \in Nat
  BY LenProperties
<1>2. /\ u \o v \in Seq(S) /\ Len(u \o v) = Len(u) + Len(v)
      /\ \A i \in 1..(Len(u) + Len(v)) : (u \o v)[i] = IF i <= Len(u) THEN u[i] ELSE v[i - Len(u)]
  BY ConcatProperties
<1>3. ASSUME NEW i \in 1..Len(v) PROVE (u \o v)[Len(u) + i] = v[i]
  <2>1. Len(u) + i \in 1..(Len(u) + Len(v)) /\ ~(Len(u) + i <= Len(u)) /\ (Len(u) + i) - Len(u) = i
    BY <1>1
  <2>2. QED
    BY <1>2, <2>1
<1>4. QED
  BY <1>1, <1>2, <1>3

\* A pattern: perhaps a wildcard, an escaped text, perhaps a wildcard.
LEMMA PatternIs ==
  ASSUME NEW C, NEW n \in Seq(C), NEW pre \in Jokers, NEW post \in Jokers
  PROVE  LET pattern == pre \o EscapeLike(n) \o post
         IN  /\ Len(pre) \in {0, 1} /\ Len(post) \in {0, 1} /\ Len(n) \in Nat
             /\ Len(pattern) = Len(pre) + Len(n) + Len(post)
             /\ \A i \in 1..Len(pattern) :
                  pattern[i].wild <=> i <= Len(pre) \/ i > Len(pre) + Len(n)
             /\ \A i \in 1..Len(n) : pattern[Len(pre) + i].char = n[i]
<1> DEFINE S == [char: C \cup {"%"}, wild: BOOLEAN]
           e == EscapeLike(n)
<1>1. Len(n) \in Nat /\ DOMAIN n = 1..Len(n) /\ n \in [1..Len(n) -> C]
  BY LenProperties
<1>2. e \in [1..Len(n) -> S] /\ \A i \in 1..Len(n) : e[i].char = n[i] /\ e[i].wild = FALSE
  BY <1>1 DEF EscapeLike
<1>3. e \in Seq(S) /\ Len(e) = Len(n)
  <2> HIDE DEF S, e
  <2>1. QED
    BY <1>1, <1>2, FunctionSeq
<1>4. ASSUME NEW p \in Jokers
      PROVE  p \in Seq(S) /\ Len(p) \in {0, 1} /\ \A i \in 1..Len(p) : p[i].wild = TRUE
  <2>1. CASE p = <<>>
    BY <2>1
  <2>2. CASE p = Wildcard
    <3>1. [char |-> "%", wild |-> TRUE] \in S
      OBVIOUS
    <3>2. Wildcard \in Seq(S) /\ Len(Wildcard) = 1 /\ Wildcard[1] = [char |-> "%", wild |-> TRUE]
      <4> HIDE DEF S
      <4>1. QED
        BY <3>1 DEF Wildcard
    <3>3. QED
      BY <2>2, <3>2
  <2>3. QED
    BY <2>1, <2>2 DEF Jokers
<1> HIDE DEF S, e
<1>5. pre \o e \in Seq(S) /\ Len(pre \o e) = Len(pre) + Len(n)
  <2>1. e \in Seq(S) /\ pre \in Seq(S)
    BY <1>3, <1>4
  <2>2. pre \o e \in Seq(S) /\ Len(pre \o e) = Len(pre) + Len(e)
    BY <2>1, ConcatProperties
  <2>3. QED
    BY <1>3, <2>2
<1>6. /\ Len((pre \o e) \o post) = Len(pre) + Len(n) + Len(post)
      /\ \A i \in 1..Len(pre) : ((pre \o e) \o post)[i] = pre[i]
      /\ \A i \in 1..Len(n) : ((pre \o e) \o post)[Len(pre) + i] = e[i]
      /\ \A i \in 1..Len(post) : ((pre \o e) \o post)[Len(pre) + Len(n) + i] = post[i]
  <2>1. /\ \A i \in 1..Len(pre) : (pre \o e)[i] = pre[i]
        /\ \A i \in 1..Len(n) : (pre \o e)[Len(pre) + i] = e[i]
    <3>1. e \in Seq(S) /\ pre \in Seq(S)
      BY <1>3, <1>4
    <3>2. /\ \A i \in 1..Len(pre) : (pre \o e)[i] = pre[i]
          /\ \A i \in 1..Len(e) : (pre \o e)[Len(pre) + i] = e[i]
      BY <3>1, ConcatAt
    <3>3. QED
      BY <1>3, <3>2
  <2>2. /\ Len((pre \o e) \o post) = Len(pre \o e) + Len(post)
        /\ \A i \in 1..Len(pre \o e) : ((pre \o e) \o post)[i] = (pre \o e)[i]
        /\ \A i \in 1..Len(post) : ((pre \o e) \o post)[Len(pre \o e) + i] = post[i]
    <3>1. pre \o e \in Seq(S) /\ post \in Seq(S)
      BY <1>4, <1>5
    <3>2. QED
      BY <3>1, ConcatAt
  <2>3. \A i \in 1..Len(pre) : i \in 1..Len(pre \o e)
    BY <1>1, <1>4, <1>5
  <2>4. \A i \in 1..Len(n) : Len(pre) + i \in 1..Len(pre \o e)
    BY <1>1, <1>4, <1>5
  <2>5. QED
    BY <1>5, <2>1, <2>2, <2>3, <2>4
<1> DEFINE pattern == (pre \o e) \o post
<1> HIDE DEF pattern
<1>7. ASSUME NEW i \in 1..Len(pattern) PROVE pattern[i].wild <=> i <= Len(pre) \/ i > Len(pre) + Len(n)
  <2>1. /\ Len(pattern) = Len(pre) + Len(n) + Len(post)
        /\ \A k \in 1..Len(pre) : pattern[k].wild = TRUE
        /\ \A k \in 1..Len(n) : pattern[Len(pre) + k].wild = FALSE
        /\ \A k \in 1..Len(post) : pattern[Len(pre) + Len(n) + k].wild = TRUE
    <3>1. \A k \in 1..Len(n) : e[k].wild = FALSE
      BY <1>2
    <3>2. /\ \A k \in 1..Len(pre) : pre[k].wild = TRUE
          /\ \A k \in 1..Len(post) : post[k].wild = TRUE
      BY <1>4
    <3>3. /\ Len(pattern) = Len(pre) + Len(n) + Len(post)
          /\ \A k \in 1..Len(pre) : pattern[k] = pre[k]
          /\ \A k \in 1..Len(n) : pattern[Len(pre) + k] = e[k]
          /\ \A k \in 1..Len(post) : pattern[Len(pre) + Len(n) + k] = post[k]
      BY <1>6 DEF pattern
    <3>4. QED
      BY <3>1, <3>2, <3>3
  <2>2. CASE i <= Len(pre)
    BY <1>1, <1>4, <2>1, <2>2
  <2>3. CASE i > Len(pre) /\ i <= Len(pre) + Len(n)
    <3>1. i - Len(pre) \in 1..Len(n) /\ i = Len(pre) + (i - Len(pre))
      BY <1>1, <1>4, <2>3
    <3>2. QED
      <4>1. pattern[i].wild = FALSE
        BY <2>1, <3>1
      <4>2. ~(i <= Len(pre)) /\ ~(i > Len(pre) + Len(n))
        BY <1>1, <1>4, <2>1, <2>3
      <4>3. QED
        BY <4>1, <4>2
  <2>4. CASE i > Len(pre) + Len(n)
    <3>1. /\ i - (Len(pre) + Len(n)) \in 1..Len(post)
          /\ i = Len(pre) + Len(n) + (i - (Len(pre) + Len(n)))
      BY <1>1, <1>4, <2>1, <2>4
    <3>2. QED
      BY <1>1, <1>4, <2>1, <2>4, <3>1
  <2>5. QED
    BY <1>1, <1>4, <2>2, <2>3, <2>4
<1>8. QED
  BY <1>1, <1>2, <1>4, <1>6, <1>7 DEF pattern, e

\* A pattern of one escaped text takes it where it stands, at the beginning or the end of the
\* text where there is no wildcard before or after it.
LEMMA LikesPart ==
  ASSUME NEW C, NEW h \in Seq(C), NEW n \in Seq(C), NEW pre \in Jokers, NEW post \in Jokers
  PROVE  Likes(h, pre \o EscapeLike(n) \o post)
           <=> \E s \in 0..Len(h) : /\ Taken(h, s, n)
                                    /\ pre = <<>> => s = 0
                                    /\ post = <<>> => s + Len(n) = Len(h)
<1> DEFINE p == pre \o EscapeLike(n) \o post
           a == Len(pre)
           b == Len(post)
           m == Len(n)
<1>1. /\ a \in {0, 1} /\ b \in {0, 1} /\ m \in Nat /\ Len(h) \in Nat
      /\ Len(p) = a + m + b
      /\ \A i \in 1..Len(p) : p[i].wild <=> i <= a \/ i > a + m
      /\ \A i \in 1..m : p[a + i].char = n[i]
      /\ pre = <<>> <=> a = 0
      /\ post = <<>> <=> b = 0
  <2>1. \A x \in Jokers : x = <<>> <=> Len(x) = 0
    BY DEF Jokers, Wildcard
  <2>2. QED
    <3>1. Len(h) \in Nat
      BY LenProperties
    <3>2. /\ a \in {0, 1} /\ b \in {0, 1} /\ m \in Nat
          /\ Len(p) = a + m + b
          /\ \A i \in 1..Len(p) : p[i].wild <=> i <= a \/ i > a + m
          /\ \A i \in 1..m : p[a + i].char = n[i]
      BY PatternIs
    <3>3. QED
      BY <2>1, <3>1, <3>2
<1> HIDE DEF p, a, b, m
<1>2. ASSUME Likes(h, p)
      PROVE  \E s \in 0..Len(h) : Taken(h, s, n) /\ (a = 0 => s = 0) /\ (b = 0 => s + m = Len(h))
  <2>1. PICK at \in [0..Len(p) -> 0..Len(h)] :
          /\ at[0] = 0 /\ at[Len(p)] = Len(h)
          /\ \A i \in 1..Len(p) : IF p[i].wild THEN at[i - 1] <= at[i]
                                  ELSE at[i] = at[i - 1] + 1 /\ h[at[i]] = p[i].char
    BY <1>2 DEF Likes
  <2> DEFINE s == at[a]
             Off == {i \in 1..m : at[a + i] # s + i}
  <2>2. s \in 0..Len(h) /\ \A i \in 0..Len(p) : at[i] \in 0..Len(h)
    BY <1>1, <2>1
  <2>3. \A i \in 1..m : at[a + i] = at[(a + i) - 1] + 1 /\ h[at[a + i]] = n[i]
    <3>1. ASSUME NEW i \in 1..m PROVE a + i \in 1..Len(p) /\ ~p[a + i].wild /\ p[a + i].char = n[i]
      <4>1. a + i \in 1..Len(p) /\ ~(a + i <= a \/ a + i > a + m)
        BY <1>1
      <4>2. QED
        BY <1>1, <4>1
    <3>2. QED
      BY <2>1, <3>1
  <2>4. Off = {}
    <3>1. SUFFICES ASSUME Off # {} PROVE FALSE
      OBVIOUS
    <3>2. Off \in SUBSET Nat
      OBVIOUS
    <3>3. PICK i \in Off : \A j \in Off : i <= j
      <4> HIDE DEF Off
      <4>1. QED
        BY <3>1, <3>2, LeastExists
    <3>4. at[a + i] = at[(a + i) - 1] + 1 /\ i \in 1..m
      BY <2>3
    <3>5. CASE i = 1
      <4>1. (a + 1) - 1 = a
        BY <1>1
      <4>2. at[a + 1] = s + 1
        BY <3>4, <3>5, <4>1
      <4>3. QED
        BY <3>5, <4>2
    <3>6. CASE i # 1
      <4>1. i - 1 \in 1..m /\ (a + i) - 1 = a + (i - 1) /\ i - 1 < i
        BY <1>1, <3>6
      <4>2. at[a + (i - 1)] = s + (i - 1)
        BY <1>1, <3>3, <4>1
      <4>3. at[a + i] = s + i
        <5>1. at[a + i] = (s + (i - 1)) + 1
          BY <3>4, <4>1, <4>2
        <5>2. QED
          BY <1>1, <2>2, <3>4, <5>1
      <4>4. QED
        BY <4>3
    <3>7. QED
      BY <3>5, <3>6
  <2>5. \A i \in 1..m : at[a + i] = s + i /\ h[s + i] = n[i]
    BY <2>3, <2>4
  <2>6. at[a + m] = s + m /\ a + m \in 0..Len(p)
    <3>1. CASE m = 0
      <4>1. a + m = a /\ s + m = s
        BY <1>1, <2>2, <3>1
      <4>2. QED
        BY <1>1, <4>1
    <3>2. CASE m # 0
      BY <1>1, <2>5, <3>2
    <3>3. QED
      BY <3>1, <3>2
  <2>7. s + m <= Len(h) /\ (b = 0 => s + m = Len(h)) /\ (a = 0 => s = 0)
    <3>1. b = 0 => a + m = Len(p)
      BY <1>1
    <3>2. QED
      BY <1>1, <2>1, <2>2, <2>6, <3>1
  <2>8. Taken(h, s, n)
    BY <2>5, <2>7 DEF Taken, m
  <2>9. QED
    BY <2>2, <2>7, <2>8
<1>3. ASSUME NEW s \in 0..Len(h), Taken(h, s, n), a = 0 => s = 0, b = 0 => s + m = Len(h)
      PROVE  Likes(h, p)
  <2> DEFINE at == [i \in 0..Len(p) |-> IF i < a THEN 0 ELSE IF i <= a + m THEN s + (i - a) ELSE Len(h)]
  <2>1. s + m <= Len(h) /\ \A i \in 1..m : h[s + i] = n[i]
    BY <1>3 DEF Taken, m
  <2>2. at \in [0..Len(p) -> 0..Len(h)]
    <3>1. ASSUME NEW i \in 0..Len(p)
          PROVE (IF i < a THEN 0 ELSE IF i <= a + m THEN s + (i - a) ELSE Len(h)) \in 0..Len(h)
      BY <1>1, <2>1
    <3>2. QED
      BY <3>1
  <2>3. at[0] = 0 /\ at[Len(p)] = Len(h)
    <3>1. 0 \in 0..Len(p) /\ Len(p) \in 0..Len(p) /\ Len(p) \in Nat
      BY <1>1
    <3>2. at[0] = 0
      BY <1>1, <1>3, <3>1
    <3>3. at[Len(p)] = Len(h)
      BY <1>1, <1>3, <3>1
    <3>4. QED
      BY <3>2, <3>3
  <2>4. ASSUME NEW i \in 1..Len(p)
        PROVE  IF p[i].wild THEN at[i - 1] <= at[i]
               ELSE at[i] = at[i - 1] + 1 /\ h[at[i]] = p[i].char
    <3>1. i \in 0..Len(p) /\ i - 1 \in 0..Len(p) /\ i \in Nat /\ Len(p) \in Nat
      BY <1>1
    <3>2. CASE i <= a
      <4>1. p[i].wild /\ i = 1 /\ a = 1
        BY <1>1, <3>2
      <4>2. at[i - 1] = 0 /\ at[i] \in 0..Len(h)
        BY <2>2, <3>1, <4>1
      <4>3. QED
        BY <1>1, <4>1, <4>2
    <3>3. CASE i > a + m
      <4>1. p[i].wild
        BY <1>1, <3>3
      <4>2. at[i] = Len(h) /\ at[i - 1] \in 0..Len(h)
        <5>1. at[i - 1] \in 0..Len(h)
          <6> HIDE DEF at
          <6>1. QED
            BY <2>2, <3>1
        <5>2. ~(i < a) /\ ~(i <= a + m)
          BY <1>1, <3>1, <3>3
        <5>3. at[i] = Len(h)
          BY <3>1, <5>2
        <5>4. QED
          BY <5>1, <5>3
      <4>3. QED
        BY <1>1, <4>1, <4>2
    <3>4. CASE i > a /\ i <= a + m
      <4>1. ~p[i].wild /\ i - a \in 1..m /\ a + (i - a) = i
        BY <1>1, <3>1, <3>4
      <4>2. at[i] = s + (i - a) /\ at[i - 1] = s + ((i - 1) - a)
        BY <1>1, <3>1, <3>4
      <4>3. p[i].char = n[i - a] /\ h[s + (i - a)] = n[i - a]
        BY <1>1, <2>1, <4>1
      <4>4. s + (i - a) = (s + ((i - 1) - a)) + 1
        BY <1>1, <3>1
      <4>5. QED
        BY <4>1, <4>2, <4>3, <4>4
    <3>5. QED
      BY <1>1, <3>1, <3>2, <3>3, <3>4
  <2>5. QED
    <3> HIDE DEF at
    <3>1. QED
      BY <2>2, <2>3, <2>4 DEF Likes
<1>4. QED
  BY <1>1, <1>2, <1>3 DEF p, m

\* When a subsequence is a given text.
LEMMA PartIs ==
  ASSUME NEW C, NEW h \in Seq(C), NEW n \in Seq(C), NEW i \in 0..Len(h), NEW j \in 0..Len(h)
  PROVE  SubSeq(h, i + 1, j) = n <=> IF i <= j THEN Len(n) = j - i /\ Taken(h, i, n) ELSE n = <<>>
<1>1. /\ Len(h) \in Nat /\ Len(n) \in Nat /\ DOMAIN n = 1..Len(n) /\ DOMAIN h = 1..Len(h)
      /\ h \in [1..Len(h) -> C]
  BY LenProperties
<1>2. CASE j < i
  <2>1. SubSeq(h, i + 1, j) = <<>>
    <3>1. i + 1 \in Int /\ j \in Int /\ j < i + 1
      BY <1>1, <1>2
    <3>2. QED
      BY <3>1, SubSeqEmpty
  <2>2. ~(i <= j)
    BY <1>1, <1>2
  <2>3. QED
    BY <2>1, <2>2
<1>3. CASE i <= j
  <2> DEFINE p == SubSeq(h, i + 1, j)
  <2>1. p \in Seq(C) /\ Len(p) = j - i /\ \A k \in 1..(j - i) : p[k] = h[i + k]
    <3>1. i + 1 \in Int /\ j \in Int /\ (j - (i + 1)) + 1 = j - i
      BY <1>1
    <3>2. \A k \in (i + 1)..j : h[k] \in C
      BY <1>1
    <3>3. /\ p \in Seq(C)
          /\ Len(p) = IF i + 1 <= j THEN (j - (i + 1)) + 1 ELSE 0
          /\ \A k \in 1..((j - (i + 1)) + 1) : p[k] = h[((i + 1) + k) - 1]
      BY <3>1, <3>2, SubSeqProperties
    <3>4. Len(p) = j - i
      BY <1>1, <1>3, <3>3
    <3>5. \A k \in 1..(j - i) : ((i + 1) + k) - 1 = i + k
      BY <1>1
    <3>6. QED
      BY <3>1, <3>3, <3>4, <3>5
  <2> HIDE DEF p
  <2>2. ASSUME p = n PROVE Len(n) = j - i /\ Taken(h, i, n)
    <3>1. Len(n) = j - i /\ i + Len(n) <= Len(h)
      BY <1>1, <1>3, <2>1, <2>2
    <3>2. QED
      BY <2>1, <2>2, <3>1 DEF Taken
  <2>3. ASSUME Len(n) = j - i, Taken(h, i, n) PROVE p = n
    <3>1. Len(p) = Len(n) /\ \A k \in 1..Len(p) : p[k] = n[k]
      BY <2>1, <2>3 DEF Taken
    <3>2. QED
      BY <2>1, <3>1, SeqEqual
  <2>4. QED
    BY <1>3, <2>2, <2>3 DEF p
<1>4. QED
  BY <1>1, <1>2, <1>3

\* The parts of a text, as the lookups are meant and as SQLite's functions find them.
LEMMA PartsAre ==
  ASSUME NEW C, NEW h \in Seq(C), NEW n \in Seq(C)
  PROVE  /\ HasPart(h, n) <=> \E s \in 0..Len(h) : Taken(h, s, n)
         /\ (\E j \in 0..Len(h) : SubSeq(h, 1, j) = n) <=> Taken(h, 0, n)
         /\ (\E i \in 0..Len(h) : SubSeq(h, i + 1, Len(h)) = n)
              <=> \E s \in 0..Len(h) : Taken(h, s, n) /\ s + Len(n) = Len(h)
         /\ h = n <=> Taken(h, 0, n) /\ Len(n) = Len(h)
<1>1. /\ Len(h) \in Nat /\ Len(n) \in Nat /\ (n = <<>> <=> Len(n) = 0)
  BY LenProperties, EmptySeq
<1>2. n = <<>> => \A s \in 0..Len(h) : Taken(h, s, n)
  BY <1>1 DEF Taken
<1>3. \A i, j \in 0..Len(h) :
        SubSeq(h, i + 1, j) = n <=> IF i <= j THEN Len(n) = j - i /\ Taken(h, i, n) ELSE n = <<>>
  BY PartIs
<1>4. \A s \in 0..Len(h) : Taken(h, s, n) => s + Len(n) \in 0..Len(h) /\ s <= s + Len(n) /\ (s + Len(n)) - s = Len(n)
  BY <1>1 DEF Taken
<1>5. HasPart(h, n) <=> \E s \in 0..Len(h) : Taken(h, s, n)
  BY <1>2, <1>3, <1>4 DEF HasPart
<1>6. (\E j \in 0..Len(h) : SubSeq(h, 1, j) = n) <=> Taken(h, 0, n)
  <2>1. /\ 0 \in 0..Len(h) /\ 0 + 1 = 1 /\ \A j \in 0..Len(h) : 0 <= j /\ j - 0 = j
        /\ 0 + Len(n) = Len(n)
    BY <1>1
  <2>2. \A j \in 0..Len(h) : SubSeq(h, 1, j) = n <=> Len(n) = j /\ Taken(h, 0, n)
    BY <1>3, <2>1
  <2>3. Taken(h, 0, n) => Len(n) \in 0..Len(h)
    BY <1>4, <2>1
  <2>4. QED
    BY <2>2, <2>3
<1>7. (\E i \in 0..Len(h) : SubSeq(h, i + 1, Len(h)) = n)
        <=> \E s \in 0..Len(h) : Taken(h, s, n) /\ s + Len(n) = Len(h)
  <2>1. Len(h) \in 0..Len(h) /\ \A i \in 0..Len(h) : i <= Len(h) /\ (Len(n) = Len(h) - i <=> i + Len(n) = Len(h))
    BY <1>1
  <2>2. QED
    BY <1>3, <2>1
<1>8. h = n <=> Taken(h, 0, n) /\ Len(n) = Len(h)
  <2>1. ASSUME Taken(h, 0, n), Len(n) = Len(h) PROVE h = n
    <3>1. \A i \in 1..Len(h) : h[i] = n[i]
      <4>1. \A i \in 1..Len(n) : 0 + i = i /\ h[0 + i] = n[i]
        BY <1>1, <2>1 DEF Taken
      <4>2. QED
        BY <2>1, <4>1
    <3>2. QED
      BY <2>1, <3>1, SeqEqual
  <2>2. ASSUME h = n PROVE Taken(h, 0, n) /\ Len(n) = Len(h)
    <3>1. 0 + Len(n) <= Len(n) /\ \A i \in 1..Len(n) : 0 + i = i
      BY <1>1
    <3>2. QED
      BY <2>2, <3>1 DEF Taken
  <2>3. QED
    BY <2>1, <2>2
<1>9. QED
  BY <1>5, <1>6, <1>7, <1>8

\* substr and instr, of SQLite.
LEMMA LeadingIs ==
  ASSUME NEW C, NEW h \in Seq(C), NEW n \in Seq(C)
  PROVE  Leading(h, Len(n)) = n <=> Taken(h, 0, n)
<1> DEFINE j == IF Len(n) < Len(h) THEN Len(n) ELSE Len(h)
<1>1. /\ Len(h) \in Nat /\ Len(n) \in Nat /\ j \in 0..Len(h) /\ 0 \in 0..Len(h)
      /\ 0 + 1 = 1 /\ 0 <= j /\ j - 0 = j
  BY LenProperties
<1>2. SubSeq(h, 0 + 1, j) = n <=> Len(n) = j - 0 /\ Taken(h, 0, n)
  BY <1>1, PartIs
<1>3. Taken(h, 0, n) => Len(n) = j
  BY <1>1 DEF Taken
<1>4. QED
  BY <1>1, <1>2, <1>3 DEF Leading

LEMMA TrailingIs ==
  ASSUME NEW C, NEW h \in Seq(C), NEW n \in Seq(C), n # <<>>
  PROVE  Trailing(h, Len(n)) = n <=> \E s \in 0..Len(h) : Taken(h, s, n) /\ s + Len(n) = Len(h)
<1> DEFINE i == IF Len(n) < Len(h) THEN Len(h) - Len(n) ELSE 0
<1>1. /\ Len(h) \in Nat /\ Len(n) \in Nat /\ Len(n) # 0 /\ i \in 0..Len(h) /\ Len(h) \in 0..Len(h)
      /\ i <= Len(h) /\ i + 1 = (IF Len(n) < Len(h) THEN Len(h) - Len(n) + 1 ELSE 1)
  BY LenProperties, EmptySeq
<1>2. SubSeq(h, i + 1, Len(h)) = n <=> Len(n) = Len(h) - i /\ Taken(h, i, n)
  <2> HIDE DEF i
  <2>1. SubSeq(h, i + 1, Len(h)) = n
          <=> IF i <= Len(h) THEN Len(n) = Len(h) - i /\ Taken(h, i, n) ELSE n = <<>>
    BY <1>1, PartIs
  <2>2. QED
    BY <1>1, <2>1
<1>3. \A s \in 0..Len(h) : s + Len(n) = Len(h) => s = i
  BY <1>1
<1>4. Len(n) = Len(h) - i <=> i + Len(n) = Len(h)
  BY <1>1
<1>5. Trailing(h, Len(n)) = SubSeq(h, i + 1, Len(h))
  BY <1>1 DEF Trailing
<1>6. QED
  <2> HIDE DEF i
  <2>1. QED
    BY <1>1, <1>2, <1>3, <1>4, <1>5

LEMMA InstrIs ==
  ASSUME NEW C, NEW h \in Seq(C), NEW n \in Seq(C)
  PROVE  Instr(h, n) <=> \E s \in 0..Len(h) : Taken(h, s, n)
<1>1. Len(h) \in Nat /\ Len(n) \in Nat /\ h \in [1..Len(h) -> C]
  BY LenProperties
<1>2. ASSUME NEW i \in 0..Len(h)
      PROVE  Leading(SubSeq(h, i + 1, Len(h)), Len(n)) = n <=> Taken(h, i, n)
  <2> DEFINE g == SubSeq(h, i + 1, Len(h))
  <2>1. g \in Seq(C) /\ Len(g) = Len(h) - i /\ \A k \in 1..(Len(h) - i) : g[k] = h[i + k]
    <3>1. /\ i + 1 \in Int /\ Len(h) \in Int /\ (Len(h) - (i + 1)) + 1 = Len(h) - i
          /\ \A k \in 1..(Len(h) - i) : ((i + 1) + k) - 1 = i + k
      BY <1>1
    <3>2. \A k \in (i + 1)..Len(h) : h[k] \in C
      BY <1>1
    <3>3. /\ g \in Seq(C)
          /\ Len(g) = IF i + 1 <= Len(h) THEN (Len(h) - (i + 1)) + 1 ELSE 0
          /\ \A k \in 1..((Len(h) - (i + 1)) + 1) : g[k] = h[((i + 1) + k) - 1]
      BY <3>1, <3>2, SubSeqProperties
    <3>4. Len(g) = Len(h) - i
      <4>1. i + 1 <= Len(h) \/ (~(i + 1 <= Len(h)) /\ Len(h) - i = 0)
        <5>1. \A k \in Nat : \A x \in 0..k : x + 1 <= k \/ (~(x + 1 <= k) /\ k - x = 0)
          OBVIOUS
        <5>2. QED
          BY <1>1, <5>1
      <4>2. QED
        BY <3>1, <3>3, <4>1
    <3>5. QED
      BY <3>1, <3>3, <3>4
  <2> HIDE DEF g
  <2>2. Leading(g, Len(n)) = n <=> Taken(g, 0, n)
    BY <2>1, LeadingIs
  <2>3. Taken(g, 0, n) <=> Taken(h, i, n)
    <3>1. 0 + Len(n) <= Len(g) <=> i + Len(n) <= Len(h)
      BY <1>1, <2>1
    <3>2. i + Len(n) <= Len(h) => \A k \in 1..Len(n) : 0 + k = k /\ k \in 1..(Len(h) - i)
      BY <1>1
    <3>3. i + Len(n) <= Len(h) => \A k \in 1..Len(n) : g[0 + k] = h[i + k]
      BY <2>1, <3>2
    <3>4. QED
      BY <3>1, <3>3 DEF Taken
  <2>4. QED
    BY <2>2, <2>3 DEF g
<1>3. QED
  BY <1>2 DEF Instr

Dialect == {"sqlite", "postgres"}

\* Lower-case texts are as long as they were.
LEMMA LowerTyped ==
  ASSUME NEW C, NEW t \in Seq(C)
  PROVE  LET D == C \cup {LowerOf[c] : c \in DOMAIN LowerOf}
         IN t \in Seq(D) /\ Lower(t) \in Seq(D) /\ Len(Lower(t)) = Len(t)
<1> DEFINE D == C \cup {LowerOf[c] : c \in DOMAIN LowerOf}
<1>1. DOMAIN t = 1..Len(t) /\ Len(t) \in Nat /\ t \in [1..Len(t) -> C]
  BY LenProperties
<1>2. t \in [1..Len(t) -> D] /\ Lower(t) \in [1..Len(t) -> D]
  BY <1>1 DEF Lower
<1>3. t \in Seq(D) /\ Lower(t) \in Seq(D) /\ Len(Lower(t)) = Len(t)
  <2> HIDE DEF D
  <2>1. QED
    BY <1>1, <1>2, FunctionSeq
<1>4. QED
  BY <1>3

\* Where SQLite knows every capital it folds as JavaScript does.
LEMMA FoldedAlike == ASSUME NEW t, FoldsAlike(t) PROVE SqliteLower(t) = Lower(t)
  BY DEF FoldsAlike, SqliteLower, Lower

\* A text without wide characters has as many units as characters.
LEMMA NarrowUnits == ASSUME NEW D, NEW t \in Seq(D), Narrow(t) PROVE Units(t) = Len(t)
<1>1. {i \in DOMAIN t : t[i] \in Wide} = {}
  BY DEF Narrow
<1>2. Cardinality({}) = 0
  BY FS_EmptySet
<1>3. Len(t) \in Nat
  BY LenProperties
<1> DEFINE wide == {i \in DOMAIN t : t[i] \in Wide}
<1>4. Cardinality(wide) = 0
  BY <1>1, <1>2
<1>5. Units(t) = Len(t) + Cardinality(wide)
  BY DEF Units
<1> HIDE DEF wide
<1>6. QED
  BY <1>3, <1>4, <1>5

\* A text lookup, of lowered texts or of texts as they are, on either database.
LEMMA TextsMean ==
  ASSUME NEW d \in Dialect, NEW C, NEW column \in Seq(C), NEW value \in Seq(C), NEW insensitive \in BOOLEAN,
         column # Null, NEW lookup \in {"iexact", "contains", "startswith", "endswith"},
         d = "sqlite" /\ insensitive => FoldsAlike(column),
         d = "sqlite" /\ lookup \in {"startswith", "endswith"} => Narrow(IF insensitive THEN Lower(value) ELSE value)
  PROVE  TextCondition(d, column, lookup, insensitive, value)
           = Truth(TextHolds(IF insensitive THEN Lower(column) ELSE column, lookup,
                             IF insensitive THEN Lower(value) ELSE value))
<1> DEFINE D == C \cup {LowerOf[c] : c \in DOMAIN LowerOf}
           h == IF insensitive THEN Lower(column) ELSE column
           n == IF insensitive THEN Lower(value) ELSE value
<1>1. \A t \in Seq(C) : t \in Seq(D) /\ Lower(t) \in Seq(D) /\ Len(Lower(t)) = Len(t)
  BY LowerTyped
<1>2. h \in Seq(D) /\ n \in Seq(D) /\ (n = <<>> <=> value = <<>>) /\ Len(h) \in Nat /\ Len(n) \in Nat
  <2>1. h \in Seq(D) /\ n \in Seq(D) /\ Len(n) = Len(value)
    BY <1>1
  <2>2. QED
    <3> HIDE DEF D, h, n
    <3>1. QED
      BY <2>1, EmptySeq, LenProperties
<1> DEFINE some == \E s \in 0..Len(h) : Taken(h, s, n)
           atEnd == \E s \in 0..Len(h) : Taken(h, s, n) /\ s + Len(n) = Len(h)
<1>3. TextHolds(h, lookup, n) <=> CASE lookup = "iexact" -> Taken(h, 0, n) /\ Len(n) = Len(h)
                                    [] lookup = "contains" -> some
                                    [] lookup = "startswith" -> Taken(h, 0, n)
                                    [] lookup = "endswith" -> atEnd
  <2> HIDE DEF D, h, n
  <2>1. /\ HasPart(h, n) <=> some
        /\ (\E j \in 0..Len(h) : SubSeq(h, 1, j) = n) <=> Taken(h, 0, n)
        /\ (\E i \in 0..Len(h) : SubSeq(h, i + 1, Len(h)) = n) <=> atEnd
        /\ h = n <=> Taken(h, 0, n) /\ Len(n) = Len(h)
    BY <1>2, PartsAre
  <2> HIDE DEF some, atEnd
  <2>2. CASE lookup = "iexact"
    BY <2>1, <2>2 DEF TextHolds
  <2>3. CASE lookup = "contains"
    BY <2>1, <2>3 DEF TextHolds
  <2>4. CASE lookup = "startswith"
    BY <2>1, <2>4 DEF TextHolds
  <2>5. CASE lookup = "endswith"
    BY <2>1, <2>5 DEF TextHolds
  <2>6. QED
    BY <2>2, <2>3, <2>4, <2>5
<1>4. n = <<>> => Taken(h, 0, n) /\ atEnd
  <2> HIDE DEF D, h, n
  <2>1. ASSUME n = <<>> PROVE Len(n) = 0 /\ 1..Len(n) = {} /\ Len(h) \in 0..Len(h) /\ Len(h) + 0 = Len(h) /\ 0 + 0 = 0
    BY <1>2, <2>1
  <2>2. QED
    BY <1>2, <2>1 DEF Taken
<1>5. CASE d = "postgres"
  <2> DEFINE pre == IF lookup \in {"contains", "endswith"} THEN Wildcard ELSE <<>>
             post == IF lookup \in {"contains", "startswith"} THEN Wildcard ELSE <<>>
             likes == Likes(h, pre \o EscapeLike(n) \o post)
  <2>1. pre \in Jokers /\ post \in Jokers /\ Wildcard # <<>>
    BY DEF Jokers, Wildcard
  <2>2. likes <=> \E s \in 0..Len(h) : Taken(h, s, n) /\ (pre = <<>> => s = 0) /\ (post = <<>> => s + Len(n) = Len(h))
    <3> HIDE DEF D, h, n, pre, post
    <3>1. QED
      BY <1>2, <2>1, LikesPart
  <2>3. TextCondition(d, column, lookup, insensitive, value) = Truth(likes)
    BY <1>5 DEF TextCondition
  <2>4. likes <=> TextHolds(h, lookup, n)
    <3> HIDE DEF D, h, n
    <3>1. 0 \in 0..Len(h) /\ 0 + Len(n) = Len(n)
      BY <1>2
    <3>2. CASE lookup = "iexact"
      BY <1>3, <2>1, <2>2, <3>1, <3>2
    <3>3. CASE lookup = "contains"
      BY <1>3, <2>1, <2>2, <3>1, <3>3
    <3>4. CASE lookup = "startswith"
      BY <1>3, <2>1, <2>2, <3>1, <3>4
    <3>5. CASE lookup = "endswith"
      BY <1>3, <2>1, <2>2, <3>1, <3>5
    <3>6. QED
      BY <3>2, <3>3, <3>4, <3>5
  <2>5. QED
    BY <2>3, <2>4 DEF Truth
<1>6. CASE d = "sqlite"
  <2>1. CASE value = <<>> /\ lookup \in {"startswith", "endswith"}
    <3>1. TextHolds(h, lookup, n)
      <4> HIDE DEF h, n
      <4>1. QED
        BY <1>2, <1>3, <1>4, <2>1
    <3>2. QED
      BY <1>6, <2>1, <3>1 DEF TextCondition, Truth
  <2>2. CASE ~(value = <<>> /\ lookup \in {"startswith", "endswith"})
    <3> DEFINE folded == IF insensitive THEN SqliteLower(column) ELSE column
               seen == CASE lookup = "iexact" -> folded = n
                         [] lookup = "contains" -> Instr(folded, n)
                         [] lookup = "startswith" -> Leading(folded, Units(n)) = n
                         [] lookup = "endswith" -> Trailing(folded, Units(n)) = n
               found == CASE lookup = "iexact" -> h = n
                          [] lookup = "contains" -> Instr(h, n)
                          [] lookup = "startswith" -> Leading(h, Len(n)) = n
                          [] lookup = "endswith" -> Trailing(h, Len(n)) = n
    <3>1. TextCondition(d, column, lookup, insensitive, value) = Truth(found)
      <4>1. TextCondition(d, column, lookup, insensitive, value) = Truth(seen)
        BY <1>6, <2>2 DEF TextCondition
      <4>2. folded = h
        BY <1>6, FoldedAlike
      <4>3. lookup \in {"startswith", "endswith"} => Units(n) = Len(n)
        BY <1>2, <1>6, NarrowUnits
      <4>4. seen <=> found
        <5> HIDE DEF D, h, n, folded
        <5>1. QED
          BY <4>2, <4>3
      <4>5. QED
        <5> HIDE DEF seen, found
        <5>1. QED
          BY <4>1, <4>4 DEF Truth
    <3>2. /\ (h = n <=> Taken(h, 0, n) /\ Len(n) = Len(h))
          /\ (Instr(h, n) <=> some)
          /\ (Leading(h, Len(n)) = n <=> Taken(h, 0, n))
          /\ (n # <<>> => (Trailing(h, Len(n)) = n <=> atEnd))
      <4> HIDE DEF D, h, n
      <4>1. QED
        BY <1>2, PartsAre, InstrIs, LeadingIs, TrailingIs
    <3>3. found <=> TextHolds(h, lookup, n)
      <4> HIDE DEF h, n, some, atEnd
      <4>1. QED
        BY <1>2, <1>3, <2>2, <3>2
    <3>4. QED
      BY <3>1, <3>3 DEF Truth
  <2>3. QED
    BY <2>1, <2>2
<1>7. QED
  BY <1>5, <1>6 DEF Dialect

\* What a lookup is given, and may be: one value, also another column's; a list of values; whether
\* to be NULL; numbers to compare with; the two ends of a range; texts.
Given(row, leaf) == IF leaf.form = "column" THEN row[leaf.value] ELSE leaf.value
Suits(C, column, lookup, value) ==
  /\ lookup \in {"exact", "ne"} => value # Null
  /\ lookup \in {"in", "notIn"} => \A i \in DOMAIN value : value[i] # Null
  /\ lookup = "isnull" => value \in BOOLEAN
  /\ lookup \in {"gt", "gte", "lt", "lte"} => column \in Int /\ value \in Int
  /\ lookup = "range" => column \in Int /\ value[1] \in Int /\ value[2] \in Int
  /\ lookup \in DOMAIN TextLookup => column \in Seq(C) /\ value \in Seq(C)

\* The text lookups.
LEMMA TextNames ==
  /\ DOMAIN TextLookup = {"iexact", "contains", "icontains", "startswith", "istartswith", "endswith", "iendswith"}
  /\ \A lookup \in DOMAIN TextLookup :
       /\ TextLookup[lookup][1] \in {"iexact", "contains", "startswith", "endswith"}
       /\ TextLookup[lookup][2] \in BOOLEAN
<1>1. DOMAIN TextLookup
        = {"iexact", "contains", "icontains", "startswith", "istartswith", "endswith", "iendswith"}
  BY DEF TextLookup
<1>2. /\ TextLookup["iexact"][1] = "iexact" /\ TextLookup["iexact"][2] = TRUE
      /\ TextLookup["contains"][1] = "contains" /\ TextLookup["contains"][2] = FALSE
      /\ TextLookup["icontains"][1] = "contains" /\ TextLookup["icontains"][2] = TRUE
      /\ TextLookup["startswith"][1] = "startswith" /\ TextLookup["startswith"][2] = FALSE
      /\ TextLookup["istartswith"][1] = "startswith" /\ TextLookup["istartswith"][2] = TRUE
      /\ TextLookup["endswith"][1] = "endswith" /\ TextLookup["endswith"][2] = FALSE
      /\ TextLookup["iendswith"][1] = "endswith" /\ TextLookup["iendswith"][2] = TRUE
  BY DEF TextLookup
<1>3. ASSUME NEW lookup \in DOMAIN TextLookup
      PROVE  /\ TextLookup[lookup][1] \in {"iexact", "contains", "startswith", "endswith"}
             /\ TextLookup[lookup][2] \in BOOLEAN
  <2>1. CASE lookup \in {"iexact", "contains", "icontains"}
    BY <1>2, <2>1
  <2>2. CASE lookup \in {"startswith", "istartswith"}
    BY <1>2, <2>2
  <2>3. CASE lookup \in {"endswith", "iendswith"}
    BY <1>2, <2>3
  <2>4. QED
    BY <1>1, <2>1, <2>2, <2>3
<1>4. QED
  BY <1>1, <1>3

\* IN, of a list without NULL.
LEMMA ListMeans ==
  ASSUME NEW column, column # Null, NEW S, Null \notin S
  PROVE  InList(column, S) = Truth(column \in S)
<1>1. \A v \in S : Equals(column, v) = Truth(column = v)
  BY DEF Equals, Strict
<1>2. CASE column \in S
  <2>1. "true" \in {Equals(column, v) : v \in S}
    BY <1>1, <1>2 DEF Truth
  <2>2. QED
    BY <1>2, <2>1 DEF InList, Or, Truth
<1>3. CASE column \notin S
  <2>1. \A v \in S : Equals(column, v) = "false"
    BY <1>1, <1>3 DEF Truth
  <2>2. "true" \notin {Equals(column, v) : v \in S} /\ "null" \notin {Equals(column, v) : v \in S}
    BY <2>1
  <2>3. QED
    BY <1>3, <2>2 DEF InList, Or, Truth
<1>4. QED
  BY <1>2, <1>3

(* A lookup of a column that is not NULL says exactly what its name says, on both databases and  *)
(* for any texts, wildcards and numbers, as long as, on SQLite, no capital beyond ASCII stands   *)
(* in a column whose case is ignored and no wide character in a prefix or suffix                 *)
(* (buildFieldCondition, textCondition and escapeLike).                                          *)
THEOREM LookupsMeanWhatTheySay ==
  ASSUME Null \notin Int,
         NEW d \in Dialect, NEW C, NEW row, NEW attr, NEW lookup \in LookupNames, NEW leaf,
         leaf.form \in IF lookup \in {"in", "notIn"} THEN {"list"} ELSE {"value", "column"},
         row[attr] # Null, Suits(C, row[attr], lookup, Given(row, leaf)),
         CharactersAgree(d, row[attr], lookup, Given(row, leaf))
  PROVE  FieldCondition(d, row, attr, lookup, leaf)
           = Truth(FieldHolds(row[attr], lookup, Given(row, leaf)))
<1> DEFINE column == row[attr]
           value == Given(row, leaf)
           condition == FieldCondition(d, row, attr, lookup, leaf)
<1>1. CASE lookup = "exact"
  <2>1. leaf.form # "list" /\ value # Null
    BY <1>1 DEF Suits
  <2>2. Equals(column, value) = Truth(column = value)
    BY <2>1 DEF Equals, Strict
  <2>3. condition = Equals(column, value)
    BY <1>1, <2>1, TextNames DEF FieldCondition, Given
  <2>4. FieldHolds(column, lookup, value) <=> column = value
    BY <1>1, TextNames DEF FieldHolds
  <2>5. QED
    BY <2>2, <2>3, <2>4 DEF Truth
<1>2. CASE lookup = "ne"
  <2>1. leaf.form # "list" /\ value # Null
    BY <1>2 DEF Suits
  <2>2. Equals(column, value) = Truth(column = value)
    BY <2>1 DEF Equals, Strict
  <2>3. condition = Not(Equals(column, value))
    BY <1>2, <2>1, TextNames DEF FieldCondition, Given
  <2>4. FieldHolds(column, lookup, value) <=> column # value
    BY <1>2, TextNames DEF FieldHolds
  <2>5. QED
    BY <2>2, <2>3, <2>4 DEF Truth, Not
<1>3. CASE lookup \in {"in", "notIn"}
  <2> DEFINE list == {leaf.value[i] : i \in DOMAIN leaf.value}
  <2>1. leaf.form = "list" /\ value = leaf.value /\ Null \notin list
    BY <1>3 DEF Suits, Given
  <2>2. InList(column, list) = Truth(column \in list)
    BY <2>1, ListMeans
  <2>3. condition = IF lookup = "in" THEN InList(column, list) ELSE Not(InList(column, list))
    BY <1>3, <2>1, TextNames DEF FieldCondition
  <2>4. FieldHolds(column, lookup, value) <=> IF lookup = "in" THEN column \in list ELSE column \notin list
    BY <1>3, <2>1, TextNames DEF FieldHolds
  <2>5. QED
    BY <1>3, <2>2, <2>3, <2>4 DEF Truth, Not
<1>4. CASE lookup = "isnull"
  <2>1. value \in BOOLEAN /\ leaf.form # "list"
    BY <1>4 DEF Suits
  <2>2. condition = Truth((column = Null) = value)
    BY <1>4, TextNames DEF FieldCondition, Given
  <2>3. FieldHolds(column, lookup, value) <=> value = FALSE
    BY <1>4, TextNames DEF FieldHolds
  <2>4. (column = Null) = value <=> value = FALSE
    BY <2>1
  <2>5. QED
    BY <2>2, <2>3, <2>4 DEF Truth
<1>5. CASE lookup \in {"gt", "gte", "lt", "lte"}
  <2>1. column \in Int /\ value \in Int /\ Null \notin {column, value}
    BY <1>5 DEF Suits
  <2>2. CASE lookup = "gt"
    BY <2>1, <2>2, TextNames DEF FieldCondition, FieldHolds, Strict, Given
  <2>3. CASE lookup = "gte"
    <3>1. ~(column < value) <=> column >= value
      BY <2>1
    <3>2. condition = Truth(column >= value)
      BY <2>1, <2>3, TextNames DEF FieldCondition, Strict, Given
    <3>3. FieldHolds(column, lookup, value) <=> ~(column < value)
      BY <2>1, <2>3, TextNames DEF FieldHolds
    <3>4. QED
      BY <3>1, <3>2, <3>3 DEF Truth
  <2>4. CASE lookup = "lt"
    BY <2>1, <2>4, TextNames DEF FieldCondition, FieldHolds, Strict, Given
  <2>5. CASE lookup = "lte"
    <3>1. ~(column > value) <=> column <= value
      BY <2>1
    <3>2. condition = Truth(column <= value)
      BY <2>1, <2>5, TextNames DEF FieldCondition, Strict, Given
    <3>3. FieldHolds(column, lookup, value) <=> ~(column > value)
      BY <2>1, <2>5, TextNames DEF FieldHolds
    <3>4. QED
      BY <3>1, <3>2, <3>3 DEF Truth
  <2>6. QED
    BY <1>5, <2>2, <2>3, <2>4, <2>5
<1>6. CASE lookup = "range"
  <2>1. /\ column \in Int /\ value[1] \in Int /\ value[2] \in Int
        /\ Null \notin {column, value[1]} /\ Null \notin {column, value[2]}
    BY <1>6 DEF Suits
  <2>2. condition = And({Truth(value[1] <= column), Truth(column <= value[2])})
    BY <1>6, <2>1, TextNames DEF FieldCondition, Strict, Given
  <2>3. FieldHolds(column, lookup, value) <=> value[1] <= column /\ column <= value[2]
    <3>1. FieldHolds(column, lookup, value) <=> column \in value[1]..value[2]
      BY <1>6, TextNames DEF FieldHolds
    <3>2. QED
      BY <2>1, <3>1
  <2>4. QED
    BY <2>2, <2>3 DEF Truth, And
<1>7. CASE lookup \in DOMAIN TextLookup
  <2> DEFINE match == TextLookup[lookup][1]
             insensitive == TextLookup[lookup][2]
  <2>1. match \in {"iexact", "contains", "startswith", "endswith"} /\ insensitive \in BOOLEAN
    BY <1>7, TextNames
  <2>2. column \in Seq(C) /\ value \in Seq(C)
    BY <1>7 DEF Suits
  <2>3. condition = TextCondition(d, column, match, insensitive, value)
    BY <1>7, TextNames DEF FieldCondition, Given
  <2>4. FieldHolds(column, lookup, value)
          <=> TextHolds(IF insensitive THEN Lower(column) ELSE column, match,
                        IF insensitive THEN Lower(value) ELSE value)
    BY <1>7, TextNames DEF FieldHolds
  <2>5. TextCondition(d, column, match, insensitive, value)
          = Truth(TextHolds(IF insensitive THEN Lower(column) ELSE column, match,
                            IF insensitive THEN Lower(value) ELSE value))
    <3>1. /\ column # Null
          /\ d = "sqlite" /\ insensitive => FoldsAlike(column)
          /\ d = "sqlite" /\ match \in {"startswith", "endswith"} =>
               Narrow(IF insensitive THEN Lower(value) ELSE value)
      BY <1>7 DEF CharactersAgree
    <3> HIDE DEF column, value, match, insensitive
    <3>2. QED
      BY <2>1, <2>2, <3>1, TextsMean
  <2>6. QED
    <3> HIDE DEF match, insensitive
    <3>1. QED
      BY <2>3, <2>4, <2>5 DEF Truth
<1>8. QED
  BY <1>1, <1>2, <1>3, <1>4, <1>5, <1>6, <1>7, TextNames DEF LookupNames

(* On SQLite a search finds the rows where each term is a part of one of the fields, whatever    *)
(* wildcards it has and whatever its case, as long as no capital beyond ASCII is in the fields   *)
(* or the terms (searchCondition).                                                               *)
THEOREM SearchesFind ==
  ASSUME NEW C, Null \notin Seq(C), NEW row, NEW leaf,
         \A term \in leaf.terms : term \in Seq(C) \ {<<>>} /\ FoldsAlike(term),
         \A attr \in leaf.fields : row[attr] \in Seq(C) \cup {Null} /\ (row[attr] # Null => FoldsAlike(row[attr]))
  PROVE  SearchCondition(row, leaf) = Truth(SearchHolds(row, leaf))
<1> DEFINE D == C \cup {LowerOf[c] : c \in DOMAIN LowerOf}
<1>1. ASSUME NEW column \in Seq(C) \cup {Null}, NEW term \in Seq(C) \ {<<>>},
             FoldsAlike(term), column # Null => FoldsAlike(column)
      PROVE  TermIn(column, term) <=> column # Null /\ HasPart(Lower(column), Lower(term))
  <2> DEFINE h == IF column = Null THEN <<>> ELSE Lower(column)
             n == Lower(term)
  <2>1. h \in Seq(D) /\ n \in Seq(D) /\ Len(n) = Len(term) /\ Wildcard \in Jokers /\ Wildcard # <<>>
    BY LowerTyped, EmptySeq DEF Jokers, Wildcard
  <2>2. Len(n) \in Nat \ {0} /\ Len(h) \in Nat /\ (h = <<>> => Len(h) = 0)
    <3> HIDE DEF D, h
    <3>1. QED
      BY <2>1, LenProperties, EmptySeq
  <2>3. TermIn(column, term) <=> \E s \in 0..Len(h) : Taken(h, s, n)
    <3>1. n = SqliteLower(term) /\ h = IF column = Null THEN <<>> ELSE SqliteLower(column)
      BY <1>1, FoldedAlike
    <3> HIDE DEF D, h, n
    <3>2. Likes(h, Wildcard \o EscapeLike(n) \o Wildcard) <=> \E s \in 0..Len(h) : Taken(h, s, n)
      BY <2>1, LikesPart
    <3>3. QED
      BY <3>1, <3>2 DEF TermIn
  <2>4. CASE column = Null
    <3>1. h = <<>> /\ Len(h) = 0
      BY <2>2, <2>4
    <3>2. \A s \in 0..Len(h) : ~Taken(h, s, n)
      <4> HIDE DEF D, h, n
      <4>1. QED
        BY <2>2, <3>1 DEF Taken
    <3>3. QED
      BY <2>3, <2>4, <3>2
  <2>5. CASE column # Null
    <3>1. HasPart(h, n) <=> \E s \in 0..Len(h) : Taken(h, s, n)
      <4> HIDE DEF D, h, n
      <4>1. QED
        BY <2>1, PartsAre
    <3>2. QED
      BY <2>3, <2>5, <3>1
  <2>6. QED
    BY <2>4, <2>5
<1>2. \A term \in leaf.terms, attr \in leaf.fields :
        TermIn(row[attr], term) <=> row[attr] # Null /\ HasPart(Lower(row[attr]), Lower(term))
  BY <1>1
<1>3. QED
  BY <1>2 DEF SearchCondition, SearchHolds, Truth
=============================================================================
