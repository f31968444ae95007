----------------------------- MODULE DataLayer -----------------------------
(***************************************************************************)
(* The operations of src/src/db that take several queries: the writes of   *)
(* queryset.ts with their hooks, getOrCreate and updateOrCreate, and the   *)
(* add, set and remove of manyToMany.ts, which are such writes to the rows *)
(* of a join model.                                                        *)
(*                                                                         *)
(* One table is enough: a row has an id and a key, the column the calls    *)
(* filter by (the criteria of getOrCreate, the target of a link).  A call  *)
(* is a list of stages, each one awaited query or one round of hooks, and  *)
(* other calls run between any two of them.  The table's hooks clear a     *)
(* view that a reader keeps, as invalidateCacheOnWrite does.               *)
(***************************************************************************)
EXTENDS Naturals, Sequences, FiniteSets

CONSTANTS
  Calls,      \* calls of the operations
  Keys,       \* values of the column the calls filter by
  Databases,  \* where the calls may run: "sqlite", "postgres"
  Limits,     \* the limits a queryset may carry when delete() is called on it
  None,       \* no call, no view
  MaxId       \* bound: ids handed out by the table

Operations == {"create", "update", "delete", "getOrCreate", "updateOrCreate", "add", "set"}

ASSUME DataLayerConstants ==
  /\ Databases \subseteq {"sqlite", "postgres"} /\ Limits \subseteq Nat
  /\ None \notin Calls \cup Keys \cup Operations /\ IsFiniteSet(Keys) /\ MaxId \in Nat \ {0}

VARIABLES
  db,      \* the database
  rows,    \* the table: on Postgres as committed, on SQLite as the connection sees it
  nextId,  \* the next id
  holder,  \* on SQLite, the call whose transaction is open
  undo,    \* the rows its rollback returns to
  mine,    \* on Postgres, what each open transaction has written
  calls,   \* the calls
  view,    \* the cached rows
  reader,  \* who fills the view
  blind,   \* history: the keys that rows were created with or renamed to without looking
  bare     \* history: the keys getOrCreate or updateOrCreate looked for outside a transaction

vars == <<db, rows, nextId, holder, undo, mine, calls, view, reader, blind, bare>>

Row == [id: 1..MaxId, key: Keys]
Ids(R) == {r.id : r \in R}
KeysOf(R) == {r.key : r \in R}

Stages == {"look", "doom", "remove", "insert", "write", "told"}

\* A call: its arguments, the stages ahead, whether it has passed the gate, whether it
\* has a transaction, what its queries returned.  "since" is history: the rows that
\* changed under it since it last read.
Call == [op: Operations \cup {None}, pc: {"idle", "lock", "open", "done"},
         todo: Seq(Stages), ready: BOOLEAN, tx: BOOLEAN,
         keys: SUBSET Keys, to: Keys \cup {None}, limit: Nat,
         drop: SUBSET Keys, add: SUBSET Keys,
         found: SUBSET Row, doomed: SUBSET Row, gone: SUBSET Row, since: SUBSET Row]

NotCalled == [op |-> None, pc |-> "idle", todo |-> <<>>, ready |-> FALSE, tx |-> FALSE,
              keys |-> {}, to |-> None, limit |-> 0, drop |-> {}, add |-> {},
              found |-> {}, doomed |-> {}, gone |-> {}, since |-> {}]

NothingWritten == [out |-> {}, ins |-> {}]
\* "raced" and "missed" are history: a statement ran between the gate and the store of who
\* filled the view; and an earlier hook threw, so that the one that clears it did not run.
EmptyView == [rows |-> {}, kept |-> FALSE, raced |-> FALSE, missed |-> FALSE]
IdleReader == [pc |-> "idle", rows |-> {}, raced |-> FALSE]

Sqlite == db = "sqlite"
Stage(c) == IF calls[c].pc = "open" /\ calls[c].todo # <<>> THEN Head(calls[c].todo) ELSE "none"

\* What a query of this call sees: its own transaction's writes, where there is one.
Visible(c) ==
  IF Sqlite \/ ~calls[c].tx THEN rows
  ELSE {r \in rows : r.id \notin mine[c].out} \cup mine[c].ins

\* A gate that lets everybody in.
GateAlwaysOpen(c) == TRUE

\* transactionGate: a query outside the open transaction waits for its end.
GateOpen(c) == Sqlite => holder \in {None, c}

\* On Postgres a row another transaction has changed is locked until that ends.
Unlocked(c, R) == \A d \in Calls \ {c} : Ids(R) \cap mine[d].out = {}

-----------------------------------------------------------------------------
(* What a step changes *)

Changed(S, T) == (S \ T) \cup (T \ S)

\* Everyone but c has to live with the rows that changed.
Underneath(c, next, table) ==
  [d \in Calls |-> IF d = c THEN next
                   ELSE [calls[d] EXCEPT !.since = @ \cup Changed(rows, table)]]

\* The view is cleared by the hooks of a write; a reader is raced by its statement.
RacedBy(table) ==
  reader' = [reader EXCEPT !.raced = @ \/ (rows # table /\ reader.pc # "idle")]

\* A statement takes rows out and puts rows in; inside a transaction on Postgres,
\* nobody sees it before the commit.
Write(c, out, ins, next) ==
  IF Sqlite \/ ~calls[c].tx
  THEN /\ rows' = (rows \ out) \cup ins
       /\ UNCHANGED mine
       /\ calls' = Underneath(c, next, rows')
       /\ RacedBy(rows')
  ELSE /\ mine' = [mine EXCEPT ![c] = [out |-> @.out \cup Ids(out), ins |-> (@.ins \ out) \cup ins]]
       /\ calls' = [calls EXCEPT ![c] = next]
       /\ UNCHANGED <<rows, reader>>

\* The stage is over: the next one passes the gate again unless it is in a transaction.
Past(c, later) == [calls[c] EXCEPT !.todo = later, !.ready = calls[c].tx]
Rest(c) == Tail(calls[c].todo)

-----------------------------------------------------------------------------
(* The calls *)

Plan(op) ==
  CASE op = "create" -> <<"insert", "told">>
    [] op = "update" -> <<"write", "told">>
    [] op = "delete" -> <<"doom", "remove", "told">>
    [] OTHER -> <<"look">>

\* The operations where their callers put them, add and set too.
InAtomicIfCalledSo(op) == BOOLEAN

\* add and set run in atomic(); the others where their caller put them.
InAtomic(op) == IF op \in {"add", "set"} THEN {TRUE} ELSE BOOLEAN

\* Links are many per owner; the other calls look for one key, or delete several.
KeysFor(op) == IF op \in {"add", "set", "delete"} THEN SUBSET Keys ELSE {{k} : k \in Keys}

\* update() without values and add() without targets return before any query.
Start(c, op) ==
  /\ calls[c].pc = "idle"
  /\ \E tx \in InAtomic(op), ks \in KeysFor(op), limit \in IF op = "delete" THEN Limits ELSE {MaxId},
        to \in IF op \in {"update", "updateOrCreate"} THEN Keys ELSE {None} :
       /\ op = "add" => ks # {}
       /\ calls' = [calls EXCEPT ![c] =
            [NotCalled EXCEPT !.op = op, !.pc = IF tx THEN "lock" ELSE "open",
                              !.todo = Plan(op), !.keys = ks, !.drop = ks, !.add = ks,
                              !.to = to, !.limit = limit]]
  /\ UNCHANGED <<db, rows, nextId, holder, undo, mine, view, reader, blind, bare>>

Begin(c) ==
  /\ calls[c].pc = "lock"
  /\ Sqlite => holder = None
  /\ calls' = [calls EXCEPT ![c].pc = "open", ![c].tx = TRUE, ![c].ready = TRUE]
  /\ IF Sqlite THEN holder' = c /\ undo' = rows ELSE UNCHANGED <<holder, undo>>
  /\ UNCHANGED <<db, rows, nextId, mine, view, reader, blind, bare>>

\* The gate is passed once per query, some awaits before its statement (the hooks).
PassGate(c) ==
  /\ Stage(c) \in {"look", "doom", "insert", "write"} /\ ~calls[c].ready
  /\ GateOpen(c)
  /\ calls' = [calls EXCEPT ![c].ready = TRUE]
  /\ UNCHANGED <<db, rows, nextId, holder, undo, mine, view, reader, blind, bare>>

Matching(c, ks) == {r \in Visible(c) : r.key \in ks}

\* Afterwards, by an earlier look at what has to go.
AfterwardsAddOnly(c, seen) ==
  LET missing == calls[c].keys \ KeysOf(seen)
      create == IF missing = {} THEN <<>> ELSE <<"insert", "told">>
  IN CASE calls[c].op = "updateOrCreate" /\ seen # {} -> <<"write", "told">>
       [] calls[c].op = "set" /\ KeysOf(seen) \ calls[c].keys # {} /\ missing = {} ->
            <<"doom", "remove", "told">>
       [] OTHER -> create

\* The stages that follow what getOrCreate, updateOrCreate, add or set has found.
Afterwards(c, seen) ==
  LET missing == calls[c].keys \ KeysOf(seen)
      create == IF missing = {} THEN <<>> ELSE <<"insert", "told">>
  IN CASE calls[c].op = "updateOrCreate" /\ seen # {} -> <<"write", "told">>
       [] calls[c].op = "set" /\ KeysOf(seen) \ calls[c].keys # {} ->
            IF missing = {} THEN <<"doom", "remove", "told">>
            ELSE <<"doom", "remove", "told", "insert", "told">>
       [] OTHER -> create

\* getOrNull (any one row), or the existing links of the owner; set reads them all.
LookAt(c, found) ==
  LET seen == IF calls[c].op = "set" THEN Visible(c) ELSE found
  IN calls' = [calls EXCEPT ![c] =
       [Past(c, Afterwards(c, seen)) EXCEPT
          !.found = found, !.add = calls[c].keys \ KeysOf(seen),
          !.drop = IF calls[c].op = "set" THEN KeysOf(seen) \ calls[c].keys ELSE {},
          !.since = {}]]

Look(c) ==
  /\ Stage(c) = "look" /\ calls[c].ready
  /\ LET hits == Matching(c, calls[c].keys)
     IN \E found \in IF calls[c].op \in {"add", "set"} \/ hits = {} THEN {hits}
                     ELSE {{r} : r \in hits} : LookAt(c, found)
  /\ bare' = bare \cup (IF calls[c].tx \/ calls[c].op \in {"add", "set"} THEN {} ELSE calls[c].keys)
  /\ UNCHANGED <<db, rows, nextId, holder, undo, mine, view, reader, blind>>

\* Nothing is read when only afterDelete listens.
DoomedUnread(c) == {{}}

\* What delete() reads for its hooks: rows its filter matches, up to its limit.
DoomedWithinLimit(c) ==
  LET hits == Matching(c, calls[c].drop)
  IN {D \in SUBSET hits : \/ Cardinality(D) = calls[c].limit
                          \/ D = hits /\ Cardinality(D) < calls[c].limit}

\* delete() reads the rows for its hooks, with the queryset's limit.
Doom(c) ==
  /\ Stage(c) = "doom" /\ calls[c].ready
  /\ \E D \in DoomedWithinLimit(c) :
       calls' = [calls EXCEPT ![c] = [Past(c, Rest(c)) EXCEPT
                   !.doomed = D, !.since = IF calls[c].op = "set" THEN @ ELSE {}]]
  /\ UNCHANGED <<db, rows, nextId, holder, undo, mine, view, reader, blind, bare>>

\* The DELETE, after the beforeDelete hooks; afterDelete runs only if something went.
Remove(c) ==
  /\ Stage(c) = "remove"
  /\ LET hits == Matching(c, calls[c].drop)
         next == [Past(c, IF hits = {} THEN Tail(Rest(c)) ELSE Rest(c)) EXCEPT !.gone = hits]
     IN Unlocked(c, hits) /\ Write(c, hits, {}, next)
  /\ UNCHANGED <<db, nextId, holder, undo, view, blind, bare>>

\* What bulkCreate inserts: a row per key, in one statement.
Created(ks) ==
  {{[id |-> number[k], key |-> k] : k \in ks} :
     number \in {f \in [ks -> nextId..(nextId + Cardinality(ks) - 1)] : \A k, l \in ks : f[k] = f[l] => k = l}}

Insert(c) ==
  /\ Stage(c) = "insert" /\ calls[c].ready
  /\ nextId + Cardinality(calls[c].add) - 1 <= MaxId
  /\ \E R \in Created(calls[c].add) : Write(c, {}, R, Past(c, Rest(c)))
  /\ nextId' = nextId + Cardinality(calls[c].add)
  /\ blind' = blind \cup (IF calls[c].op = "create" THEN calls[c].add ELSE {})
  /\ UNCHANGED <<db, holder, undo, view, bare>>

\* The UPDATE: of what the filter matches now, or of the row updateOrCreate found.
WriteRows(c) ==
  /\ Stage(c) = "write" /\ calls[c].ready
  /\ LET hits == IF calls[c].op = "update" THEN Matching(c, calls[c].keys)
                 ELSE {r \in Visible(c) : r.id \in Ids(calls[c].found)}
     IN Unlocked(c, hits)
        /\ Write(c, hits, {[r EXCEPT !.key = calls[c].to] : r \in hits}, Past(c, Rest(c)))
  /\ blind' = blind \cup {calls[c].to}
  /\ UNCHANGED <<db, nextId, holder, undo, view, bare>>

\* The after-hooks: one of them clears what was cached.
RunHooks(c) ==
  /\ Stage(c) = "told"
  /\ view' = EmptyView
  /\ calls' = [calls EXCEPT ![c] = Past(c, Rest(c))]
  /\ UNCHANGED <<db, rows, nextId, holder, undo, mine, reader, blind, bare>>

\* The call returns; its transaction commits.
Finish(c) ==
  /\ calls[c].pc = "open" /\ calls[c].todo = <<>>
  /\ LET ended == [calls[c] EXCEPT !.pc = "done", !.tx = FALSE]
         table == IF Sqlite THEN rows ELSE Visible(c)
     IN rows' = table /\ calls' = Underneath(c, ended, table)
  /\ mine' = [mine EXCEPT ![c] = NothingWritten]
  /\ holder' = IF holder = c THEN None ELSE holder
  /\ undo' = IF holder = c THEN {} ELSE undo
  /\ UNCHANGED <<db, nextId, view, reader, blind, bare>>

\* A query, a hook or the block throws inside a transaction, which rolls back.
Throw(c) ==
  /\ calls[c].pc = "open" /\ calls[c].tx
  /\ LET ended == [calls[c] EXCEPT !.pc = "done", !.tx = FALSE, !.op = None]
         table == IF Sqlite THEN undo ELSE rows
     IN rows' = table /\ calls' = Underneath(c, ended, table)
  /\ mine' = [mine EXCEPT ![c] = NothingWritten]
  /\ holder' = IF holder = c THEN None ELSE holder
  /\ undo' = IF holder = c THEN {} ELSE undo
  /\ UNCHANGED <<db, nextId, view, reader, blind, bare>>

\* Outside a transaction what was written stays when a later query or hook throws.  The
\* after-hooks run one by one: what throws before the one that clears the view skips it.
ThrowOutside(c) ==
  /\ calls[c].pc = "open" /\ ~calls[c].tx
  /\ calls' = [calls EXCEPT ![c].pc = "done", ![c].op = None]
  /\ view' = [view EXCEPT !.missed = @ \/ Stage(c) = "told"]
  /\ UNCHANGED <<db, rows, nextId, holder, undo, mine, reader, blind, bare>>

-----------------------------------------------------------------------------
(* A reader that caches what it reads *)

ReaderPassesGate ==
  /\ reader.pc = "idle" /\ ~view.kept
  /\ GateOpen(None)
  /\ reader' = [IdleReader EXCEPT !.pc = "ready"]
  /\ UNCHANGED <<db, rows, nextId, holder, undo, mine, calls, view, blind, bare>>

ReaderReads ==
  /\ reader.pc = "ready"
  /\ reader' = [reader EXCEPT !.pc = "read", !.rows = rows]
  /\ UNCHANGED <<db, rows, nextId, holder, undo, mine, calls, view, blind, bare>>

ReaderStores ==
  /\ reader.pc = "read"
  /\ view' = [rows |-> reader.rows, kept |-> TRUE, raced |-> reader.raced, missed |-> FALSE]
  /\ reader' = IdleReader
  /\ UNCHANGED <<db, rows, nextId, holder, undo, mine, calls, blind, bare>>

-----------------------------------------------------------------------------

Init ==
  /\ db \in Databases
  /\ rows \in {{}} \cup {{[id |-> 1, key |-> k]} : k \in Keys}
  /\ nextId = 2
  /\ holder = None /\ undo = {}
  /\ mine = [c \in Calls |-> NothingWritten]
  /\ calls = [c \in Calls |-> NotCalled]
  /\ view = EmptyView /\ reader = IdleReader
  /\ blind = {} /\ bare = {}

CallStep(c) ==
  \/ \E op \in Operations : Start(c, op)
  \/ Begin(c) \/ PassGate(c) \/ Look(c) \/ Doom(c) \/ Remove(c) \/ Insert(c) \/ WriteRows(c)
  \/ RunHooks(c) \/ Finish(c) \/ Throw(c) \/ ThrowOutside(c)

Next == (\E c \in Calls : CallStep(c)) \/ ReaderPassesGate \/ ReaderReads \/ ReaderStores

Spec == Init /\ [][Next]_vars

-----------------------------------------------------------------------------
(* Properties *)

TypeOK ==
  /\ db \in Databases /\ rows \subseteq Row /\ nextId \in 1..(MaxId + 1)
  /\ holder \in Calls \cup {None} /\ undo \subseteq Row
  /\ mine \in [Calls -> [out: SUBSET (1..MaxId), ins: SUBSET Row]]
  /\ calls \in [Calls -> Call]
  /\ view \in [rows: SUBSET Row, kept: BOOLEAN, raced: BOOLEAN, missed: BOOLEAN]
  /\ reader \in [pc: {"idle", "ready", "read"}, rows: SUBSET Row, raced: BOOLEAN]
  /\ blind \subseteq Keys /\ bare \subseteq Keys

\* What delete() tells its hooks is what went: the rows it read first and the rows its
\* DELETE took differ only by rows that somebody else changed in between.
DeletesReported ==
  \A c \in Calls :
    "remove" \notin {calls[c].todo[i] : i \in DOMAIN calls[c].todo} =>
      Changed(calls[c].doomed, calls[c].gone) \subseteq calls[c].since

\* On SQLite getOrCreate and updateOrCreate inside atomic(), and many-to-many add and
\* set, never make a second row for a key, with no uniqueness constraint to help them
\* and whatever other keys are written and rolled back beside them.  Of a key that some
\* call created or renamed rows to without looking, or looked for outside a transaction,
\* nothing is said: there a second row is what the code makes.
OneRowPerKey ==
  Sqlite => \A r, s \in rows : r.key = s.key /\ r.key \notin blind \cup bare => r = s

\* When set() commits, the links are exactly the wanted ones, except where somebody else
\* changed a link since set read them.
SetLeavesWanted ==
  [][\A c \in Calls :
       calls[c].op = "set" /\ calls[c].pc = "open" /\ calls'[c].pc = "done" /\ calls'[c].op = "set" =>
         Changed(KeysOf(rows'), calls[c].keys) \subseteq KeysOf(calls[c].since)]_vars

\* On SQLite a view that a write's hooks clear is stale at rest only if a hook before the
\* clearing one threw since the view was filled, outside a transaction, or a statement
\* raced who filled it; although the hooks run before the transaction of the write
\* commits or rolls back: who would fill the view meanwhile waits at the gate.
ViewFresh ==
  /\ Sqlite /\ holder = None /\ \A c \in Calls : Stage(c) # "told"
  /\ view.kept /\ ~view.raced /\ ~view.missed
  => view.rows = rows
=============================================================================
