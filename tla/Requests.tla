------------------------------ MODULE Requests ------------------------------
(***************************************************************************)
(* A running server: src/src/core/project.ts and what a request meets on   *)
(* its way through it.  Middleware in the order createApp mounts it (the   *)
(* cross-site check, schema validation, authenticate, the rate limiter),   *)
(* the router's permissions, a modelViewSet or a service, the serializer,  *)
(* the error contract, and stop(), which drains before it disconnects.     *)
(*                                                                         *)
(* Requests share the process: they interleave wherever the code awaits,   *)
(* that is between the stages below.  The view set serves one model whose  *)
(* rows have an owner, through ownedBy, the row-level scope of             *)
(* auth/permissions.ts.  A hook or an object rule is the application's     *)
(* code: it may approve, refuse or throw.                                  *)
(***************************************************************************)
EXTENDS Integers, Sequences, FiniteSets

CONSTANTS
  Slots,       \* requests in flight at once
  Users,       \* accounts
  Superusers,  \* accounts that see every row
  Rows,        \* primary keys, present or future
  Owned,       \* the rows at the start and their owners
  Asked,       \* the requests callers send
  Limit,       \* requests a caller may make in a window
  Window,      \* the length of a window
  SweepEvery,  \* expired counters are dropped this often
  DrainFor,    \* shutdownTimeoutMs
  None,        \* nobody, no owner, no counter
  MaxClock,    \* bound: the clock
  MaxAny,      \* bound: requests served up to the last that may write
  MaxRequests  \* bound: requests served, those that only read included

ASSUME RequestsConstants ==
  /\ IsFiniteSet(Slots)
  /\ Superusers \subseteq Users
  /\ Owned \in [Rows -> Users \cup {None}]
  /\ Limit \in Nat \ {0} /\ Window \in Nat \ {0} /\ SweepEvery \in Nat /\ DrainFor \in Nat
  /\ MaxClock \in Nat /\ MaxRequests \in Nat /\ MaxAny \in 0..MaxRequests
  /\ None \notin Rows /\ None \notin Users \cup {"absent", "null", "malformed"}

VARIABLES
  clock,      \* Date.now()
  counters,   \* MemoryThrottleStore
  lastSweep,
  phase,      \* "up", "draining", "closed": stopping and the connection
  deadline,   \* of the drain
  rows,       \* the table: each row's owner, None where there is none
  unused,     \* primary keys not handed out yet
  slots,      \* requests, each at one of its awaits
  answer,     \* the answer the last step sent, if it sent one
  served,     \* bound: how many arrived
  admitted,   \* history: when the limiter let each key through
  seen        \* history: what has been in each caller's scope since the request came

vars == <<clock, counters, lastSweep, phase, deadline, rows, unused, slots, answer, served, admitted, seen>>

Actions == {"list", "create", "retrieve", "update", "partialUpdate", "destroy", "service"}
Detail == {"retrieve", "update", "partialUpdate", "destroy"}
MethodOf(a) == CASE a \in {"list", "retrieve"} -> "GET"
                 [] a \in {"create", "service"} -> "POST"
                 [] a = "update" -> "PUT"
                 [] a = "partialUpdate" -> "PATCH"
                 [] a = "destroy" -> "DELETE"
Safe == {"GET", "HEAD", "OPTIONS"}

\* What a body says of the relation: under its own name or as <name>Id.
Given == Users \cup {"absent", "null", "malformed"}
Shape == [action: Actions, row: Rows \cup {None}, user: Users \cup {None},
          via: {"bearer", "cookie", "none"}, origin: {"own", "other"},
          owner: Given, ownerId: Given]

\* A service here takes the row it is about.
Requested(r) == r \in Shape /\ (r.action = "service" => r.row \in Rows)
ASSUME AskedRequests == \A r \in Asked : Requested(r)

Stages == {"free", "received", "handling", "judging", "writing", "written", "returned", "answered"}
NotAsked == [action |-> None, stage |-> "free", agent |-> FALSE, status |-> 0,
             shows |-> {}, made |-> None, cut |-> FALSE, confirmed |-> FALSE]
Keys == (Users \cup {"address"}) \X {"default", "service"}
NoCounter == [count |-> 0, expiresAt |-> 0]

-----------------------------------------------------------------------------
\* Errors: each kind once, at the edge.
StatusOf(error) ==
  CASE error \in {"ValidationError", "not-null", "foreign-key"} -> 400
    [] error = "Unauthorized" -> 401
    [] error = "PermissionDenied" -> 403
    [] error \in {"NotFound", "DoesNotExist", "NOT_FOUND"} -> 404
    [] error = "unique" -> 409
    [] error = "VALIDATION" -> 422
    [] error = "Throttled" -> 429
    [] OTHER -> 500

\* An answer.  One made for a tool call first goes back to the dispatcher that asked.
Answered(s, status, shows) ==
  [NotAsked EXCEPT !.action = IF s.agent THEN s.action ELSE None, !.agent = s.agent,
                   !.stage = IF s.agent THEN "returned" ELSE "answered",
                   !.status = status, !.shows = shows, !.made = s.made]
Failed(s, error) == [Answered(s, StatusOf(error), {}) EXCEPT !.cut = error = "closed"]
To(s, stage) == [s EXCEPT !.stage = stage]
Refusal(user) == IF user = None THEN "Unauthorized" ELSE "PermissionDenied"

\* csrf: only a credential that the browser attaches by itself needs a trusted origin.
Ambient(r) == r.via = "cookie"
CrossSite(r) == /\ MethodOf(r.action) \notin Safe
                /\ Ambient(r)
                /\ r.origin = "other"

\* The schema of the body: a foreign key is optional under both of its names, never null; what
\* a service takes is there.
BodyOf(a) == CASE a \in {"create", "update", "partialUpdate"} -> {"owner", "ownerId"}
               [] a = "service" -> {"owner"}
               [] OTHER -> {}
Unfit(r) == \/ \E key \in BodyOf(r.action) : r[key] \in {"malformed", "null"}
            \/ r.action = "service" /\ r.owner = "absent"

\* toInternal: an explicit relation wins over its id alias, a missing one matters unless
\* the write is partial, and a null is refused.
Relation(r) == IF r.owner # "absent" THEN r.owner ELSE r.ownerId
BadBody(r) == \/ Relation(r) = "null"
              \/ Relation(r) = "absent" /\ r.action # "partialUpdate"

\* ownedBy: the base queryset of every action.
Scope(user, owners) == {p \in Rows : owners[p] # None /\ (user \in Superusers \/ owners[p] = user)}
\* The queryset that rows are read through, and the one a detail write is made through.
ReadableByAnyone(user) == {p \in Rows : rows[p] # None}
Readable(user) == Scope(user, rows)
WritableByKey(user) == {p \in Rows : rows[p] # None}
Writable(user) == Scope(user, rows)

\* Permissions of the routes: the router's, the view set's and the action's, all of them.
Shared == {"allowAny"}
ViewPermissions == {"readOnlyOrAuthenticated"}
ActionPermissions(a) == CASE a = "create" -> {"isAuthenticated"} [] a = "service" -> {"isStaff"} [] OTHER -> {}
PermissionsFor(a) == Shared \cup (IF a = "service" THEN {} ELSE ViewPermissions) \cup ActionPermissions(a)
Passes(permission, r) ==
  CASE permission = "allowAny" -> TRUE
    [] permission = "isAuthenticated" -> r.user # None
    [] permission = "isStaff" -> r.user \in Superusers
    [] permission = "readOnlyOrAuthenticated" -> MethodOf(r.action) \in Safe \/ r.user # None
Permitted(r) == \A permission \in PermissionsFor(r.action) : Passes(permission, r)

-----------------------------------------------------------------------------
\* The rate limiter: a rule of its own for the service, the caller or else the address.
ScopeOf(r) == IF r.action = "service" THEN "service" ELSE "default"
KeyOf(r) == <<IF r.user = None THEN "address" ELSE r.user, ScopeOf(r)>>
LimitOf(key) == IF key[2] = "service" THEN 1 ELSE Limit

ExpiredSinceItBegan(counter, now) == counter.expiresAt - Window <= now
Expired(counter, now) == counter.expiresAt <= now
Sweeps(now) == now - lastSweep >= SweepEvery
Swept(now) == IF Sweeps(now)
              THEN [k \in Keys |-> IF Expired(counters[k], now) THEN NoCounter ELSE counters[k]]
              ELSE counters
Counted(counter, now) == IF counter = NoCounter \/ Expired(counter, now)
                         THEN [count |-> 1, expiresAt |-> now + Window]
                         ELSE [counter EXCEPT !.count = @ + 1]
Allowed(key, counter) == counter.count <= LimitOf(key)

Hit(key, now) ==
  LET counter == Counted(Swept(now)[key], now) IN
  /\ counters' = [Swept(now) EXCEPT ![key] = counter]
  /\ lastSweep' = IF Sweeps(now) THEN now ELSE lastSweep
  /\ admitted' = IF Allowed(key, counter) THEN [admitted EXCEPT ![key] = Append(@, now)] ELSE admitted

-----------------------------------------------------------------------------
Init ==
  /\ clock = 0 /\ counters = [k \in Keys |-> NoCounter] /\ lastSweep = -SweepEvery
  /\ phase = "up" /\ deadline = 0
  /\ rows = Owned /\ unused = {p \in Rows : Owned[p] = None}
  /\ slots = [c \in Slots |-> NotAsked] /\ answer = NotAsked
  /\ served = 0
  /\ admitted = [k \in Keys |-> <<>>] /\ seen = [c \in Slots |-> {}]

Asking(r, agent) == [action |-> r.action, row |-> r.row, user |-> r.user, via |-> r.via,
                     origin |-> r.origin, owner |-> r.owner, ownerId |-> r.ownerId,
                     stage |-> "received", agent |-> agent, status |-> 0,
                     shows |-> {}, made |-> None, cut |-> FALSE, confirmed |-> FALSE]
\* onRequest, then the schema, before anything that looks at who is calling.
Received(r, agent) == LET s == Asking(r, agent) IN
  IF CrossSite(r) THEN Failed(s, "PermissionDenied")
  ELSE IF Unfit(r) THEN Failed(s, "VALIDATION")
  ELSE s

Free(c) == slots[c].stage = "free"
Live(s) == s.stage # "free"
\* A request moves on, or its answer is sent and nothing is left of it.
Move(c, s) == /\ slots' = [slots EXCEPT ![c] = IF s.stage = "answered" THEN NotAsked ELSE s]
              /\ answer' = IF s.stage = "answered" THEN s ELSE NotAsked
Still == slots' = slots /\ answer' = NotAsked
Connected == phase # "closed"
quiet == <<clock, phase, deadline, served>>
table == <<rows, unused>>
limiter == <<counters, lastSweep, admitted>>

\* The last requests of a run only read.
Bounded(a) == served < IF MethodOf(a) \in Safe THEN MaxRequests ELSE MaxAny
Arrive(c, r) ==
  /\ phase = "up" /\ Free(c) /\ Bounded(r.action)
  /\ Move(c, Received(r, FALSE)) /\ served' = served + 1
  /\ UNCHANGED <<clock, phase, deadline, table, limiter>>

\* authenticate, throttle, permissions.
Admit(c) == LET s == slots[c] IN
  /\ s.stage = "received"
  /\ IF s.via # "none" /\ ~Connected
     THEN Move(c, Failed(s, "closed")) /\ UNCHANGED limiter
     ELSE /\ Hit(KeyOf(s), clock)
          /\ Move(c, IF ~Allowed(KeyOf(s), counters'[KeyOf(s)]) THEN Failed(s, "Throttled")
                     ELSE IF ~Permitted(s) THEN Failed(s, Refusal(s.user))
                     ELSE To(s, "handling"))
  /\ UNCHANGED <<quiet, table>>

\* A query meets a closed connection.
Cut(c) == LET s == slots[c] IN
  /\ s.stage \in {"handling", "writing"} /\ ~Connected
  /\ Move(c, Failed(s, "closed")) /\ UNCHANGED <<quiet, table, limiter>>

List(c) == LET s == slots[c] IN
  /\ s.stage = "handling" /\ s.action = "list" /\ Connected
  /\ Move(c, Answered(s, 200, Readable(s.user)))
  /\ UNCHANGED <<quiet, table, limiter>>

\* getObject reads the row through the scope, or answers 404.
GetObject(c) == LET s == slots[c] IN
  /\ s.stage = "handling" /\ s.action \in Detail /\ Connected
  /\ Move(c, IF s.row \in Readable(s.user) THEN To(s, "judging") ELSE Failed(s, "NotFound"))
  /\ UNCHANGED <<quiet, table, limiter>>

\* What a write does before it is made: the body is read, a before-hook runs.
Prepared(s) == IF s.action # "destroy" /\ BadBody(s) THEN {Failed(s, "ValidationError")}
               ELSE {To(s, "writing"), Failed(s, "hook")}

\* The object rule, awaited, judges the row that was read.
Judge(c) == LET s == slots[c] IN
  /\ s.stage = "judging"
  /\ \/ Move(c, Failed(s, Refusal(s.user)))
     \/ s.action = "retrieve" /\ Move(c, Answered(s, 200, {s.row}))
     \/ s.action # "retrieve" /\ \E next \in Prepared(s) : Move(c, next)
  /\ UNCHANGED <<quiet, table, limiter>>

Prepare(c) == LET s == slots[c] IN
  /\ s.stage = "handling" /\ s.action = "create"
  /\ \E next \in Prepared(s) : Move(c, next)
  /\ UNCHANGED <<quiet, table, limiter>>

\* INSERT.  The database may refuse it for a constraint.
Create(c) == LET s == slots[c] IN
  /\ s.stage = "writing" /\ s.action = "create" /\ Connected
  /\ \/ \E p \in unused :
          /\ rows' = [rows EXCEPT ![p] = Relation(s)] /\ unused' = unused \ {p}
          /\ Move(c, [To(s, "written") EXCEPT !.row = p, !.made = p])
     \/ Move(c, Failed(s, "unique")) /\ UNCHANGED table
  /\ UNCHANGED <<quiet, limiter>>

\* UPDATE in the base queryset, by primary key.  A partial one may say nothing.
Changes(s) == Relation(s) # "absent" /\ s.row \in Writable(s.user)
Update(c) == LET s == slots[c] IN
  /\ s.stage = "writing" /\ s.action \in {"update", "partialUpdate"} /\ Connected
  /\ rows' = IF Changes(s) THEN [rows EXCEPT ![s.row] = Relation(s)] ELSE rows
  /\ Move(c, [To(s, "written") EXCEPT !.made = IF Changes(s) THEN s.row ELSE None])
  /\ UNCHANGED <<quiet, unused, limiter>>

Destroy(c) == LET s == slots[c] IN
  /\ s.stage = "writing" /\ s.action = "destroy" /\ Connected
  /\ rows' = IF s.row \in Writable(s.user) THEN [rows EXCEPT ![s.row] = None] ELSE rows
  /\ Move(c, [Answered(s, 204, {}) EXCEPT !.made = IF s.row \in Writable(s.user) THEN s.row ELSE None])
  /\ UNCHANGED <<quiet, unused, limiter>>

\* What was written is read again through the scope for its joins, and where the scope no
\* longer holds it the row as written is shown; then the after-hook, which may throw.
Finish(c) == LET s == slots[c] IN
  /\ s.stage = "written"
  /\ \/ Connected /\ Move(c, Answered(s, IF s.action = "create" THEN 201 ELSE 200, {s.row}))
     \/ Move(c, Failed(s, IF Connected THEN "hook" ELSE "closed"))
  /\ UNCHANGED <<quiet, table, limiter>>

\* A service: the route enforced its permissions, the handler runs in one transaction and
\* here hands a row over, whoever owns it.
CallService(c) == LET s == slots[c] IN
  /\ s.stage = "handling" /\ s.action = "service" /\ Connected
  /\ IF rows[s.row] = None
     THEN Move(c, Failed(s, "NotFound")) /\ UNCHANGED rows
     ELSE \/ /\ rows' = [rows EXCEPT ![s.row] = s.owner]
             /\ Move(c, [Answered(s, 200, {s.row}) EXCEPT !.made = s.row])
          \/ Move(c, Failed(s, "handler")) /\ UNCHANGED rows
  /\ UNCHANGED <<quiet, unused, limiter>>

-----------------------------------------------------------------------------
\* stop(): a second signal returns the first one's promise.
Stop ==
  /\ phase = "up" /\ clock + DrainFor <= MaxClock
  /\ phase' = "draining" /\ deadline' = clock + DrainFor
  /\ Still /\ UNCHANGED <<clock, table, served, limiter>>

PendingUnwritten == {c \in Slots : Live(slots[c]) /\ slots[c].stage # "written"}
Pending == {c \in Slots : Live(slots[c])}
Drained == Pending = {} \/ clock >= deadline
Disconnect ==
  /\ phase = "draining" /\ Drained
  /\ phase' = "closed"
  /\ Still /\ UNCHANGED <<clock, deadline, table, served, limiter>>

Tick == /\ clock < MaxClock /\ clock' = clock + 1
        /\ Still /\ UNCHANGED <<phase, deadline, table, served, limiter>>

Serve(c) == \/ Admit(c) \/ Cut(c) \/ List(c) \/ GetObject(c) \/ Judge(c) \/ Prepare(c)
            \/ Create(c) \/ Update(c) \/ Destroy(c) \/ Finish(c) \/ CallService(c)
Process == Stop \/ Disconnect \/ Tick
Browse == \E c \in Slots, r \in Asked : Arrive(c, r)

\* History: what the caller of each request may see, and when.
Asks(s) == s.stage \notin {"free", "returned"}
Observe == seen' = [c \in Slots |->
  IF ~Asks(slots'[c]) THEN {}
  ELSE Scope(slots'[c].user, rows') \cup (IF Asks(slots[c]) THEN seen[c] ELSE {})]

Next == /\ \/ Browse \/ Process \/ \E c \in Slots : Serve(c)
        /\ Observe

Spec == Init /\ [][Next]_vars

-----------------------------------------------------------------------------
TypeOK ==
  /\ clock \in 0..MaxClock /\ served \in 0..MaxRequests
  /\ phase \in {"up", "draining", "closed"} /\ deadline \in 0..MaxClock
  /\ counters \in [Keys -> [count: Nat, expiresAt: Nat]] /\ lastSweep \in Int
  /\ rows \in [Rows -> Users \cup {None}] /\ unused \subseteq Rows
  /\ \A c \in Slots : slots[c].stage \in Stages
  /\ seen \in [Slots -> SUBSET Rows]

(* A fixed window "admits a burst at a window boundary (up to 2x the limit   *)
(* across two adjacent windows)" (http/throttle.ts): wherever a window's     *)
(* length is laid over the requests let through for a key, it holds no more  *)
(* than twice the limit, whenever the sweep ran and the counter restarted.   *)
AdmitsAtMostTwice == \A key \in Keys : \A t \in 0..MaxClock :
  Cardinality({i \in DOMAIN admitted[key] : admitted[key][i] \in t..(t + Window - 1)}) <= 2 * LimitOf(key)

(* Whatever the route, a row that stands changes hands or goes only in a     *)
(* request whose caller passed the permissions of that route when it came,   *)
(* awaits before, and in whose scope the row is when the statement runs: a   *)
(* detail write looked it up earlier, and it may have been handed over since.*)
(* A row comes to be under a key that was never used: an update or a service *)
(* that arrives late brings none back.                                       *)
Serves(c, p) == /\ Asks(slots[c]) /\ slots[c].stage # "received" /\ slots'[c] # slots[c]
                /\ Permitted(slots[c]) /\ p \in Scope(slots[c].user, rows)
ScopeAtWrite == [][\A p \in Rows : rows'[p] # rows[p] =>
                     IF rows[p] = None THEN p \in unused /\ p \notin unused'
                     ELSE \E c \in Slots : Serves(c, p)]_vars

(* No answer shows a row that was in the caller's scope at no moment since   *)
(* the request arrived: not the list, not the row read again after a write,  *)
(* not the one read before the awaits.  What the caller itself has just      *)
(* created or, through a service, changed is shown to it.                    *)
Sent(c) == IF slots'[c].stage = "returned" THEN slots'[c] ELSE answer'
AnswersInScope == [][\A c \in Slots : Asks(slots[c]) /\ ~Asks(slots'[c]) =>
                       Sent(c).shows \subseteq seen[c] \cup {Sent(c).made}]_vars

(* Draining, as runServer promises it: no request meets a closed connection  *)
(* before the whole shutdown timeout has passed since the signal.            *)
NoEarlyCut == (answer.cut \/ \E c \in Slots : slots[c].cut) => clock >= deadline
=============================================================================
