# AngusJS in TLA+

Specifications of the parts of AngusJS whose correctness depends on the order things
happen in, with the TLC runs that check them on small instances and the TLAPS proofs
that hold for every instance. Paths are relative to the root of the repository: the
implementation is under `src/src`.

Run a check with `tlc -config <name>.cfg <MC module>.tla`, a proof with
`tlapm <module>Proofs.tla`. `PROJECT.json` lists the runs, a broken variant of the code
for every property (the *mutants*, operators such as `StartAlways` or `LeavesDropTopic`
beside the one they would replace), the source lines of each definition, the hazards and
the theorems.

## Inventory

| Component | State it keeps | Operations | Hard behaviour | Correct when |
|---|---|---|---|---|
| Background jobs (`jobs/`, `cli/commands/worker.ts`) | table `angus_jobs`; per worker a stop flag, a counter and its loops | enqueue, claim, run, record, retry, cancel, prune, schedule ticks, stop | workers race for rows, die in a run, outlive leases and timeouts; any query may fail | rows consistent, runs exclusive within a lease, at-least-once delivery, keys unique, loops stop |
| Transactions (`db/transaction.ts`) | per SQLite connection a lock (a promise) and the open frames | `atomic` outermost and nested, the gate before every query | one connection is shared by all requests; every await lets others in | nested atomicity, waiters wake, outside queries stay outside |
| Querysets, hooks, many-to-many (`db/queryset.ts`, `hooks.ts`, `manyToMany.ts`, `prefetch.ts`) | an immutable description of a query | chaining, terminals, paging; create, update, delete with hooks, getOrCreate, `add`/`set`/`remove` | read-then-write across awaits; hooks run before commit; each terminal compiles its own SELECT | no twins inside a transaction, hooks report what happened, terminals agree, pages cover |
| Lookups and search (`db/lookups.ts`, `search.ts`) | none | filter objects and Q trees to SQL | NULLs, wildcards, two dialects, lookups hidden by fields | a filter means what it says |
| Schema and fields (`db/model.ts`, `fields.ts`, `schema.ts`, ...) | connection registry | declarations | none | columns match declarations |
| Cache (`cache/index.ts`) | entries, their order, tag index, computations in flight | getOrSet, invalidate, delete, clear, cached, cacheResponses | computations race writes and `clear` | indexes agree, one computation per key, no failure sticks, fresh unless a write raced |
| Realtime (`realtime/index.ts`) | broker topics; per connection a map of subscriptions; SSE streams | open, subscribe, unsubscribe, close, start, send, cancel | authorization is awaited while messages and closes arrive | no leaked or doubled handler, the limit holds, live subscribers hear |
| Accounts (`auth/credentials.ts`, `app.ts`, `models.ts`, ...) | users, sessions, single-use tokens | login, register, setPassword, revoke, token issue and use | login races a password change; a token is used twice | sessions die with the password, a token is accepted once |
| Social sign-in (`auth/social.ts`, `social-app.ts`, `oauth.ts`, `jwt.ts`) | links, one flow cookie per browser, cached keys | begin, callback, exchange, verify, link, sign up, unlink | tabs share a cookie, callbacks in the wrong browser, key rotation, a sign-up that fails halfway | a session is for whoever consented in this browser's flow; a way in remains |
| HTTP layer (`http/`, `core/errors.ts`) | throttle counters and the last sweep | allow, cross-site check, error contract, paginators | window boundaries, sweeps | bounded rate, each error once |
| Start and shutdown (`core/project.ts`, `app.ts`) | requests in flight, the stop promise | createApp's order, runServer, drain | the deadline with requests between write and answer | drained before the database closes |
| Routing, views, permissions, serializers, services (`routing/`, `auth/permissions.ts`, `serializers/`, `services/`) | none | the six actions of a view set, a service route | a row changes hands between the look, the rule, the hooks and the write | nothing outside a caller's scope is shown or written |
| MCP (`mcp/`) | audit rows | post, policy, confirmation, tool call | a tool call runs the whole HTTP pipeline and may fail after its write | every change allowed, confirmed where it must be, and recorded |
| Admin (`admin/`) | none; forms live in browsers | changelist, add, change, delete | a form is as old as the page it is on, and writes every field | fields left alone stay |
| File storage (`storage/`) | files | save, read, exists, delete, upload, serve | look, await, write; crashes halfway; caches for a year | bytes behind a key never change |
| Email (`email/`) | none | prepare, send, sendMany | a batch fails in the middle, an answer is lost | staging mail reaches nobody real, no silent loss or double |
| OpenAPI, client, CLI, tracing, testing, settings | per call or none | text and file I/O | little | not a question of order |

How they interact: everything that touches the database goes through querysets, whose
queries pass the transaction gate; services and the job queue wrap their work in
`atomic`; the hooks a write runs clear the cache (`invalidateCacheOnWrite`) and publish
to realtime; workers, request handlers and the schedule ticker share the database, within
one process on SQLite through one connection. An MCP tool call is a request sent through
the same application, and mail is typically sent from a job, which repeats it when it throws.

## Modules

| Module | Models |
|---|---|
| `JobQueue` | the job queue: rows, callers that enqueue, worker loops, the operator, crashes |
| `JobDelivery` | what the queue promises: at-least-once delivery per job |
| `SqliteTransactions` | `atomic()`, the lock, the gate and the connection's frames on SQLite |
| `NestedTransactions` | what `atomic()` promises: nested blocks, kept or undone as a whole |
| `DataLayer` | the multi-query operations of querysets and relations, with hooks, on both databases |
| `Columns` | the model, with its fields, that the next four speak of |
| `Matching` | one lookup and one search, as SQL evaluates them, beside what they mean |
| `Lookups` | the lookup language: keys, paths over relations, trees of conditions |
| `QuerySets` | chaining, compilation, terminals, list requests, paginators, cursor paging |
| `Filtering` | the two together: querysets whose conditions are those of `Lookups` |
| `CursorPages` | what `page()` promises a caller who keeps its cursor while rows change |
| `Cache` | the in-memory store, `getOrSet`, writes that invalidate |
| `Realtime` | the broker, WebSocket subscriptions, SSE streams |
| `Accounts` | users, their sessions, reset tokens and provider links |
| `SignIn` | OAuth and OIDC sign-in between browsers, provider and callback |
| `Requests` | a running server: middleware, limiter, permissions, view set, service, drain |
| `Agents` | the MCP endpoint, composed with `Requests` (EXTENDS it) |
| `Admin` | the admin's forms |
| `Storage` | three file backends, uploads and the serving route |
| `Email` | preparing and sending batches |
| `MC*` | instances for TLC (symmetry, sets of sets, which modules run side by side) |
| `*Proofs` | theorems and their proofs |

`JobQueue` refines `JobDelivery` (property `DeliveryPromise`) and `SqliteTransactions`
refines `NestedTransactions` (property `Atomicity`). `QuerySets` leaves open what a condition
says of a row (its constants `Verdict`, `Vacuous`, `Relevance`), which `Filtering` fills with
`Lookups`; its walks refine `CursorPages` (property `PagesByCursor`), whose pages go on after everything
shown so far: the code remembers nothing but the last row's key.
`Agents` composes the MCP server with the application it calls.

### JobQueue

A step is an awaited query, or the code between two. A transaction that writes one row and
commits is one step at its commit. `Serializable` tells the databases apart: `TRUE` is
SQLite, where `atomic()` waits for the open transaction (`Free`); `FALSE` is Postgres at
READ COMMITTED, where transactions overlap and a conditional `UPDATE` looks at the
committed row again.

- `Enqueue`, `EnqueueCommits`, `EnqueueRollsBack`: `enqueue` from its uniqueness check
  to the commit of the transaction it joined. `runSchedules` is `Enqueue` with the slot's key.
- `PollQueue`, `ClaimReads`, `ClaimLocks`, `ClaimMisses`, `ClaimFindsNothing`, `ClaimFails`:
  one call of `claimJob`. Its two reads (pending, then expired rows) are one step.
- `HandlerReturns`, `HandlerThrows`, `HandlerTimesOut`, `RecordOutcome`,
  `RecordSuccessFails`, `RecordFails`: `runJob`. The record names the row's id and nothing
  else, so it may write over what others did meanwhile, and does in the model.
- `RetryJob`, `CancelJob`, `PruneJobs`, `StopWorker`, `LoopExits`, `Crash`, `Tick`.

A write outside a transaction waits for the transaction it finds, once, so it can land in
the middle of the next one: such writes are enabled at any time. The sleep of an idle loop
is part of its poll. Payloads, error texts and validation (a rejected call changes nothing)
are left out. `lastError` is what the last record says: nothing, an error, or an unknown task.
`late`, `revived` and `handled` are history that no action reads: rows one of whose runs
outlived its lease, rows brought back while their key was held beside them, rows whose handler
has returned. `TirelessOperator` frees an operator's retries from the bound on upsets.

### SqliteTransactions

`held` is the WeakMap's promise, `stack` the frames on the connection (BEGIN's, then one per
savepoint, with the writes made in each), `committed` what is in the database for good.
Each element of `Blocks` is one call of `atomic`, which writes at most once. A nested call
pushes a savepoint named after its depth and never touches the lock. `RELEASE` and
`ROLLBACK TO` act on the innermost frame of that name, as SQLite does. `Issue`, `Wake` and
`RunQuery` are a writing query outside any block: it looks at the lock once, may wait, and
reaches the connection later, in whatever transaction is open then. `BeginThrows` is a BEGIN
that fails: it stands before the `try`, so the lock is never released. `Parallel` lets a
block call others side by side (`Promise.all`). On Postgres, `atomic` is the driver's own
transaction and is not modelled here.

### Cache

A value is the version of the rows it was computed from. The store is synchronous: `get`,
`set` (`Put`: sweep, forget, insert, index, evict) and the removals are single steps.
`getOrSet` awaits between its lookup, its computation, its store and its clean-up
(`Lookup`, `Join`/`Start`, `ReadData`, `StoreValue`/`SkipStore`/`ComputeThrows`, `Settle`,
`Answer`). A write changes the rows (`WriteRows`) and clears the tag in an awaited hook
(`InvalidateModels`). Hooks run one by one, and one before it may throw (`HookThrows`): the
rows stay written and nothing is cleared, which `missed` remembers. As in the code, `Settle` removes whatever is registered under the key,
also a newer computation. `raced` is history. Writes inside transactions
are `DataLayer`'s; `cacheResponses` is not modelled.

### Realtime

`subs` is the connection's map: a reservation while `authorize` is awaited, then the release
function. `topics` and `sets` are the broker's Map and its Sets; a Set is kept apart from
the topic because a release function closes over the Set it joined (`home`), which may no
longer be the topic's. `Reserve`, `Authorized`, `Refused`, `AuthorizeThrows`, `Unsubscribe`,
`Open` and `Close` are the handlers of a WebSocket; `StreamStarts`, `SendFails` and `Cancel`
those of an SSE stream, which is created after all its channels were authorized. A
publication changes no state. A message before `open` has finished throws and changes
nothing. A channel listed twice by one SSE request is not modelled.

### Accounts

A request is the code between its awaits: it has read a user, verified a password or consumed
a token (`On`, `pc`), and writes in a later step what it decided. Requests refused at their
first look change nothing and are left out. `users`, `sessions`, `tokens` and `links` are the
four tables of `auth/models.ts`; a user is named by its unique address, which for an identity
without an email is made from the identity. The transactions of `consumeVerificationToken`,
`resolveSocialUser` and `unlinkProvider` are two steps, what they read and what they write,
and wait for each other on SQLite (`Free`); that of `setPassword` is one step, at its commit. `Fails` is
a query that fails, an `onCreate` that throws or a crash between two steps. A password is present or
not, and `epoch` counts its changes; `born` is the epoch the request had read. History:
`raced`, `uses`, and `stranded`, who lost several links at once to one unlink.

### DataLayer

A call is a list of stages still ahead (`todo`): `look`, `doom`, `remove`, `insert`, `write`
and `told`, each one awaited query or one round of hooks, planned as the source's functions
run them (`Plan`, `Afterwards`). Any other call runs between two stages. `add` and `set` of a
relation are such writes to the join model, always inside `atomic()`, and its `remove` and
`clear` are its delete; these and the rest run where their caller put them. On SQLite there is one transaction at a time (`holder`), and a
query passes the gate before its statement; on Postgres each transaction sees its own writes
(`mine`) and rows it changed are locked. The hooks clear a cached view which a reader fills in
three steps. What fails in a transaction rolls it back (`Throw`); outside one the rows stay as
they were written and the hooks still ahead are skipped (`ThrowOutside`), which `view.missed`
remembers. `since`, `raced`, and the sets `blind` and `bare` are history: keys that some call created
or renamed rows to without looking, or looked for outside a transaction.

### Matching, Lookups and QuerySets

`Matching` gives each lookup its value on a row, which is true, false or null as in SQL,
with LIKE, `instr` and `substr` as the two dialects use them, with SQLite's `lower()`, which folds
ASCII only, on the column and JavaScript's on the value, and with the value's length in UTF-16
units, and beside it (`FieldHolds`,
`SearchHolds`) what its name says. `Lookups` reads keys, follows relations and joins lookups to
trees of conditions, and beside that (`Holds`) stands what the author of the filter means, of
rows no NULL decides about. `QuerySets` is the derivation of
query states by chaining, the SELECT each terminal compiles from them, the view set's list
query and the admin's changelist, page-number and limit/offset pagination, and a walk with
`page()` while others insert and delete. Search by `websearch_to_tsquery` is Postgres' and left out.

What `QuerySets` has to know of a condition is what it says of a row ("true", "false" or "null"),
whether it is empty, and how well a row answers a search: three constant operators. The
configuration gives them the definitions of `Lookups`, which recurse through trees of conditions;
the proofs hold for any. The filters and excludes of a query state are sets: `where()` conjoins them,
in an order no property depends on. Numbers and references are ordered by, texts are not.

### Requests and Agents

A request is a slot at one of its awaits: `received` (behind it the cross-site check and the
schema), `handling` (authenticate, limiter and permissions passed), `judging` (the row was
read, the object rule is awaited), `writing` (body and before-hooks done), `written`. `Scope`
is `ownedBy`, and both the read and the UPDATE apply it, at their own moments. Object rules and
hooks are the application's and may approve, refuse or throw. `Stop`, `Drained` and `Disconnect`
are runServer's `stop()`: no new request arrives after it, and the poll sees the requests in
flight. The permissions of a route are the router's, the view set's and the action's
(`PermissionsFor`). `seen` is history: what was in the caller's scope since its request arrived.

`Agents` adds what the transport refuses, the policy, the confirmation and the audit record; a
tool call occupies a slot like any request (`agent`), and its answer goes back to the
dispatcher (`returned`), which records it (`Report`). `changed` is history.

### Admin

A form is rendered from a row after its relation choices were awaited, filled in, submitted,
and saved with one UPDATE of all editable fields; it comes back with an error or is done. Rows
and related rows go meanwhile. A value is a string, `Carried` what a form can carry of it; a
blank input is NULL, the default, an empty text or an error, as the field's declaration says.
A browser shows a select's first option where none is marked.

### SignIn

`Begin` seals a flow into the browser's only flow cookie; `SendBack` is the provider;
`Callback` opens the cookie and compares the state; `Exchange`, `FetchJwks`, `Verify`,
`Userinfo` and `Issue` are the awaits that follow. That a code is used once and that the PKCE
verifier is compared is the provider's part (`CheckPkce` names those that do compare). Where a
provider with keys sends no ID token, userinfo is asked (`ProfileFrom`), and a callback verifies
with the keys it was given, whatever is cached by then.

### Storage and Email

A save looks, awaits and writes; on the local disk the write is seen half done. Keys are one
space: the names a file may keep, which anybody may ask for at any moment, and those with a random
suffix, which one upload draws, and which nobody thinks of before that save was answered; from then
on anybody may use them, as the name to keep of another file too. `disturbed` and `kept` are history:
keys deleted, overwritten, lost with a Map, saved by two at once or read half written; keys written
as a name to keep. `Email` prepares all messages of a batch before it sends the first, and the HTTP
backend posts them one by one; `results` is what the call will return, lost when it throws. Another
call of `sendMany` on the same batch is the job's retry.

## Runs

Every cfg says `CHECK_DEADLOCK FALSE`: the clock, the rows and the one-shot calls of an
instance are bounded, so an instance comes to rest.

| Run | Shows |
|---|---|
| `jobqueue_sqlite` | two workers, two rows, one caller that is also the ticker, one upset: rows consistent, runs exclusive, attempts left, keys unique, delivery promise |
| `jobqueue_postgres` | one worker with two loops, timeouts, `maxJobs` = 2: bounded overshoot, stop drains |
| `jobqueue_recovers` | one loop, two rows of two priorities, a crash, an operator who never tires: a due row, also one left by a dead worker, is taken unless others that `claimJob` prefers keep coming |
| `database` | `SqliteTransactions`: three blocks nested or not, one query outside, one failing BEGIN: frames match blocks, the gate holds, waiters get on, nested atomicity. `QuerySets`: every chain of two refinements, list requests and paging walks over two small tables with NULLs, `%`, both cases and characters beyond ASCII, on both databases: filters mean what they say, terminals agree, pages cover, cursors go on where they left off |
| `server` | `Cache`: three callers, two keys, a store of one entry, one writer whose hooks may throw, one `clear`: indexes agree, shared computations, freshness, no poisoned key. `Realtime`: two connections, three channels, three messages, one stream, limit 2: no leak, slots match, limit, live subscriptions hear |
| `accounts` | two requests, one address, three identities at two providers, one token, one session row, two password changes: sessions follow the password, the token is accepted once, a way in remains |
| `data_layer` | two calls of any of the operations, on both databases, in a transaction or not, failing at any query or hook, and a caching reader: hooks report what went, no twins in transactions, `set` leaves what was wanted, no stale view on SQLite but behind a hook that threw |
| `requests` | `Agents`: two requests in flight, policies and messages of the protocol, a stop; the throttle: visits around the end of its window; `Admin`: two editors, two forms, registrations of each kind of field: the rate is bounded, nobody is cut early, agents account for changes, writes and answers stay in scope, untouched fields stay |
| `services` | `SignIn`: two browsers, two flows, two callbacks at once, rotation, restarts; `Storage`: two calls at once on each backend, crashes; `Email`: batches of up to two messages through each backend, two calls: sessions match flows, bytes stay, mail is honest |

`database`, `server`, `requests` and `services` each hold independent modules or instances side by
side: `part` names the one a behaviour is of, and the variables of the others stand still.

Three runs show where the code departs from what it says of itself; each stops at a
counterexample of one property:

| Run | Departs from |
|---|---|
| `jobqueue_reclaim_race` | "two workers cannot claim the same row" (Postgres, expired rows) |
| `accounts_last_way_in` | unlinking "refuses to remove the last way in" (`auth/social.ts:197`); links are counted over all providers and deleted by provider |
| `admin_forgets_relation` | a change form shows the values of its row; a relation is read under the wrong name (`admin/site.ts:554`) |

Seven more configurations are kept beside them and end in a counterexample too, under
*Known departures*: run them with the MC module of their component.

Bounds, and why they suffice to reach the interesting cases:

- `MaxRows`, `Horizon`: two rows and three instants let a lease of 0 expire, a row be
  reclaimed by the other worker and its first holder record late. `MaxUpsets` counts crashes,
  failed queries and operator retries together; one is enough for each to meet every state.
  `jobqueue_recovers` has two rows, so that one can be preferred to the other; there the
  operator's retries are unbounded, so that preferred rows may keep coming, as `DueJobsTaken` grants.
  `jobqueue_postgres` counts the jobs of one worker, for which one row that is retried is enough.
- `Lease`, `Timeout`, `RetryDelay`, `Every` are in ticks; a timeout of 9 never fires within
  the horizon, one of 0 may fire at once.
- Three blocks: nesting to depth 2, siblings, or three that queue for the lock. Four take
  more than five minutes.
- `DataLayer`: two calls, because each property speaks of one call and of what others did
  under it, and one other call can do any of it. Two keys give `set` one to drop and one to
  add; `MaxId` = 5 lets both calls create what they want. `Limits` = {9} never cuts: with a
  limit `delete()` tells its hooks less than it deletes, see the departures.
- `QuerySets`: two calls of a chain meet in every pair of slots of the query state, which is
  where they can disturb each other; pages of one row over three rows have a first, a middle
  and a last; the tables have a NULL in each nullable column, a chain of two relations and
  equal rows. The conditions are one of each kind of trouble: wildcards, case, a hidden
  lookup, `not` over `or`, an empty list, an absent value, another column.
- A store of one entry makes every insertion evict; `Ttl` = `SweepEvery` = 1 with a clock of two
  instants makes entries expire, be swept and be found expired.
- Accounts: two requests overlap in every pair of steps; of three identities two are at one
  provider; one session row is enough for the
  properties, which speak of one row at a time. With two rows and one
  password change it takes two minutes and finds the same. A clock of two instants expires sessions and tokens.
- Three requests on two connections: two may fill the limit of one connection while the third
  waits, or all compete for the same channel.
- `Cache` has one write in the run, which meets every step of three callers; of several writes the
  proof speaks.
- `Requests`: two slots let any request change rows between any two awaits of another; two requests
  may write and a third only reads (`MaxAny`, `AgentRequests`). The limiter has behaviours of its
  own (*visits*): five requests (`MaxRequests`) of two callers, a limit of two in windows of two
  instants, four instants of clock, so that the end of one window and the beginning of the next are
  both filled, and a sweep, every three instants, finds a counter to drop.
  Its throttle, scope, drain and audit properties are proved for any numbers.
- `Admin`: two editors and two forms make one form stale by the other; one choice of two is
  beyond `ChoiceLimit`; the rows hold a NULL flag, a blank text where NULL may stand, seconds and
  outer spaces.
- `SignIn`: two browsers and two flows are the mix-ups there are: another's callback, a newer
  flow in the same cookie, the same callback twice. `FlowTtl` = 0 with `Tolerance` = 1 and three
  instants have flows fresh, tolerated and expired.
- `Storage`: one name and one drawn key, which may be used as a name too, since keys never interact
  with each other; the proof has any number.

Symmetry is used where no liveness is checked, over sets no guard tells apart.

## Fairness

- `JobQueue`: strong fairness of each loop's step (not of its faults). A loop waits only for
  the SQLite lock, whose waiters wake in FIFO order, so none is overtaken for ever; handlers
  are assumed to end. Weak fairness of the end of a caller's transaction. Nothing is assumed
  of crashes, the operator or the clock.
- `SqliteTransactions`: strong fairness of `Acquire`, again because promises wake in FIFO
  order; weak fairness of a block's BEGIN and end, and of a query that may go on.
  `WaitersGetOn` exempts the lock leaked by a failed BEGIN.
- The other modules state safety only. A drain ends by its deadline, which is a property of
  the clock and not of the code; handlers, providers and people owe nobody an answer.

## Proofs

All proofs are checked by TLAPS for every value of the constants that satisfies the modules'
named assumptions: numbers are natural numbers, null values are none of the real ones, batches
are sequences of mails, identities are finitely many, keys of the cache and requests in flight are finitely many where they
are counted, and what a form carries of a value it carries again. A hypothesis a theorem adds
to them is part of its statement.

- `JobQueueProofs`: `TypeCorrect` and `RowsStayConsistent` on both databases;
  `RunsAreExclusive`, `AttemptsStayLeft` and `KeysStayUnique` under `Serializable`. The
  argument needs more than the properties: one transaction is open at a time
  (`OneTransaction`), the row a claim is about to take is still pending or expired
  (`ClaimsStillGood`), and a run that is not late owns its row exactly as its claim left it
  (`HoldersOwnRows`); then a claim can only take a row nobody owns. For keys, a draft's key is
  free while its transaction is open, but for rows brought back meanwhile (`DraftKeysFree`). `OvershootBounded`, on both databases:
  each loop between its test of `shouldStop` and the row it counts is counted ahead
  (`CountedAhead`). `QueueDelivers`, under `Serializable`: each step of the queue is one of
  `JobDelivery` or changes nothing it sees; the mapping rests on the invariants before.
- `SqliteTransactionsProofs`: `TypeCorrect`, and `GateSound`: a query remembers the block it
  waited for, which has let go of the lock when the query passes and never acquires it again
  (`GateRemembers`). `FramesMatch`, where calls are awaited at once: the running blocks form a
  chain under the lock's holder (`Chained`) and each frame is one's (`Framed`), so a block that
  awaits no other is the innermost, and the frame its name finds is its own. From the same
  invariant `BlocksAreAtomic`: what a frame has collected is what `NestedTransactions` keeps or
  undoes with its block. Both assume `~Parallel`: blocks side by side do share frames, see below.
- `CacheProofs`: `NothingPoisoned` and `StampedeBounded`. The count that is inductive is that
  of computations against clears plus the registered one (`ComputationsCounted`): settling an
  old computation may unregister a newer one, but takes itself out of the count.
  `FreshBetweenWrites`: the index knows every tagged entry (`Indexed`), and what a computation
  has read is current, marked as raced, or behind writes that no hook has told of: their hooks are
  due, or one that threw skipped them (`ReadsFresh`, `Unheard`). `StoreAgrees`: no key stands twice in the order (`Once`), so its length is the
  number of entries; taking keys out keeps the rest in order (`WithoutShape`, by the ranks of
  what is kept instead of an induction). `TypeCorrect` follows from the three invariants.
- `DataLayerProofs`: `TypeCorrect` from `Base`: a call's list of stages is one of the shapes its
  operation can have left (`Shapes`), two transactions never hold one row (`Locked`), ids are used
  once (`IdsOnce`). `DeletesAreReported` adds what a delete has told its hooks and what others
  changed since (`Reports`); it assumes `NoLimits`, since with a limit the code tells its hooks
  less than it deletes. `SetLeavesWhatWasWanted` adds what `set` is still to drop and to add
  (`Settings`, `LinksOK`); `KeysStaySingle` that a key looked up and found absent inside a
  transaction is absent until it commits (`Single`), key by key: what is excused for one key
  (`blind`, `bare`) excuses no other; `ViewStaysFresh` that a view out of date has
  a call ahead of it that will clear it (`Fresh`, `Tellers`), was raced or was missed by a hook that
  threw. The last two are about SQLite.
  `NothingLostBetweenPages` is about `CursorPages`: a row that has matched all along is shown or
  comes after all that was shown (`PagesInv`).
- `DataLayerProofs` again, about `QuerySets`, for any tables, conditions, orderings, page size and
  length of chains: `QuerySafety`, that of a caller of `page()` the cursor is the last of what was
  shown and the queryset still has its primary key, no rank and no offset (`WalkOn`), is the
  inductive invariant. From it `PagingByCursor`: what the compiled query with the cursor's
  comparison selects is what remains in `CursorPages` (`RemainingIs`), its rows come in the order of
  keys (`AskedOrder`), and one row more than the page decides whether there is a rest
  (`PageShown`). `TerminalOperations` rests on what an ORDER BY returns: sorting by rank
  (`Arranged`) lists each row once in the order (`ArrangedOrders`), since the sort keys with the
  primary key last are a strict order (`SortPairsStrict`); on windows of the same results
  (`Rewindowed`), on the reversed order for `last()` (`LastIs`), and on sums: they do not
  depend on the order of adding (`SumTakes`), and over disjoint groups they add up (`SumUnion`).
  `Pagination` adds the arithmetic of pages (`Ceiling`): there is a next page exactly while rows are
  left. These are state by state consequences of the invariant; of the constants they use that
  primary keys are unique in a table, that orderings name sortable columns, that `Least` and
  `Greatest` lie beyond all values, and that a comparison with a primary key means what it says
  (`CursorsCompare`). TLC evaluates these assumptions on the run `database`, with `Lookups`.
- `DataLayerProofs` again, about `Matching`: `LookupsMeanWhatTheySay` and `SearchesFind`, for texts of any
  length over any characters. An escaped text in a LIKE pattern, with wildcards before or after it or
  not, matches a text of which it is the part that stands there (`LikesPart`); so does what SQLite
  is asked instead with `substr` and `instr` (`LeadingIs`, `TrailingIs`, `InstrIs`). Both are therefore
  the same part of the text (`TextsMean`), and the two databases agree. The assumptions are what a lookup is
  meant for (`Suits`): numbers to compare with numbers, texts with texts, no NULL in a list, and
  no empty term in a search, which `searchTerms` never makes; and the characters on which SQLite and
  JavaScript agree (`CharactersAgree`, `FoldsAlike`): without it the lookups do otherwise, see below.
- `AccountsProofs`: `TypeCorrect`, with `Grounded` (whatever a request, row or link refers to
  exists; a user is never made twice), from which `SessionsFollow` holds: only `setPassword`
  turns the password over, and it revokes in the same step. `TokensOnce` needs that one
  transaction is open at a time (`OneTransaction`), so a token about to be accepted is still unused
  (`TokensCounted`). `WayInKept`: a user about to be
  unlinked keeps a password, a link elsewhere, or loses several links of one provider at once, which
  strands them (`WaysIn`); counting links needs that they are finitely many (`IdentitiesHeld`).
- `RealtimeProofs`: `TypeCorrect`, `SlotsStayMatched`, `LimitHolds` (live subscriptions inject
  into the map, whose size counts pending authorizations too) and `NothingLeaks` (joining and
  leaving add and remove exactly their handlers from the union of all Sets).
  `LiveOnesHear`: the Set that a live handler's release function knows is the one its channel's
  topic has (`Tuned`), since a Set that somebody else is in is never emptied.
- `RequestsProofs`, about `Requests` composed with `Agents`: `TypeCorrect`. `Good` says what a request has
  passed by the time it reaches a stage, and `Careful` that every slot has; what a caller has
  seen only grows while the request lasts (`Observed`), so other slots' steps keep it
  (`SlotsKept`). `Scoped` says that the present scope is among what was seen. `WritesInScope`
  goes by the four statements that write (`Writers`): what a request passed on its way to one of
  them it still passes (`PermittedSame`), and an unused key never comes back (`Unspent`). From
  `Careful` and `Scoped` follows `AnswersStayInScope`. `DrainsFirst` needs `Cuts`: the server closes when
  nothing is in flight, or after the deadline. `AgentsAnswerForChanges` counts: a change is owed
  to the record from the moment it is made (`Owed`), each step adds at most one change and one
  slot that owes it, or one record and one slot less (`Tallied`); `Exposed` carries the policy's
  decision from the post to the change.
  `LimiterHolds`: per key, admissions are in order, and those older than a
  window are counted by the state of the counter; the sweep and the restart of an expired
  window preserve it. Then the admissions within one window's length are counted from the
  earliest of them.
  `UntouchedStay`, about `Admin`: an untouched input says what the row held when the form was
  opened, also after the form came back with an error (`FormShows`), and what is read back of it is
  that value or differs from it in a way that the property names (`ReadBack`, `LostAs`).
- `ServicesProofs`: `TypeCorrect` and `BytesNeverChange`, about `Storage`. A drawn key is saved by
  the one call that drew it (`Drawn`, `SavedOnce`) and is known only after that save ended, so
  nobody reads it half written (`KeptKnown`), and while nobody uses it as a name it holds the same
  whole file or none (`Whole`). Under any key, what is written meets nothing unless the key was
  disturbed (`WritesFree`, `WritingHalf`, `WritingAlone`), and so what is read and kept is what is
  stored (`ReadsStored`, `KeptStored`).
  `MailStaysHonest`, about `Email`: what the mailbox holds of a call is the beginning of its
  batch, in order (`FromTheBatch`, `InOrder`, `Begins`), and the last call's part is at its end, as
  long as what it has posted (`LastOnes`), with the results it has collected (`ResultsOwn`).
  `SessionsAreBegunHere`, about `SignIn`: a cookie holds a flow its browser began
  (`CookiesBegun`), a provider sends back to flows that were begun, once each (`ReturnsBegun`), a callback
  past the comparison of states has the flow of its cookie (`CallbacksMatch`) and past the
  exchange a code spent by it alone (`PastExchange`), which the session it makes keeps
  (`SessionsMatch`).

Only model-checked: liveness (`DueJobsTaken`, `StopDrains`, `WaitersGetOn`), which is out of the
prover's reach, as is anything about ENABLED; `FiltersMeanWhatTheySay`, since `Lookups` reads
keys and evaluates trees of conditions by RECURSIVE operators, and what these compute is an
induction over data (its leaves are proved, by `LookupsMeanWhatTheySay`); and
the properties that the code violates. Every other property of a run is stated by a theorem.

## Known departures

Where the code does something else than a comment, a doc or a reader would expect. The first
seven have a configuration that shows it; `accounts_last_way_in`, `admin_forgets_relation` and
`jobqueue_reclaim_race` above are the others.

- `JobQueueSlotTwice.cfg`: "only the first call in a slot creates a job"; a job that finished
  within its slot frees the slot's key.
- `SqliteSweptQuery.cfg`: an outside query "cannot be swept into a transaction"; it looks at the
  lock once, and another transaction may begin before its statement.
- `SqliteSideBySide.cfg`: "rolling back if it throws", for blocks under `Promise.all`, which share
  the names of savepoints.
- `RealtimeDeaf.cfg`: "one bad subscriber must not stop the others"; a release function called
  twice drops the topic others use.
- `JobQueueKeysTwice.cfg` (with `MCJobQueue`): "Two jobs with the same key cannot be pending at once"
  (`jobs/models.ts:50`); `enqueue` looks for live rows only, and `retryJob` and the record of a late
  run bring a row back without looking.
- `JobQueueStarved.cfg`: "Jobs whose lease has expired are eligible again" (`jobs/index.ts:180`);
  expired rows are looked for only when nothing is pending (`:193`), so a queue that is never empty
  leaves them for ever.
- `ServicesOriginals.cfg` (with `MCServices`): redirected mail goes on "keeping the originals in an
  `X-Original-To` header" (`email/index.ts:271`); the header holds those of `to`, and `cc` and `bcc`
  are dropped.
- Jobs: a handler that outran `timeoutSeconds` goes on beside its retry (`jobs/index.ts:54`, `:268`);
  a job that kills its worker is reclaimed and never compared with `maxAttempts` (`:205`).
- Cache: a value computed before a write may be stored after its invalidation
  (`cache/index.ts:262`); outside a transaction, a hook that throws keeps the later ones, and with
  them `invalidateCacheOnWrite`'s, from running although the rows stay written (`db/hooks.ts:83`,
  `queryset.ts:646`). `FreshUnlessRaced` and `ViewFresh` show that nothing else leaves a stale entry.
  `cacheResponses` keeps its key in the `store` object (`:355`) and never clears it.
- Data layer: `count()`, `update()` and `delete()` ignore `limit`, so hooks may be told of fewer
  rows than went; `page()` on a ranked queryset skips rows; `last()` of a limited or ranked
  one is another row; `exclude()` drops rows whose column is NULL (`queryset.ts:98`); SQLite has no
  OFFSET without LIMIT; Postgres refuses DISTINCT ordered by what is not selected; an empty prefix
  matches NULL on SQLite; beyond ASCII, SQLite's lookups do not do what `docs/queries.md` says of
  `icontains` and its like: `lower()` folds ASCII only and `toLowerCase()` everything, so a column with
  another capital is missed even by its own text, and a prefix or suffix with a character of two
  UTF-16 units matches nothing longer than itself (`db/lookups.ts:195`, `:206`); a create or rename that does not look, and
  `getOrCreate` outside a transaction, make twins; on Postgres after-hooks
  clear a cache before the commit (`hooks.ts:97`), so `ViewFresh` is SQLite's only.
- View sets: `?id__in=junk` matches nothing where the comment says a value that does not convert
  "narrows nothing" (`viewset.ts:129`); an explicit ordering comes after the search rank,
  not before it (`:349`); an update of a row that is gone by then answers 200 with the row as it
  was; a creation is shown even outside its maker's scope; an after-hook that throws makes an
  error of a write that stays.
- Admin: an untouched save turns a NULL checkbox into false, and blank text into NULL where that is
  allowed (`widgets.ts:207`, `:213`); a field with a default cannot be cleared; seconds and outer spaces are lost on an
  untouched save; a relation beyond the first 500 choices is lost; a stale form overwrites what
  others changed; saving a row that has gone is answered as a save.
- MCP: its routes are mounted before authentication and the limiter, which tool calls meet
  inside; a record "error" may be of a call that made its change; a `tools/call` sent as a
  notification is executed and answered 202.
- Sign-in: a callback that fails clears the cookie of a newer flow in another tab; keys are kept
  ten minutes and an unknown `kid` does not refetch them; a flow lasts its five minutes plus the
  tolerance.
- A reset token is consumed in one transaction and the password set in another (`auth/app.ts:374`).
- Storage: half a file of a save cut off by a crash stays, and a retry under a kept name is refused;
  `immutable` is served "because keys carry a random suffix" (`routes.ts:76`) for kept names too, which
  may be overwritten, deleted or, guessed before their save has ended, served half written.
- Email: a batch that fails midway loses the results of what was sent, and a retry sends it again.

## Not modelled

Every component is listed in `PROJECT.json` with its reason. OpenAPI, client generation, CLI,
tracing, settings and testing are computation or I/O without shared state; so are declarations of
models and fields, compilation of routes, conversions of single fields, templates and HTML, in
components that are otherwise modelled. Postgres' full-text search and the transactions of its
driver are that database's. `cacheResponses` depends on the object Elysia hands to its hooks,
which is not under `src`.

Outside the code, the models rely on this: `app.stop(false)` accepts nothing new and leaves the
requests in flight counted; random suffixes are not drawn twice for a name; a provider exchanges
a code once and, where it supports PKCE, compares the verifier; a browser sends the cookies of its
own jar, but is not relied on to drop one whose `Max-Age` has passed.

## Plan

1. Proofs: the invariants behind `JobQueue`'s properties on Postgres
   that hold without `Serializable`.
2. `Accounts` on Postgres, where `TokensUsedOnce` and concurrent unlinks need a transaction per
   request, and an abstract specification of what a session grants, for `Accounts` and `SignIn`
   to implement.
3. `Email` composed with `JobQueue`, and `Services` with `SqliteTransactions`: what a retry or a
   rollback leaves of a handler that sent mail.
