------------------------------ MODULE JobQueue ------------------------------
(***************************************************************************)
(* The background job queue of src/src/jobs: rows of the table angus_jobs, *)
(* the calls that enqueue them, the worker loops that claim, run and       *)
(* record them, the schedule ticker, and the operator's calls (retry,      *)
(* cancel, prune).                                                         *)
(*                                                                         *)
(* Every awaited query is a step of its own, so the calls of two actors    *)
(* interleave between them.  Serializable tells the two databases apart:   *)
(* TRUE is SQLite, where one transaction is open at a time; FALSE is       *)
(* Postgres at READ COMMITTED, where a transaction reads what is committed *)
(* and its conditional UPDATE looks at the row again.  A transaction that  *)
(* writes one row and commits is one step at its commit: nobody sees the   *)
(* row between the two.  A write outside a transaction waits once for the  *)
(* one it finds open (transactionGate), so it may still land in the middle *)
(* of the next: such writes are taken at any time.                         *)
(***************************************************************************)
EXTENDS Integers, FiniteSets

CONSTANTS
  MaxRows,        \* bound: rows ever inserted; ids are 1..MaxRows
  Workers,        \* worker processes
  Concurrency,    \* loops per worker
  Stoppable,      \* workers that are sent SIGINT or SIGTERM, or whose stop() is called
  Callers,        \* actors that enqueue: requests, services, schedule tickers
  AppKeys,        \* unique keys given by the application
  Priorities,     \* priorities given to enqueue
  Delays,         \* delays given to enqueue
  Budgets,        \* maxAttempts given to enqueue or by the job
  Nobody,         \* null lockedBy
  NoKey,          \* null uniqueKey
  Lease,          \* leaseMs
  RetryDelay,     \* retryDelaySeconds
  Timeout,        \* timeoutSeconds
  KeepFor,        \* pruneJobs' days
  Every,          \* everySeconds of the one schedule
  MaxJobs,        \* startWorker's maxJobs; 0 is undefined
  Serializable,   \* TRUE: SQLite; FALSE: Postgres at READ COMMITTED
  Horizon,        \* bound: the clock stops here
  MaxUpsets,      \* bound: crashes, failed queries and operator retries
  TirelessOperator \* TRUE: operator retries are not counted

ASSUME JobConstants ==
  /\ MaxRows \in Nat /\ Concurrency \in Nat \ {0}
  /\ Priorities \subseteq Int /\ Delays \subseteq Nat /\ Budgets \subseteq Nat \ {0}
  /\ Stoppable \subseteq Workers /\ Nobody \notin Workers /\ NoKey \notin AppKeys
  /\ Lease \in Nat /\ RetryDelay \in Nat /\ Timeout \in Nat /\ KeepFor \in Nat
  /\ Every \in Nat \ {0} /\ MaxJobs \in Nat /\ Horizon \in Nat /\ MaxUpsets \in Nat
  /\ Serializable \in BOOLEAN /\ TirelessOperator \in BOOLEAN

VARIABLES
  now,         \* the clock every process reads
  rows,        \* the committed rows of angus_jobs
  nextId,      \* the next primary key
  callers,     \* the row each caller is about to insert
  loops,       \* what each worker loop is doing
  stopping,    \* startWorker's flag, per worker
  processed,   \* startWorker's counter, per worker
  upsets,      \* crashes, failed queries and operator retries so far
  \* History, read by no action:
  late,        \* rows one of whose runs was still going when its lease ended
  revived,     \* rows that came back to pending while their key was held beside them
  handled      \* rows whose handler has returned at least once

vars == <<now, rows, nextId, callers, loops, stopping, processed, upsets,
          late, revived, handled>>
history == <<late, revived, handled>>

Ids == 1..MaxRows
Loops == Workers \X (1..Concurrency)
WorkerOf(l) == l[1]
SlotKeys == {"slot"} \X Nat

Never == -1
Statuses == {"pending", "running", "succeeded", "failed", "cancelled"}
Finished == {"succeeded", "failed", "cancelled"}
Live == {"pending", "running"}

\* A row, or "absent": never inserted, or deleted.
Row == [status: Statuses \cup {"absent"}, priority: Int, runAt: Nat, attempts: Nat,
        maxAttempts: Nat, lockedAt: Nat \cup {Never}, lockedBy: Workers \cup {Nobody},
        key: AppKeys \cup SlotKeys \cup {NoKey}, completedAt: Nat \cup {Never},
        lastError: {"none", "error", "unknown"}]

NoRow == [status |-> "absent", priority |-> 0, runAt |-> 0, attempts |-> 0,
          maxAttempts |-> 0, lockedAt |-> Never, lockedBy |-> Nobody,
          key |-> NoKey, completedAt |-> Never, lastError |-> "none"]

\* One iteration of startWorker's loop.  The fields after pc are claimJob's
\* "now" and the row it chose, then the snapshot of the row runJob works from.
Loop == [pc: {"poll", "claiming", "locking", "handling", "recording", "done"},
         at: Nat, id: Ids \cup {0}, seen: Live \cup {"none"}, attempts: Nat,
         maxAttempts: Nat, runAt: Nat, outcome: {"none", "succeeded", "error", "unknown"}]

Polling == [pc |-> "poll", at |-> 0, id |-> 0, seen |-> "none", attempts |-> 0,
            maxAttempts |-> 0, runAt |-> 0, outcome |-> "none"]

Active(l) == loops[l].pc \in {"handling", "recording"}
Exists(id) == rows[id].status # "absent"

\* A transaction is open between its read and its commit.
TxOpen == \/ \E l \in Loops : loops[l].pc = "locking"
          \/ \E c \in Callers : callers[c].status # "absent"

\* SQLite: atomic() waits for the open transaction.  Postgres: nothing waits.
Free == Serializable => ~TxOpen

-----------------------------------------------------------------------------
(* Enqueueing *)

KeyTakenPendingOnly(key) == \E id \in Ids : rows[id].key = key /\ rows[id].status = "pending"
KeyTaken(key) == \E id \in Ids : rows[id].key = key /\ rows[id].status \in Live

\* enqueue, up to its insert: the uniqueness check, in the caller's transaction
\* or in one of its own.  A taken key answers null and changes nothing.
Enqueue(c, key) ==
  /\ callers[c].status = "absent" /\ nextId <= MaxRows /\ Free
  /\ key = NoKey \/ ~KeyTaken(key)
  /\ \E priority \in Priorities, delay \in Delays, budget \in Budgets :
       callers' = [callers EXCEPT ![c] =
         [NoRow EXCEPT !.status = "pending", !.priority = priority, !.runAt = now + delay,
                       !.maxAttempts = budget, !.key = key]]
  /\ UNCHANGED <<now, rows, nextId, loops, stopping, processed, upsets>>
  /\ UNCHANGED history

\* The slot of the schedule a moment belongs to, as its deduplication key.
slotFor(at) == <<"slot", at \div Every>>

\* The worker's ticker: one enqueue under the current slot's key.
runSchedules(c) == Enqueue(c, slotFor(now))

\* The insert and the commit of the transaction it joined.
EnqueueCommits(c) ==
  /\ callers[c].status # "absent" /\ nextId <= MaxRows
  /\ rows' = [rows EXCEPT ![nextId] = callers[c]]
  /\ nextId' = nextId + 1
  /\ callers' = [callers EXCEPT ![c] = NoRow]
  /\ UNCHANGED <<now, loops, stopping, processed, upsets>>
  /\ UNCHANGED history

\* The caller's transaction rolls back, or its process dies: no row.
EnqueueRollsBack(c) ==
  /\ callers[c].status # "absent"
  /\ callers' = [callers EXCEPT ![c] = NoRow]
  /\ UNCHANGED <<now, rows, nextId, loops, stopping, processed, upsets>>
  /\ UNCHANGED history

-----------------------------------------------------------------------------
(* Claiming *)

ShouldStopWhenAsked(w) == stopping[w]
ShouldStopOnCount(w) == MaxJobs # 0 /\ processed[w] >= MaxJobs
ShouldStop(w) == stopping[w] \/ (MaxJobs # 0 /\ processed[w] >= MaxJobs)

\* The loop tests shouldStop and calls claimJob, whose transaction may have to
\* wait for another one.
PollQueue(l) ==
  /\ loops[l].pc = "poll" /\ ~ShouldStop(WorkerOf(l))
  /\ loops' = [loops EXCEPT ![l].pc = "claiming"]
  /\ UNCHANGED <<now, rows, nextId, callers, stopping, processed, upsets>>
  /\ UNCHANGED history

LoopExits(l) ==
  /\ loops[l].pc = "poll" /\ ShouldStop(WorkerOf(l))
  /\ loops' = [loops EXCEPT ![l].pc = "done"]
  /\ UNCHANGED <<now, rows, nextId, callers, stopping, processed, upsets>>
  /\ UNCHANGED history

Pending(id) == rows[id].status = "pending" /\ rows[id].runAt <= now
ReclaimableOnTheDot(id) == rows[id].status = "running" /\ rows[id].lockedAt <= now - Lease
Reclaimable(id) == rows[id].status = "running" /\ rows[id].lockedAt < now - Lease

\* orderBy('-priority', 'runAt', 'id')
Before(i, j) ==
  \/ rows[i].priority > rows[j].priority
  \/ /\ rows[i].priority = rows[j].priority
     /\ rows[i].runAt < rows[j].runAt \/ (rows[i].runAt = rows[j].runAt /\ i < j)

FirstOf(ids) == {i \in ids : \A j \in ids \ {i} : Before(i, j)}

\* A claim that leaves the rows of dead workers alone.
ChosenPendingOnly == FirstOf({id \in Ids : Pending(id)})

\* The row claimJob chooses: the first pending one, else the first whose lease
\* has expired.
Chosen ==
  LET pending == {id \in Ids : Pending(id)}
  IN  IF pending # {} THEN FirstOf(pending) ELSE FirstOf({id \in Ids : Reclaimable(id)})

ClaimReads(l) ==
  /\ loops[l].pc = "claiming" /\ Free
  /\ \E id \in Chosen :
       loops' = [loops EXCEPT ![l] = [@ EXCEPT !.pc = "locking", !.at = now, !.id = id,
                                              !.seen = rows[id].status]]
  /\ UNCHANGED <<now, rows, nextId, callers, stopping, processed, upsets>>
  /\ UNCHANGED history

\* Nothing to do: the loop sleeps and polls again.
ClaimFindsNothing(l) ==
  /\ loops[l].pc = "claiming" /\ Free /\ Chosen = {}
  /\ loops' = [loops EXCEPT ![l] = Polling]
  /\ UNCHANGED <<now, rows, nextId, callers, stopping, processed, upsets>>
  /\ UNCHANGED history

\* The conditional UPDATE matches: the loop holds the row.  runJob looks the
\* definition up at once; a task this process does not know has no handler.
ClaimLocks(l) ==
  LET id == loops[l].id
      attempts == rows[id].attempts + 1
  IN /\ loops[l].pc = "locking" /\ rows[id].status = loops[l].seen
     /\ rows' = [rows EXCEPT ![id] = [@ EXCEPT
          !.status = "running", !.lockedAt = loops[l].at, !.lockedBy = WorkerOf(l),
          !.attempts = attempts]]
     /\ \E known \in BOOLEAN :
          loops' = [loops EXCEPT ![l] = [@ EXCEPT
            !.pc = IF known THEN "handling" ELSE "recording",
            !.outcome = IF known THEN "none" ELSE "unknown",
            !.attempts = attempts, !.maxAttempts = rows[id].maxAttempts,
            !.runAt = rows[id].runAt]]
     /\ processed' = IF MaxJobs # 0
                     THEN [processed EXCEPT ![WorkerOf(l)] = @ + 1] ELSE processed
     /\ late' = IF loops[l].at < now - Lease THEN late \cup {id} ELSE late
     /\ UNCHANGED <<now, nextId, callers, stopping, upsets, revived, handled>>

\* Another worker won the race: the UPDATE matches no row.
ClaimMisses(l) ==
  /\ loops[l].pc = "locking" /\ rows[loops[l].id].status # loops[l].seen
  /\ loops' = [loops EXCEPT ![l] = Polling]
  /\ UNCHANGED <<now, rows, nextId, callers, stopping, processed, upsets>>
  /\ UNCHANGED history

\* A query of the claim fails: its transaction rolls back, the loop carries on.
ClaimFails(l) ==
  /\ loops[l].pc \in {"claiming", "locking"} /\ upsets < MaxUpsets
  /\ upsets' = upsets + 1
  /\ loops' = [loops EXCEPT ![l] = Polling]
  /\ UNCHANGED <<now, rows, nextId, callers, stopping, processed>>
  /\ UNCHANGED history

-----------------------------------------------------------------------------
(* Running *)

HandlerReturns(l) ==
  /\ loops[l].pc = "handling"
  /\ loops' = [loops EXCEPT ![l] = [@ EXCEPT !.pc = "recording", !.outcome = "succeeded"]]
  /\ handled' = handled \cup {loops[l].id}
  /\ UNCHANGED <<now, rows, nextId, callers, stopping, processed, upsets, late, revived>>

\* The handler throws, or the payload does not decode.
HandlerThrows(l) ==
  /\ loops[l].pc = "handling"
  /\ loops' = [loops EXCEPT ![l] = [@ EXCEPT !.pc = "recording", !.outcome = "error"]]
  /\ UNCHANGED <<now, rows, nextId, callers, stopping, processed, upsets>>
  /\ UNCHANGED history

\* withTimeout rejects.  The handler itself goes on, beside its retry; nothing waits for it.
HandlerTimesOut(l) ==
  /\ loops[l].pc = "handling" /\ now >= loops[l].at + Timeout
  /\ loops' = [loops EXCEPT ![l] = [@ EXCEPT !.pc = "recording", !.outcome = "error"]]
  /\ UNCHANGED <<now, rows, nextId, callers, stopping, processed, upsets>>
  /\ UNCHANGED history

ExhaustedOneTooLate(run) == run.attempts > run.maxAttempts
Exhausted(run) == run.attempts >= run.maxAttempts

Doublings(run) == IF run.attempts > 0 THEN run.attempts - 1 ELSE 0
Backoff(run) == RetryDelay * 2 ^ Doublings(run)

\* The row after the UPDATE that records the outcome of a run.
Recorded(row, run) ==
  LET freed == [row EXCEPT !.lockedAt = Never, !.lockedBy = Nobody, !.completedAt = now]
  IN  IF run.outcome = "succeeded" THEN [freed EXCEPT !.status = "succeeded", !.lastError = "none"]
      ELSE IF run.outcome = "unknown"
      THEN [freed EXCEPT !.status = "failed", !.lastError = "unknown"]
      ELSE IF Exhausted(run)
      THEN [freed EXCEPT !.status = "failed", !.lastError = "error", !.runAt = run.runAt]
      ELSE [freed EXCEPT !.status = "pending", !.lastError = "error",
                         !.runAt = now + Backoff(run), !.completedAt = Never]

\* The row goes back to pending, while another row or a draft may have its key.
KeyHeldBeside(id) ==
  /\ rows[id].key # NoKey
  /\ \/ \E j \in Ids \ {id} : rows[j].key = rows[id].key /\ rows[j].status \in Live
     \/ \E c \in Callers : callers[c].key = rows[id].key
Revived(id) == IF KeyHeldBeside(id) THEN revived \cup {id} ELSE revived \ {id}

\* The UPDATE names the id only: a deleted row is missed, any other is written.
RecordOutcome(l) ==
  LET run == loops[l]
      id == run.id
      after == Recorded(rows[id], run)
  IN /\ run.pc = "recording"
     /\ rows' = IF Exists(id) THEN [rows EXCEPT ![id] = after] ELSE rows
     /\ revived' = IF Exists(id) /\ rows[id].status \in Finished /\ after.status = "pending"
                   THEN Revived(id) ELSE revived
     /\ loops' = [loops EXCEPT ![l] = Polling]
     /\ UNCHANGED <<now, nextId, callers, stopping, processed, upsets, late, handled>>

\* Recording success fails inside the try: the run is recorded as an error.
RecordSuccessFails(l) ==
  /\ loops[l].pc = "recording" /\ loops[l].outcome = "succeeded" /\ upsets < MaxUpsets
  /\ loops' = [loops EXCEPT ![l].outcome = "error"]
  /\ upsets' = upsets + 1
  /\ UNCHANGED <<now, rows, nextId, callers, stopping, processed>>
  /\ UNCHANGED history

\* Recording anything else fails: the loop's catch drops the run, and the row
\* stays "running" until its lease ends.
RecordFails(l) ==
  /\ loops[l].pc = "recording" /\ loops[l].outcome # "succeeded" /\ upsets < MaxUpsets
  /\ loops' = [loops EXCEPT ![l] = Polling]
  /\ upsets' = upsets + 1
  /\ UNCHANGED <<now, rows, nextId, callers, stopping, processed>>
  /\ UNCHANGED history

-----------------------------------------------------------------------------
(* Workers as processes *)

StopWorker(w) ==
  /\ w \in Stoppable /\ ~stopping[w]
  /\ stopping' = [stopping EXCEPT ![w] = TRUE]
  /\ UNCHANGED <<now, rows, nextId, callers, loops, processed, upsets>>
  /\ UNCHANGED history

\* The process dies and is started again: transactions roll back, runs
\* are gone, the rows they held stay as they are.
Crash(w) ==
  /\ upsets < MaxUpsets
  /\ upsets' = upsets + 1
  /\ loops' = [l \in Loops |-> IF WorkerOf(l) = w THEN Polling ELSE loops[l]]
  /\ stopping' = [stopping EXCEPT ![w] = FALSE]
  /\ processed' = [processed EXCEPT ![w] = 0]
  /\ UNCHANGED <<now, rows, nextId, callers>>
  /\ UNCHANGED history

-----------------------------------------------------------------------------
(* The operator *)

RequeuedStillCompleted(row) ==
  [row EXCEPT !.status = "pending", !.attempts = 0, !.runAt = now, !.lastError = "none"]
Requeued(row) == [row EXCEPT !.status = "pending", !.attempts = 0, !.runAt = now,
                             !.lastError = "none", !.completedAt = Never]

RetryJob(id) ==
  /\ rows[id].status = "failed" /\ (TirelessOperator \/ upsets < MaxUpsets)
  /\ rows' = [rows EXCEPT ![id] = Requeued(@)]
  /\ revived' = Revived(id)
  /\ upsets' = IF TirelessOperator THEN upsets ELSE upsets + 1
  /\ UNCHANGED <<now, nextId, callers, loops, stopping, processed, late, handled>>

CancellableWhileLive(row) == row.status \in Live
Cancellable(row) == row.status = "pending"

CancelJob(id) ==
  /\ Cancellable(rows[id])
  /\ rows' = [rows EXCEPT ![id] = [@ EXCEPT !.status = "cancelled", !.completedAt = now]]
  /\ UNCHANGED <<now, nextId, callers, loops, stopping, processed, upsets>>
  /\ UNCHANGED history

Prunable(row) == row.status \in {"succeeded", "cancelled"} /\ row.completedAt < now - KeepFor

PruneJobs ==
  /\ \E id \in Ids : Prunable(rows[id])
  /\ rows' = [id \in Ids |-> IF Prunable(rows[id]) THEN NoRow ELSE rows[id]]
  /\ UNCHANGED <<now, nextId, callers, loops, stopping, processed, upsets>>
  /\ UNCHANGED history

-----------------------------------------------------------------------------
Tick ==
  /\ now < Horizon
  /\ now' = now + 1
  /\ late' = late \cup {loops[l].id : l \in {m \in Loops : Active(m) /\ loops[m].at < now' - Lease}}
  /\ UNCHANGED <<rows, nextId, callers, loops, stopping, processed, upsets,
                 revived, handled>>

Init ==
  /\ now = 0
  /\ rows = [id \in Ids |-> NoRow]
  /\ nextId = 1
  /\ callers = [c \in Callers |-> NoRow]
  /\ loops = [l \in Loops |-> Polling]
  /\ stopping = [w \in Workers |-> FALSE]
  /\ processed = [w \in Workers |-> 0]
  /\ upsets = 0
  /\ late = {} /\ revived = {} /\ handled = {}

Enqueueing == \E c \in Callers :
  \/ \E key \in AppKeys \cup {NoKey} : Enqueue(c, key)
  \/ runSchedules(c)
  \/ EnqueueCommits(c)
  \/ EnqueueRollsBack(c)

LoopStep(l) ==
  \/ PollQueue(l) \/ LoopExits(l)
  \/ ClaimReads(l) \/ ClaimFindsNothing(l) \/ ClaimLocks(l) \/ ClaimMisses(l)
  \/ HandlerReturns(l) \/ HandlerThrows(l) \/ RecordOutcome(l)

LoopFault(l) ==
  \/ ClaimFails(l) \/ HandlerTimesOut(l) \/ RecordSuccessFails(l) \/ RecordFails(l)

Operating == \/ \E id \in Ids : RetryJob(id) \/ CancelJob(id)
             \/ PruneJobs
             \/ \E w \in Workers : StopWorker(w)

Next ==
  \/ Enqueueing
  \/ \E l \in Loops : LoopStep(l) \/ LoopFault(l)
  \/ \E w \in Workers : Crash(w)
  \/ Operating
  \/ Tick

Spec == Init /\ [][Next]_vars

\* A loop that can go on does: handlers end, and the waiters of the SQLite lock
\* wake in FIFO order, so none is overtaken for ever.  A caller's transaction ends.
Fairness ==
  /\ \A l \in Loops : SF_vars(LoopStep(l))
  /\ \A c \in Callers : WF_vars(EnqueueCommits(c) \/ EnqueueRollsBack(c))

FairSpec == Spec /\ Fairness

-----------------------------------------------------------------------------
(* Properties *)

\* The variables range over the values the code gives them.
TypeOK ==
  /\ now \in Nat
  /\ rows \in [Ids -> Row]
  /\ nextId \in Nat \ {0}
  /\ callers \in [Callers -> Row]
  /\ loops \in [Loops -> Loop]
  /\ stopping \in [Workers -> BOOLEAN]
  /\ processed \in [Workers -> Nat]
  /\ upsets \in Nat
  /\ late \subseteq Ids /\ revived \subseteq Ids /\ handled \subseteq Ids

Consistent(row) ==
  /\ row.status = "running" <=> row.lockedAt # Never
  /\ row.status = "running" <=> row.lockedBy # Nobody
  /\ row.status \in Finished <=> row.completedAt # Never

\* Whatever order claims, records, retries, cancellations and stale writes come
\* in, a row is locked exactly while it is running (or it could never be
\* reclaimed) and has a completion time exactly when it is finished (or
\* pruneJobs would miss it, or take a job that went back to the queue).
RowsConsistent == \A id \in Ids : Consistent(rows[id])

\* claimJob: two workers never run the same row, unless one of its runs went on
\* past its lease.
ExclusiveRuns == \A l, m \in Loops :
  Active(l) /\ Active(m) /\ loops[l].id = loops[m].id /\ l # m => loops[l].id \in late

Budgeted(row) ==
  /\ row.status = "pending" => row.attempts < row.maxAttempts
  /\ row.status = "failed" => row.attempts >= row.maxAttempts \/ row.lastError = "unknown"

\* runJob and claimJob between them: a row waits for a run only while attempts
\* are left, and has failed only after the last one, or on an unknown task,
\* through crashes, lost records and operator retries, unless one of its runs
\* outlived its lease.
AttemptsLeft == \A id \in Ids \ late : Budgeted(rows[id])

\* enqueue's uniqueKey: on SQLite no enqueue makes a second live row for a key.  The
\* only twins are those made by bringing a row back (retryJob, or the record of a run
\* past its lease) while its key is held beside it, which nothing in the code prevents.
LiveKeysUnique == \A i, j \in Ids :
  i # j /\ rows[i].key = rows[j].key /\ rows[i].key # NoKey
    /\ rows[i].status \in Live /\ rows[j].status \in Live => {i, j} \cap revived # {}

\* maxJobs: the loops of one worker overshoot it by less than their number.
BoundedOvershoot ==
  MaxJobs # 0 => \A w \in Workers : processed[w] <= MaxJobs + Concurrency - 1

\* What each row looks like to whoever enqueued it.
View(id) ==
  CASE rows[id].status = "absent" -> IF id < nextId THEN "gone" ELSE "none"
    [] rows[id].status \in Live -> "owed"
    [] rows[id].status = "succeeded" -> "delivered"
    [] OTHER -> rows[id].status

Views == [id \in Ids |-> View(id)]

Delivery == INSTANCE JobDelivery WITH state <- Views

\* The queue keeps the at-least-once promise of JobDelivery.
DeliveryPromise == Delivery!Spec

Due(id) == Pending(id) \/ Reclaimable(id)

\* claimJob prefers another row: a pending one of higher rank or, to an expired row,
\* any pending one.
Passed(id) == \E j \in Chosen : j # id

\* A row that can be taken, also one left by a crash, is taken (or cancelled, or
\* recorded by its late holder) as long as some worker is not stopping, unless other
\* rows that claimJob prefers keep coming for ever.
DueJobsTaken == \A id \in Ids :
  Due(id) ~> (~Due(id) \/ Passed(id) \/ \A w \in Workers : ShouldStop(w))

\* stop(): every loop of the worker finishes its job and exits.
StopDrains == \A w \in Workers :
  stopping[w] ~> (~stopping[w] \/ \A l \in Loops : WorkerOf(l) = w => loops[l].pc = "done")

-----------------------------------------------------------------------------
(* The inductive invariant behind the safety properties *)

\* Rows are inserted in the order of their ids, and a loop holds an inserted one.
IdsInserted ==
  /\ \A id \in Ids : id >= nextId => rows[id] = NoRow
  /\ \A l \in Loops : loops[l].pc = "locking" \/ Active(l) =>
       loops[l].id \in Ids /\ loops[l].id < nextId /\ loops[l].at <= now
  /\ \A l \in Loops : loops[l].pc = "locking" => loops[l].seen \in Live
  /\ \A id \in late : id < nextId

\* What enqueue is about to insert.
DraftsFresh == \A c \in Callers :
  callers[c].status = "absent"
    \/ /\ callers[c].status = "pending" /\ callers[c].attempts = 0
       /\ callers[c].lockedAt = Never /\ callers[c].lockedBy = Nobody
       /\ callers[c].completedAt = Never /\ callers[c].maxAttempts > 0

\* On SQLite one transaction is open at a time.
OneTransaction ==
  /\ \A l, m \in Loops : loops[l].pc = "locking" /\ loops[m].pc = "locking" => l = m
  /\ \A c, d \in Callers :
       callers[c].status # "absent" /\ callers[d].status # "absent" => c = d
  /\ \A l \in Loops, c \in Callers :
       loops[l].pc = "locking" => callers[c].status = "absent"

\* A claim about to take a running row saw its lease expired; nobody but a claim
\* could lock the row again.
ClaimsStillGood == \A l \in Loops :
  loops[l].pc = "locking" /\ loops[l].seen = "running" /\ rows[loops[l].id].status = "running"
    => rows[loops[l].id].lockedAt < loops[l].at - Lease

Owns(l) ==
  LET row == rows[loops[l].id]
  IN  /\ row.status = "running" /\ row.lockedAt = loops[l].at
      /\ row.attempts = loops[l].attempts /\ row.maxAttempts = loops[l].maxAttempts
      /\ loops[l].at >= now - Lease

\* A run within its lease owns its row: the row is as the claim left it.
HoldersOwnRows == \A l \in Loops : Active(l) /\ loops[l].id \notin late => Owns(l)

BudgetsPositive == \A id \in Ids : Exists(id) => rows[id].maxAttempts > 0

\* A draft's key is held by no live row, but for rows that came back meanwhile.
DraftKeysFree == \A c \in Callers, id \in Ids :
  /\ callers[c].status # "absent" /\ callers[c].key # NoKey
  /\ rows[id].key = callers[c].key /\ rows[id].status \in Live
  => id \in revived

-----------------------------------------------------------------------------
(* What docs and comments say, and the code does not do *)

\* claimJob: "Jobs whose lease has expired are eligible again", but it looks for them
\* only when nothing is pending, so a queue that is never empty leaves them for ever.
ExpiredJobsTaken == \A id \in Ids :
  Reclaimable(id) ~> (~Reclaimable(id) \/ \A w \in Workers : ShouldStop(w))

\* models.ts: "Two jobs with the same key cannot be pending at once".
KeysPendingOnce == \A i, j \in Ids :
  i # j /\ rows[i].status = "pending" /\ rows[j].status = "pending"
    /\ rows[i].key # NoKey => rows[i].key # rows[j].key

\* schedule.ts: "the unique key means only the first call in a slot creates a
\* job", so the scheduled work is done once per slot.
SlotRunsOnce == \A i, j \in Ids :
  i # j /\ rows[i].key \in SlotKeys /\ rows[i].key = rows[j].key => ~({i, j} \subseteq handled)
=============================================================================
