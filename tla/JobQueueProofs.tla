--------------------------- MODULE JobQueueProofs ---------------------------
(***************************************************************************)
(* What holds of the job queue for every number of rows, workers, loops    *)
(* and callers, every lease and every bound.                               *)
(***************************************************************************)
EXTENDS JobQueue, FiniteSetTheorems, TLAPS

\* Powers of two, as the sizes of sets of subsets: the backoff is a number.
LEMMA PowerOfTwo == ASSUME NEW n \in Nat PROVE 2 ^ n \in Nat
<1>1. IsFiniteSet(1..n) /\ Cardinality(1..n) = n
  BY FS_Interval
<1>2. IsFiniteSet(SUBSET (1..n)) /\ Cardinality(SUBSET (1..n)) = 2 ^ Cardinality(1..n)
  BY <1>1, FS_SUBSET
<1>3. Cardinality(SUBSET (1..n)) \in Nat
  BY <1>2, FS_CardinalityType
<1>4. QED
  BY <1>1, <1>2, <1>3

LEMMA BackoffIsNat == ASSUME NEW run \in Loop PROVE Backoff(run) \in Nat
<1>1. Doublings(run) \in Nat
  BY DEF Doublings, Loop
<1>2. 2 ^ Doublings(run) \in Nat
  BY <1>1, PowerOfTwo
<1>3. \A a, b \in Nat : a * b \in Nat
  OBVIOUS
<1>4. QED
  BY <1>2, <1>3, JobConstants DEF Backoff, JobConstants

LEMMA NoRowIsRow == NoRow \in Row
BY DEF NoRow, Row, Never

\* The row a record leaves behind is a row.
LEMMA RecordedIsRow ==
  ASSUME NEW row \in Row, NEW run \in Loop, now \in Nat
  PROVE  Recorded(row, run) \in Row
<1>1. now + Backoff(run) \in Nat
  BY BackoffIsNat
<1>2. QED
  BY <1>1 DEF Recorded, Row, Loop, Statuses, Never

-----------------------------------------------------------------------------
(* Types *)

LEMMA TypeInit == Init => TypeOK
BY JobConstants DEF JobConstants, Init, TypeOK, Ids, Loops, Row, NoRow, Loop, Polling, Statuses,
   Never, Live

LEMMA SlotIsKey == ASSUME NEW at \in Nat PROVE slotFor(at) \in SlotKeys
BY JobConstants DEF JobConstants, slotFor, SlotKeys

LEMMA EnqueueType ==
  ASSUME TypeOK, NEW c \in Callers, NEW key \in AppKeys \cup SlotKeys \cup {NoKey}, Enqueue(c, key)
  PROVE  TypeOK'
<1>1. PICK priority \in Priorities, delay \in Delays, budget \in Budgets :
        callers' = [callers EXCEPT ![c] =
         [NoRow EXCEPT !.status = "pending", !.priority = priority, !.runAt = now + delay,
                       !.maxAttempts = budget, !.key = key]]
  BY DEF Enqueue
<1>2. priority \in Int /\ now + delay \in Nat /\ budget \in Nat
  BY JobConstants DEF JobConstants, TypeOK
<1>3. [NoRow EXCEPT !.status = "pending", !.priority = priority, !.runAt = now + delay,
                       !.maxAttempts = budget, !.key = key] \in Row
  BY <1>2, NoRowIsRow DEF Row, Statuses
<1>4. callers' \in [Callers -> Row]
  BY <1>1, <1>3 DEF TypeOK
<1>5. QED
  BY <1>4 DEF TypeOK, Enqueue, history

LEMMA ClaimReadsType ==
  ASSUME TypeOK, NEW l \in Loops, ClaimReads(l)
  PROVE  TypeOK'
<1>1. PICK id \in Chosen :
        loops' = [loops EXCEPT ![l] = [@ EXCEPT !.pc = "locking", !.at = now, !.id = id,
                                              !.seen = rows[id].status]]
  BY DEF ClaimReads
<1>2. id \in Ids /\ rows[id].status \in Live
  BY <1>1 DEF Chosen, FirstOf, Pending, Reclaimable, Live
<1>3. [loops[l] EXCEPT !.pc = "locking", !.at = now, !.id = id, !.seen = rows[id].status] \in Loop
  BY <1>2 DEF TypeOK, Loop
<1>4. loops' \in [Loops -> Loop]
  BY <1>1, <1>3 DEF TypeOK
<1>5. QED
  BY <1>4 DEF TypeOK, ClaimReads, history

LEMMA ClaimLocksType ==
  ASSUME TypeOK, IdsInserted, NEW l \in Loops, ClaimLocks(l)
  PROVE  TypeOK'
<1> DEFINE id == loops[l].id
           row == [rows[id] EXCEPT !.status = "running", !.lockedAt = loops[l].at,
                     !.lockedBy = WorkerOf(l), !.attempts = rows[id].attempts + 1]
           run(known) == [loops[l] EXCEPT
                     !.pc = IF known THEN "handling" ELSE "recording",
                     !.outcome = IF known THEN "none" ELSE "unknown",
                     !.attempts = rows[id].attempts + 1, !.maxAttempts = rows[id].maxAttempts,
                     !.runAt = rows[id].runAt]
<1>1. id \in Ids /\ WorkerOf(l) \in Workers
  BY DEF IdsInserted, ClaimLocks, Loops, WorkerOf
<1>2. rows[id] \in Row /\ loops[l] \in Loop
  BY <1>1 DEF TypeOK
<1>3. loops[l].at \in Nat /\ rows[id].attempts + 1 \in Nat /\ rows[id].maxAttempts \in Nat
      /\ rows[id].runAt \in Nat
  BY <1>2 DEF Row, Loop
<1>4. row \in Row
  BY <1>1, <1>2, <1>3 DEF Row, Statuses
<1>5. rows' \in [Ids -> Row]
  BY <1>1, <1>4 DEF TypeOK, ClaimLocks
<1>6. loops' \in [Loops -> Loop]
  <2>1. ASSUME NEW known \in BOOLEAN PROVE run(known) \in Loop
    BY <1>2, <1>3 DEF Loop
  <2>2. PICK known \in BOOLEAN : loops' = [loops EXCEPT ![l] = run(known)]
    BY DEF ClaimLocks
  <2>3. run(known) \in Loop
    BY <2>1
  <2>4. QED
    BY <2>2, <2>3 DEF TypeOK
<1>7. processed' \in [Workers -> Nat]
  BY <1>1 DEF TypeOK, ClaimLocks
<1>8. late' \subseteq Ids
  BY <1>1 DEF TypeOK, ClaimLocks
<1>9. QED
  BY <1>5, <1>6, <1>7, <1>8 DEF TypeOK, ClaimLocks

LEMMA RecordOutcomeType ==
  ASSUME TypeOK, IdsInserted, NEW l \in Loops, RecordOutcome(l)
  PROVE  TypeOK'
<1> DEFINE id == loops[l].id
<1>1. id \in Ids /\ loops[l] \in Loop /\ rows[id] \in Row
  BY DEF IdsInserted, RecordOutcome, Active, TypeOK
<1>2. Recorded(rows[id], loops[l]) \in Row
  BY <1>1, RecordedIsRow DEF TypeOK
<1>3. rows' \in [Ids -> Row]
  BY <1>1, <1>2 DEF TypeOK, RecordOutcome
<1>4. revived' \subseteq Ids
  BY <1>1 DEF TypeOK, RecordOutcome, Revived
<1>5. loops' \in [Loops -> Loop]
  BY DEF TypeOK, RecordOutcome, Polling, Loop
<1>6. QED
  BY <1>3, <1>4, <1>5 DEF TypeOK, RecordOutcome

LEMMA TypeStep == TypeOK /\ IdsInserted /\ [Next]_vars => TypeOK'
<1> SUFFICES ASSUME TypeOK, IdsInserted, [Next]_vars PROVE TypeOK'
  OBVIOUS
<1>1. ASSUME NEW c \in Callers, NEW key \in AppKeys \cup {NoKey}, Enqueue(c, key)
      PROVE  TypeOK'
  BY <1>1, EnqueueType
<1>2. ASSUME NEW c \in Callers, runSchedules(c) PROVE TypeOK'
  BY <1>2, SlotIsKey, EnqueueType DEF runSchedules, TypeOK
<1>3. ASSUME NEW c \in Callers, EnqueueCommits(c) PROVE TypeOK'
  <2>1. nextId \in Ids
    BY <1>3, JobConstants DEF JobConstants, EnqueueCommits, TypeOK, Ids
  <2>2. rows' \in [Ids -> Row] /\ callers' \in [Callers -> Row]
    BY <1>3, <2>1, NoRowIsRow DEF EnqueueCommits, TypeOK
  <2>3. nextId' \in Nat \ {0}
    BY <1>3 DEF EnqueueCommits, TypeOK
  <2>4. QED
    BY <1>3, <2>2, <2>3 DEF EnqueueCommits, TypeOK, history
<1>4. ASSUME NEW c \in Callers, EnqueueRollsBack(c) PROVE TypeOK'
  <2>1. callers' \in [Callers -> Row]
    BY <1>4, NoRowIsRow DEF EnqueueRollsBack, TypeOK
  <2>2. QED
    BY <1>4, <2>1 DEF EnqueueRollsBack, TypeOK, history
<1>5. ASSUME NEW l \in Loops,
             \/ PollQueue(l) \/ LoopExits(l) \/ ClaimFindsNothing(l) \/ ClaimMisses(l)
             \/ ClaimFails(l) \/ HandlerThrows(l) \/ RecordSuccessFails(l) \/ RecordFails(l)
      PROVE  TypeOK'
  <2> DEFINE in(p) == [loops[l] EXCEPT !.pc = p]
             out == [loops[l] EXCEPT !.outcome = "error"]
             throws == [loops[l] EXCEPT !.pc = "recording", !.outcome = "error"]
  <2>1. Polling \in Loop /\ in("claiming") \in Loop /\ in("done") \in Loop
        /\ out \in Loop /\ throws \in Loop
    BY DEF TypeOK, Polling, Loop
  <2>2. loops' \in [Loops -> Loop]
    <3>1. \E run \in Loop : loops' = [loops EXCEPT ![l] = run]
      BY <1>5, <2>1 DEF TypeOK, PollQueue, LoopExits, ClaimFindsNothing, ClaimMisses,
         ClaimFails, HandlerThrows, RecordSuccessFails, RecordFails
    <3>2. QED
      BY <3>1 DEF TypeOK
  <2>3. upsets' \in Nat
    BY <1>5 DEF TypeOK, PollQueue, LoopExits, ClaimFindsNothing, ClaimMisses,
       ClaimFails, HandlerThrows, RecordSuccessFails, RecordFails
  <2>4. QED
    BY <1>5, <2>2, <2>3 DEF TypeOK, PollQueue, LoopExits, ClaimFindsNothing, ClaimMisses,
       ClaimFails, HandlerThrows, RecordSuccessFails, RecordFails, history
<1>6. ASSUME NEW l \in Loops, ClaimReads(l) PROVE TypeOK'
  BY <1>6, ClaimReadsType
<1>7. ASSUME NEW l \in Loops, ClaimLocks(l) PROVE TypeOK'
  BY <1>7, ClaimLocksType
<1>8. ASSUME NEW l \in Loops, HandlerReturns(l) \/ HandlerTimesOut(l) PROVE TypeOK'
  <2>1. loops[l] \in Loop /\ loops[l].id \in Ids /\ WorkerOf(l) \in Workers
    BY <1>8 DEF TypeOK, IdsInserted, HandlerReturns, HandlerTimesOut, Active, Loops, WorkerOf
  <2>2. loops' \in [Loops -> Loop]
    <3>1. [loops[l] EXCEPT !.pc = "recording", !.outcome = "succeeded"] \in Loop
          /\ [loops[l] EXCEPT !.pc = "recording", !.outcome = "error"] \in Loop
      BY <2>1 DEF Loop
    <3>2. QED
      BY <1>8, <3>1 DEF TypeOK, HandlerReturns, HandlerTimesOut
  <2>3. handled' \subseteq Ids
    BY <1>8, <2>1 DEF TypeOK, HandlerReturns, HandlerTimesOut, history
  <2>4. QED
    BY <1>8, <2>2, <2>3 DEF TypeOK, HandlerReturns, HandlerTimesOut, history
<1>9. ASSUME NEW l \in Loops, RecordOutcome(l) PROVE TypeOK'
  BY <1>9, RecordOutcomeType
<1>11. ASSUME NEW w \in Workers, Crash(w) PROVE TypeOK'
  <2>1. loops' \in [Loops -> Loop]
    BY <1>11 DEF Crash, TypeOK, Polling, Loop
  <2>2. QED
    BY <1>11, <2>1 DEF Crash, TypeOK, history
<1>12. ASSUME NEW id \in Ids, RetryJob(id) \/ CancelJob(id) PROVE TypeOK'
  <2>1. rows[id] \in Row /\ now \in Nat
    BY DEF TypeOK
  <2>2. Requeued(rows[id]) \in Row
        /\ [rows[id] EXCEPT !.status = "cancelled", !.completedAt = now] \in Row
    BY <2>1 DEF Requeued, Row, Statuses, Never
  <2>3. rows' \in [Ids -> Row]
    BY <1>12, <2>2 DEF RetryJob, CancelJob, TypeOK
  <2>4. revived' \subseteq Ids /\ upsets' \in Nat
    BY <1>12 DEF RetryJob, CancelJob, TypeOK, history, Revived
  <2>5. QED
    BY <1>12, <2>3, <2>4 DEF RetryJob, CancelJob, TypeOK, history
<1>13. CASE PruneJobs
  <2>1. rows' \in [Ids -> Row]
    BY <1>13, NoRowIsRow DEF PruneJobs, TypeOK
  <2>2. QED
    BY <1>13, <2>1 DEF PruneJobs, TypeOK, history
<1>14. ASSUME NEW w \in Workers, StopWorker(w) PROVE TypeOK'
  BY <1>14 DEF StopWorker, TypeOK, history
<1>15. CASE Tick
  <2>1. late' \subseteq Ids
    BY <1>15 DEF Tick, TypeOK, IdsInserted, Active
  <2>2. QED
    BY <1>15, <2>1 DEF Tick, TypeOK
<1>16. CASE UNCHANGED vars
  BY <1>16 DEF vars, TypeOK
<1>17. QED
  BY <1>1, <1>2, <1>3, <1>4, <1>5, <1>6, <1>7, <1>8, <1>9, <1>11, <1>12, <1>13, <1>14,
     <1>15, <1>16 DEF Next, Enqueueing, LoopStep, LoopFault, Operating

-----------------------------------------------------------------------------
(* Ids *)

LEMMA IdsInit == Init => IdsInserted
BY DEF Init, IdsInserted, Ids, Polling, Active

\* What a claim chooses is in the table.
LEMMA ChosenExists ==
  ASSUME TypeOK, IdsInserted, NEW id \in Chosen
  PROVE  id \in Ids /\ rows[id].status \in Live /\ id < nextId
<1>1. id \in Ids /\ rows[id].status \in Live
  BY DEF Chosen, FirstOf, Pending, Reclaimable, Live
<1>2. id < nextId
  BY <1>1 DEF IdsInserted, NoRow, Live, Ids, TypeOK
<1>3. QED
  BY <1>1, <1>2

LEMMA IdsStep == TypeOK /\ IdsInserted /\ [Next]_vars => IdsInserted'
<1> SUFFICES ASSUME TypeOK, IdsInserted, [Next]_vars PROVE IdsInserted'
  OBVIOUS
<1> USE DEF IdsInserted, Active
<1>1. ASSUME NEW c \in Callers, NEW key, Enqueue(c, key) PROVE IdsInserted'
  BY <1>1 DEF Enqueue, history
<1>2. ASSUME NEW c \in Callers, EnqueueCommits(c) PROVE IdsInserted'
  BY <1>2 DEF EnqueueCommits, history, TypeOK, Ids
<1>3. ASSUME NEW c \in Callers, EnqueueRollsBack(c) PROVE IdsInserted'
  BY <1>3 DEF EnqueueRollsBack, history
<1>4. ASSUME NEW l \in Loops,
             \/ PollQueue(l) \/ LoopExits(l) \/ ClaimFindsNothing(l) \/ ClaimMisses(l)
             \/ ClaimFails(l) \/ HandlerThrows(l) \/ RecordSuccessFails(l) \/ RecordFails(l)
             \/ HandlerReturns(l) \/ HandlerTimesOut(l)
      PROVE  IdsInserted'
  <2> USE DEF PollQueue, LoopExits, ClaimFindsNothing, ClaimMisses, ClaimFails, HandlerThrows,
          RecordSuccessFails, RecordFails, HandlerReturns, HandlerTimesOut
  <2>1. \A m \in Loops : m # l => loops'[m] = loops[m]
    BY <1>4 DEF TypeOK
  <2>2. loops'[l].pc \notin {"handling", "recording", "locking"}
        \/ /\ Active(l) /\ loops'[l].pc \in {"handling", "recording"}
           /\ loops'[l].id = loops[l].id /\ loops'[l].at = loops[l].at
    <3>1. DOMAIN loops = Loops /\ loops[l] \in Loop
      BY DEF TypeOK
    <3>2. CASE loops' = [loops EXCEPT ![l] = Polling]
      BY <3>1, <3>2 DEF Polling
    <3>3. CASE \E pc \in {"claiming", "done"} : loops' = [loops EXCEPT ![l].pc = pc]
      BY <3>1, <3>3 DEF Loop
    <3>4. CASE loops[l].pc = "handling" /\ \E outcome \in {"succeeded", "error"} :
                 loops' = [loops EXCEPT ![l] = [@ EXCEPT !.pc = "recording", !.outcome = outcome]]
      BY <3>1, <3>4 DEF Loop
    <3>5. CASE loops[l].pc = "recording" /\ loops' = [loops EXCEPT ![l].outcome = "error"]
      BY <3>1, <3>5 DEF Loop
    <3>6. QED
      BY <1>4, <3>2, <3>3, <3>4, <3>5
  <2>3. UNCHANGED <<now, rows, nextId, late>>
    BY <1>4 DEF history
  <2>4. QED
    BY <2>1, <2>2, <2>3
<1>5. ASSUME NEW l \in Loops, ClaimReads(l) PROVE IdsInserted'
  BY <1>5, ChosenExists DEF ClaimReads, TypeOK, history
<1>6. ASSUME NEW l \in Loops, ClaimLocks(l) PROVE IdsInserted'
  BY <1>6 DEF ClaimLocks, TypeOK, Ids
<1>7. ASSUME NEW l \in Loops, RecordOutcome(l) PROVE IdsInserted'
  BY <1>7 DEF RecordOutcome, TypeOK, Ids, Polling, Exists
<1>9. ASSUME NEW w \in Workers, Crash(w) PROVE IdsInserted'
  BY <1>9 DEF Crash, Polling, history, TypeOK
<1>10. ASSUME NEW id \in Ids, RetryJob(id) \/ CancelJob(id) PROVE IdsInserted'
  <2>1. id < nextId
    BY <1>10 DEF RetryJob, CancelJob, Cancellable, NoRow, Ids, TypeOK
  <2>2. \A j \in Ids : j # id => rows'[j] = rows[j]
    BY <1>10 DEF RetryJob, CancelJob, TypeOK
  <2>3. UNCHANGED <<now, nextId, loops, late>>
    BY <1>10 DEF RetryJob, CancelJob, history
  <2>4. QED
    BY <2>1, <2>2, <2>3 DEF TypeOK, Ids
<1>11. CASE PruneJobs
  BY <1>11 DEF PruneJobs, history
<1>12. ASSUME NEW w \in Workers, StopWorker(w) PROVE IdsInserted'
  BY <1>12 DEF StopWorker, history
<1>13. CASE Tick
  BY <1>13 DEF Tick, TypeOK, Loop
<1>14. CASE UNCHANGED vars
  BY <1>14 DEF vars
<1>15. QED
  BY <1>1, <1>2, <1>3, <1>4, <1>5, <1>6, <1>7, <1>9, <1>10, <1>11, <1>12, <1>13, <1>14
     DEF Next, Enqueueing, LoopStep, LoopFault, Operating, runSchedules

\* The variables of the queue keep their types, and ids name inserted rows.
THEOREM TypeCorrect == Spec => [](TypeOK /\ IdsInserted)
<1>1. Init => TypeOK /\ IdsInserted
  BY TypeInit, IdsInit
<1>2. TypeOK /\ IdsInserted /\ [Next]_vars => TypeOK' /\ IdsInserted'
  BY TypeStep, IdsStep
<1>3. QED
  BY <1>1, <1>2, PTL DEF Spec

-----------------------------------------------------------------------------
(* Rows are locked while running, completed when finished *)

LEMMA DraftsInit == Init => DraftsFresh
BY DEF Init, DraftsFresh, NoRow

LEMMA DraftsStep == TypeOK /\ DraftsFresh /\ [Next]_vars => DraftsFresh'
<1> SUFFICES ASSUME TypeOK, DraftsFresh, [Next]_vars PROVE DraftsFresh'
  OBVIOUS
<1>1. ASSUME NEW c \in Callers, NEW key, Enqueue(c, key) PROVE DraftsFresh'
  <2>1. PICK priority \in Priorities, delay \in Delays, budget \in Budgets :
          callers' = [callers EXCEPT ![c] =
            [NoRow EXCEPT !.status = "pending", !.priority = priority, !.runAt = now + delay,
                          !.maxAttempts = budget, !.key = key]]
    BY <1>1 DEF Enqueue
  <2>2. budget > 0
    BY JobConstants DEF JobConstants
  <2>3. QED
    BY <2>1, <2>2 DEF DraftsFresh, NoRow, TypeOK
<1>2. ASSUME NEW c \in Callers, EnqueueCommits(c) \/ EnqueueRollsBack(c) PROVE DraftsFresh'
  BY <1>2 DEF DraftsFresh, NoRow, TypeOK, EnqueueCommits, EnqueueRollsBack
<1>3. CASE UNCHANGED callers
  BY <1>3 DEF DraftsFresh
<1>4. QED
  BY <1>1, <1>2, <1>3 DEF Next, Enqueueing, LoopStep, LoopFault, Operating, runSchedules, vars,
     PollQueue, LoopExits, ClaimReads, ClaimFindsNothing, ClaimLocks, ClaimMisses, ClaimFails,
     HandlerReturns, HandlerThrows, HandlerTimesOut, RecordOutcome, RecordSuccessFails,
     RecordFails, Crash, RetryJob, CancelJob, PruneJobs, StopWorker, Tick

\* Every step but those that write rows leaves them alone.
LEMMA WhoWritesRows ==
  ASSUME [Next]_vars
  PROVE  \/ UNCHANGED <<rows, nextId>>
         \/ \E c \in Callers : EnqueueCommits(c)
         \/ \E l \in Loops : ClaimLocks(l) \/ RecordOutcome(l)
         \/ \E id \in Ids : RetryJob(id) \/ CancelJob(id)
         \/ PruneJobs
BY DEF Next, Enqueueing, LoopStep, LoopFault, Operating, runSchedules, vars, Enqueue,
   EnqueueRollsBack, PollQueue, LoopExits, ClaimReads, ClaimFindsNothing, ClaimMisses,
   ClaimFails, HandlerReturns, HandlerThrows, HandlerTimesOut, RecordSuccessFails, RecordFails,
   Crash, StopWorker, Tick

LEMMA RecordedConsistent ==
  ASSUME NEW row \in Row, NEW run \in Loop, now \in Nat
  PROVE  Consistent(Recorded(row, run))
BY DEF Consistent, Recorded, Row, Never, Finished

LEMMA RowsStep ==
  TypeOK /\ IdsInserted /\ DraftsFresh /\ RowsConsistent /\ [Next]_vars => RowsConsistent'
<1> SUFFICES ASSUME TypeOK, IdsInserted, DraftsFresh, RowsConsistent, [Next]_vars
             PROVE  RowsConsistent'
  OBVIOUS
<1>1. CASE UNCHANGED <<rows, nextId>>
  BY <1>1 DEF RowsConsistent, Consistent
<1>2. ASSUME NEW c \in Callers, EnqueueCommits(c) PROVE RowsConsistent'
  <2>1. Consistent(callers[c])
    BY <1>2 DEF EnqueueCommits, DraftsFresh, Consistent, Finished
  <2>2. QED
    BY <1>2, <2>1 DEF EnqueueCommits, RowsConsistent, TypeOK
<1>3. ASSUME NEW l \in Loops, ClaimLocks(l) PROVE RowsConsistent'
  <2> DEFINE id == loops[l].id
             row == [rows[id] EXCEPT !.status = "running", !.lockedAt = loops[l].at,
                       !.lockedBy = WorkerOf(l), !.attempts = rows[id].attempts + 1]
  <2>1. id \in Ids /\ WorkerOf(l) # Nobody /\ loops[l].at # Never /\ rows[id] \in Row
        /\ rows[id].status \in Live
    BY <1>3, JobConstants DEF JobConstants, ClaimLocks, IdsInserted, Loops, WorkerOf, TypeOK,
       Loop, Never
  <2>2. Consistent(rows[id])
    BY <2>1 DEF RowsConsistent
  <2>3. Consistent(row)
    BY <2>1, <2>2 DEF Consistent, Row, Finished, Live
  <2>4. QED
    BY <1>3, <2>3 DEF ClaimLocks, RowsConsistent, TypeOK
<1>4. ASSUME NEW l \in Loops, RecordOutcome(l) PROVE RowsConsistent'
  <2>1. loops[l].id \in Ids /\ loops[l] \in Loop /\ rows[loops[l].id] \in Row
    BY <1>4 DEF RecordOutcome, IdsInserted, Active, TypeOK
  <2>2. Consistent(Recorded(rows[loops[l].id], loops[l]))
    BY <2>1, RecordedConsistent DEF TypeOK
  <2>3. QED
    BY <1>4, <2>2 DEF RecordOutcome, RowsConsistent, TypeOK
<1>5. ASSUME NEW id \in Ids, RetryJob(id) \/ CancelJob(id) PROVE RowsConsistent'
  <2>1. rows[id] \in Row /\ now # Never /\ Consistent(rows[id])
    BY DEF TypeOK, Never, RowsConsistent
  <2>2. rows[id].status = "failed" => Consistent(Requeued(rows[id]))
    BY <2>1 DEF Requeued, Consistent, Row, Finished
  <2>3. rows[id].status = "pending" =>
          Consistent([rows[id] EXCEPT !.status = "cancelled", !.completedAt = now])
    BY <2>1 DEF Consistent, Row, Finished
  <2>4. QED
    BY <1>5, <2>2, <2>3 DEF RetryJob, CancelJob, Cancellable, RowsConsistent, TypeOK
<1>6. CASE PruneJobs
  <2>1. Consistent(NoRow)
    BY DEF Consistent, NoRow, Finished
  <2>2. QED
    BY <1>6, <2>1 DEF PruneJobs, RowsConsistent
<1>7. QED
  BY <1>1, <1>2, <1>3, <1>4, <1>5, <1>6, WhoWritesRows

\* Every row is locked exactly while it is running and completed exactly when
\* finished, on either database and whatever crashes.
THEOREM RowsStayConsistent == Spec => []RowsConsistent
<1>1. Init => DraftsFresh /\ RowsConsistent
  BY DraftsInit DEF Init, RowsConsistent, Consistent, NoRow, Finished
<1>2. TypeOK /\ IdsInserted /\ DraftsFresh /\ RowsConsistent /\ [Next]_vars
        => DraftsFresh' /\ RowsConsistent'
  BY DraftsStep, RowsStep
<1>3. QED
  BY <1>1, <1>2, TypeCorrect, PTL DEF Spec

-----------------------------------------------------------------------------
(* Exclusive runs *)

Tracked(l) == loops[l].pc \in {"locking", "handling", "recording"}

\* What a step can do to one loop.
LEMMA LoopShape ==
  ASSUME TypeOK, [Next]_vars, NEW m \in Loops
  PROVE  \/ loops'[m] = loops[m]
         \/ ~Tracked(m)'
         \/ ClaimReads(m)
         \/ ClaimLocks(m)
         \/ /\ Active(m) /\ loops'[m].pc \in {"handling", "recording"}
            /\ loops'[m].id = loops[m].id /\ loops'[m].at = loops[m].at
            /\ loops'[m].attempts = loops[m].attempts
            /\ loops'[m].maxAttempts = loops[m].maxAttempts
<1> USE DEF Tracked
<1>1. DOMAIN loops = Loops /\ loops[m] \in Loop
  BY DEF TypeOK
<1>3. CASE loops' = [loops EXCEPT ![m] = Polling]
  BY <1>1, <1>3 DEF Polling
<1>4. CASE \E pc \in {"claiming", "done"} : loops' = [loops EXCEPT ![m].pc = pc]
  BY <1>1, <1>4 DEF Loop
<1>5. CASE loops[m].pc = "handling" /\ \E outcome \in {"succeeded", "error"} :
             loops' = [loops EXCEPT ![m] = [@ EXCEPT !.pc = "recording", !.outcome = outcome]]
  BY <1>1, <1>5 DEF Loop, Active
<1>6. CASE loops[m].pc = "recording" /\ loops' = [loops EXCEPT ![m].outcome = "error"]
  BY <1>1, <1>6 DEF Loop, Active
<1>7. ASSUME NEW l \in Loops, LoopStep(l) \/ LoopFault(l)
      PROVE  \/ l # m /\ loops'[m] = loops[m]
             \/ l = m /\ \/ loops' = [loops EXCEPT ![m] = Polling]
                         \/ \E pc \in {"claiming", "done"} : loops' = [loops EXCEPT ![m].pc = pc]
                         \/ loops[m].pc = "handling" /\ \E outcome \in {"succeeded", "error"} :
                              loops' = [loops EXCEPT ![m] =
                                [@ EXCEPT !.pc = "recording", !.outcome = outcome]]
                         \/ loops[m].pc = "recording" /\ loops' = [loops EXCEPT ![m].outcome = "error"]
                         \/ ClaimReads(m) \/ ClaimLocks(m)
  <2>1. CASE l = m
    BY <1>7, <2>1 DEF LoopStep, LoopFault, PollQueue, LoopExits, ClaimFindsNothing, ClaimMisses,
       ClaimFails, HandlerReturns, HandlerThrows, HandlerTimesOut, RecordOutcome,
       RecordSuccessFails, RecordFails
  <2>2. CASE l # m
    BY <1>1, <1>7, <2>2 DEF LoopStep, LoopFault, PollQueue, LoopExits, ClaimFindsNothing,
       ClaimMisses, ClaimFails, HandlerReturns, HandlerThrows, HandlerTimesOut, RecordOutcome,
       RecordSuccessFails, RecordFails, ClaimReads, ClaimLocks
  <2>3. QED
    BY <2>1, <2>2
<1>8. ASSUME NEW w \in Workers, Crash(w) PROVE loops'[m] = loops[m] \/ ~Tracked(m)'
  BY <1>1, <1>8 DEF Crash, Polling
<1>9. CASE UNCHANGED loops
  BY <1>9
<1>10. QED
  BY <1>3, <1>4, <1>5, <1>6, <1>7, <1>8, <1>9 DEF Next, Enqueueing, Operating, runSchedules, vars,
     Enqueue, EnqueueCommits, EnqueueRollsBack, RetryJob, CancelJob, PruneJobs,
     StopWorker, Tick

LEMMA ClaimLocksShape ==
  ASSUME TypeOK, IdsInserted, NEW l \in Loops, ClaimLocks(l)
  PROVE  LET id == loops[l].id
         IN  /\ loops'[l].pc \in {"handling", "recording"}
             /\ loops'[l].id = id /\ loops'[l].at = loops[l].at
             /\ loops'[l].attempts = rows'[id].attempts
             /\ loops'[l].maxAttempts = rows'[id].maxAttempts
             /\ \A m \in Loops \ {l} : loops'[m] = loops[m]
             /\ rows'[id].status = "running" /\ rows'[id].lockedAt = loops[l].at
             /\ rows'[id].maxAttempts = rows[id].maxAttempts /\ rows'[id].key = rows[id].key
             /\ \A i \in Ids \ {id} : rows'[i] = rows[i]
<1> DEFINE id == loops[l].id
<1>1. id \in Ids /\ loops[l] \in Loop /\ rows[id] \in Row /\ DOMAIN loops = Loops /\ DOMAIN rows = Ids
  BY DEF ClaimLocks, IdsInserted, TypeOK
<1>2. rows' = [rows EXCEPT ![id] = [@ EXCEPT !.status = "running", !.lockedAt = loops[l].at,
                 !.lockedBy = WorkerOf(l), !.attempts = rows[id].attempts + 1]]
  BY DEF ClaimLocks
<1>3. /\ rows'[id].status = "running" /\ rows'[id].lockedAt = loops[l].at
      /\ rows'[id].attempts = rows[id].attempts + 1
      /\ rows'[id].maxAttempts = rows[id].maxAttempts /\ rows'[id].key = rows[id].key
      /\ \A i \in Ids \ {id} : rows'[i] = rows[i]
  BY <1>1, <1>2 DEF Row
<1>4. PICK known \in BOOLEAN :
        loops' = [loops EXCEPT ![l] = [@ EXCEPT
            !.pc = IF known THEN "handling" ELSE "recording",
            !.outcome = IF known THEN "none" ELSE "unknown",
            !.attempts = rows[id].attempts + 1, !.maxAttempts = rows[id].maxAttempts,
            !.runAt = rows[id].runAt]]
  BY DEF ClaimLocks
<1>5. /\ loops'[l].pc \in {"handling", "recording"}
      /\ loops'[l].id = id /\ loops'[l].at = loops[l].at
      /\ loops'[l].attempts = rows[id].attempts + 1
      /\ loops'[l].maxAttempts = rows[id].maxAttempts
      /\ \A m \in Loops \ {l} : loops'[m] = loops[m]
  BY <1>1, <1>4 DEF Loop
<1>6. QED
  BY <1>3, <1>5

LEMMA RecordedShape ==
  ASSUME NEW row \in Row, NEW run \in Loop
  PROVE  /\ Recorded(row, run).status \in Finished \cup {"pending"}
         /\ Recorded(row, run).key = row.key
         /\ Recorded(row, run).attempts = row.attempts
         /\ Recorded(row, run).maxAttempts = row.maxAttempts
         /\ Recorded(row, run).status = "succeeded" <=> run.outcome = "succeeded"
         /\ Recorded(row, run).status = "pending" => run.outcome # "unknown" /\ ~Exhausted(run)
         /\ Recorded(row, run).status = "failed" =>
              Recorded(row, run).lastError = "unknown" \/ Exhausted(run)
<1>1. CASE run.outcome = "succeeded"
  BY <1>1 DEF Recorded, Row, Finished
<1>2. CASE run.outcome = "unknown"
  BY <1>2 DEF Recorded, Row, Finished
<1>3. CASE run.outcome \notin {"succeeded", "unknown"} /\ Exhausted(run)
  BY <1>3 DEF Recorded, Row, Finished
<1>4. CASE run.outcome \notin {"succeeded", "unknown"} /\ ~Exhausted(run)
  BY <1>4 DEF Recorded, Row, Finished
<1>5. QED
  BY <1>1, <1>2, <1>3, <1>4

LEMMA RecordOutcomeShape ==
  ASSUME TypeOK, IdsInserted, NEW l \in Loops, RecordOutcome(l)
  PROVE  LET id == loops[l].id
         IN  /\ id \in Ids
             /\ loops'[l].pc = "poll" /\ \A m \in Loops \ {l} : loops'[m] = loops[m]
             /\ \A i \in Ids \ {id} : rows'[i] = rows[i]
             /\ \/ Exists(id) /\ rows'[id] = Recorded(rows[id], loops[l])
                \/ ~Exists(id) /\ rows'[id] = rows[id]
<1>1. loops[l].id \in Ids /\ DOMAIN loops = Loops /\ DOMAIN rows = Ids
  BY DEF RecordOutcome, IdsInserted, Active, TypeOK
<1>2. QED
  BY <1>1 DEF RecordOutcome, Polling

\* A transaction opens only in a claim's read and an enqueue's check.
LEMMA WhoOpens ==
  ASSUME TypeOK, IdsInserted, [Next]_vars
  PROVE  \/ \E l \in Loops : ClaimReads(l)
         \/ \E c \in Callers : \E key : Enqueue(c, key)
         \/ /\ \A l \in Loops : loops'[l].pc = "locking" => loops[l].pc = "locking"
            /\ \A c \in Callers : callers'[c].status # "absent" => callers[c].status # "absent"
<1> SUFFICES ASSUME ~\E l \in Loops : ClaimReads(l), ~\E c \in Callers : \E key : Enqueue(c, key)
             PROVE  /\ \A l \in Loops : loops'[l].pc = "locking" => loops[l].pc = "locking"
                    /\ \A c \in Callers : callers'[c].status # "absent" => callers[c].status # "absent"
  OBVIOUS
<1>1. ASSUME NEW l \in Loops, loops'[l].pc = "locking" PROVE loops[l].pc = "locking"
  <2>1. ~ClaimLocks(l)
    BY <1>1, ClaimLocksShape
  <2>2. QED
    BY <1>1, <2>1, LoopShape DEF Tracked
<1>2. ASSUME NEW c \in Callers, callers'[c].status # "absent" PROVE callers[c].status # "absent"
  <2>1. ASSUME NEW d \in Callers, EnqueueCommits(d) \/ EnqueueRollsBack(d)
        PROVE  callers[c].status # "absent"
    BY <1>2, <2>1 DEF EnqueueCommits, EnqueueRollsBack, NoRow, TypeOK
  <2>2. CASE UNCHANGED callers
    BY <1>2, <2>2
  <2>3. QED
    BY <2>1, <2>2 DEF Next, Enqueueing, LoopStep, LoopFault, Operating, runSchedules, vars,
       PollQueue, LoopExits, ClaimReads, ClaimFindsNothing, ClaimLocks, ClaimMisses, ClaimFails,
       HandlerReturns, HandlerThrows, HandlerTimesOut, RecordOutcome, RecordSuccessFails,
       RecordFails, Crash, RetryJob, CancelJob, PruneJobs, StopWorker, Tick
<1>3. QED
  BY <1>1, <1>2

LEMMA OneTransactionStep ==
  TypeOK /\ IdsInserted /\ Serializable /\ OneTransaction /\ [Next]_vars => OneTransaction'
<1> SUFFICES ASSUME TypeOK, IdsInserted, Serializable, OneTransaction, [Next]_vars PROVE OneTransaction'
  OBVIOUS
<1>1. ASSUME NEW l \in Loops, ClaimReads(l) PROVE OneTransaction'
  BY <1>1 DEF ClaimReads, Free, TxOpen, OneTransaction, TypeOK
<1>2. ASSUME NEW c \in Callers, NEW key, Enqueue(c, key) PROVE OneTransaction'
  BY <1>2 DEF Enqueue, Free, TxOpen, OneTransaction, TypeOK
<1>3. QED
  BY <1>1, <1>2, WhoOpens DEF OneTransaction

LEMMA ClaimsStillGoodStep ==
  TypeOK /\ IdsInserted /\ OneTransaction /\ ClaimsStillGood /\ [Next]_vars => ClaimsStillGood'
<1> SUFFICES ASSUME TypeOK, IdsInserted, OneTransaction, ClaimsStillGood, [Next]_vars,
                    NEW m \in Loops, loops'[m].pc = "locking", loops'[m].seen = "running",
                    rows'[loops'[m].id].status = "running"
             PROVE  rows'[loops'[m].id].lockedAt < loops'[m].at - Lease
  BY DEF ClaimsStillGood
<1> DEFINE id == loops'[m].id
<1>1. CASE ClaimReads(m)
  <2>1. PICK i \in Chosen : id = i /\ loops'[m].at = now /\ loops'[m].seen = rows[i].status
                            /\ UNCHANGED rows
    BY <1>1 DEF ClaimReads, TypeOK
  <2>2. Reclaimable(i)
    BY <2>1 DEF Chosen, FirstOf, Pending
  <2>3. QED
    BY <2>1, <2>2 DEF Reclaimable
<1>2. CASE loops'[m] = loops[m]
  <2>1. id \in Ids /\ id < nextId
    BY <1>2 DEF IdsInserted
  <2>2. rows'[id] = rows[id]
    <3>1. ASSUME NEW c \in Callers, EnqueueCommits(c) PROVE rows'[id] = rows[id]
      BY <2>1, <3>1 DEF EnqueueCommits, TypeOK, Ids
    <3>2. ASSUME NEW l \in Loops, ClaimLocks(l) PROVE rows'[id] = rows[id]
      <4>1. l # m
        BY <1>2, <3>2, ClaimLocksShape
      <4>2. FALSE
        BY <1>2, <3>2, <4>1 DEF ClaimLocks, OneTransaction
      <4>3. QED
        BY <4>2
    <3>3. ASSUME NEW l \in Loops, RecordOutcome(l) PROVE rows'[id] = rows[id]
      <4>1. Recorded(rows[id], loops[l]).status # "running"
        BY <2>1, RecordedShape DEF TypeOK, Finished
      <4>2. QED
        BY <2>1, <3>3, <4>1, RecordOutcomeShape
    <3>4. ASSUME NEW i \in Ids, RetryJob(i) \/ CancelJob(i) PROVE rows'[id] = rows[id]
      <4>1. Requeued(rows[i]).status # "running"
            /\ [rows[i] EXCEPT !.status = "cancelled", !.completedAt = now].status # "running"
        BY DEF Requeued, TypeOK, Row
      <4>2. QED
        BY <2>1, <3>4, <4>1 DEF RetryJob, CancelJob, TypeOK
    <3>5. CASE PruneJobs
      BY <2>1, <3>5 DEF PruneJobs, NoRow
    <3>6. QED
      BY <3>1, <3>2, <3>3, <3>4, <3>5, WhoWritesRows
  <2>3. QED
    BY <1>2, <2>2 DEF ClaimsStillGood
<1>3. ~ClaimLocks(m)
  BY ClaimLocksShape
<1>4. QED
  BY <1>1, <1>2, <1>3, LoopShape DEF Tracked

\* A row once marked late stays so; the clock marks the runs whose lease it ends.
LEMMA LateGrows ==
  ASSUME TypeOK, [Next]_vars
  PROVE  /\ late \subseteq late'
         /\ \/ UNCHANGED now
            \/ Tick
BY DEF Next, Enqueueing, LoopStep, LoopFault, Operating, runSchedules, vars, history,
   Enqueue, EnqueueCommits, EnqueueRollsBack, PollQueue, LoopExits, ClaimReads,
   ClaimFindsNothing, ClaimLocks, ClaimMisses, ClaimFails, HandlerReturns, HandlerThrows,
   HandlerTimesOut, RecordOutcome, RecordSuccessFails, RecordFails, Crash, RetryJob,
   CancelJob, PruneJobs, StopWorker, Tick

\* Nobody locks a row whose holder is within its lease.
LEMMA NoStealing ==
  ASSUME TypeOK, IdsInserted, ClaimsStillGood, HoldersOwnRows, NEW l \in Loops, NEW m \in Loops,
         ClaimLocks(l), Active(m), loops[m].id \notin late
  PROVE  loops[l].id # loops[m].id
<1> SUFFICES ASSUME loops[l].id = loops[m].id PROVE FALSE
  OBVIOUS
<1>1. loops[m].id \in Ids /\ loops[l].at <= now /\ loops[l].at \in Nat /\ now \in Nat
      /\ rows[loops[m].id] \in Row /\ loops[m].at \in Nat
  BY DEF IdsInserted, ClaimLocks, TypeOK, Loop
<1>2. /\ rows[loops[m].id].status = "running" /\ rows[loops[m].id].lockedAt = loops[m].at
      /\ loops[m].at >= now - Lease
  BY DEF HoldersOwnRows, Owns
<1>3. rows[loops[m].id].lockedAt < loops[l].at - Lease
  BY <1>2 DEF ClaimLocks, ClaimsStillGood
<1>4. QED
  BY <1>1, <1>2, <1>3, JobConstants DEF JobConstants

\* A loop that runs a row after a step ran it before, or has just claimed it.
LEMMA WhoRuns ==
  ASSUME TypeOK, IdsInserted, [Next]_vars, NEW m \in Loops, Active(m)'
  PROVE  \/ ClaimLocks(m)
         \/ /\ Active(m) /\ loops'[m].id = loops[m].id /\ loops'[m].at = loops[m].at
            /\ loops'[m].attempts = loops[m].attempts
            /\ loops'[m].maxAttempts = loops[m].maxAttempts
<1>1. ~ClaimReads(m)
  <2> SUFFICES ASSUME ClaimReads(m) PROVE FALSE
    OBVIOUS
  <2>1. DOMAIN loops = Loops /\ loops[m] \in Loop
    BY DEF TypeOK
  <2>2. loops'[m].pc = "locking"
    BY <2>1 DEF ClaimReads, Loop
  <2>3. QED
    BY <2>2 DEF Active
<1>2. Tracked(m)'
  BY DEF Active, Tracked
<1>3. QED
  BY <1>1, <1>2, LoopShape DEF Active

LEMMA HoldersStep ==
  /\ TypeOK /\ IdsInserted /\ ClaimsStillGood /\ HoldersOwnRows /\ ExclusiveRuns
  /\ [Next]_vars
  => HoldersOwnRows'
<1> SUFFICES ASSUME TypeOK, IdsInserted, ClaimsStillGood, HoldersOwnRows, ExclusiveRuns,
                    [Next]_vars, NEW m \in Loops, Active(m)', loops'[m].id \notin late'
             PROVE  Owns(m)'
  BY DEF HoldersOwnRows
<1> DEFINE id == loops'[m].id
<1>1. CASE ClaimLocks(m)
  <2>1. ~(loops[m].at < now - Lease) /\ now' = now
    BY <1>1, ClaimLocksShape DEF ClaimLocks
  <2>2. loops[m].at \in Int /\ now - Lease \in Int
    BY JobConstants DEF JobConstants, TypeOK, Loop
  <2>3. QED
    BY <1>1, <2>1, <2>2, ClaimLocksShape DEF Owns
<1>2. CASE /\ Active(m) /\ id = loops[m].id /\ loops'[m].at = loops[m].at
           /\ loops'[m].attempts = loops[m].attempts
           /\ loops'[m].maxAttempts = loops[m].maxAttempts
  <2>1. id \notin late /\ id \in Ids /\ id < nextId
    BY <1>2, LateGrows DEF IdsInserted
  <2>2. Owns(m)
    BY <1>2, <2>1 DEF HoldersOwnRows
  <2>3. rows'[id] = rows[id]
    <3>1. ASSUME NEW c \in Callers, EnqueueCommits(c) PROVE rows'[id] = rows[id]
      BY <2>1, <3>1 DEF EnqueueCommits, TypeOK, Ids
    <3>2. ASSUME NEW l \in Loops, ClaimLocks(l) PROVE rows'[id] = rows[id]
      BY <1>2, <2>1, <3>2, NoStealing, ClaimLocksShape
    <3>3. ASSUME NEW l \in Loops, RecordOutcome(l) PROVE rows'[id] = rows[id]
      <4>1. l # m
        BY <3>3, RecordOutcomeShape DEF Active
      <4>2. loops[l].id # id
        BY <1>2, <2>1, <3>3, <4>1 DEF ExclusiveRuns, Active, RecordOutcome
      <4>3. QED
        BY <2>1, <3>3, <4>2, RecordOutcomeShape
    <3>4. ASSUME NEW i \in Ids, RetryJob(i) \/ CancelJob(i) PROVE rows'[id] = rows[id]
      BY <1>2, <2>1, <2>2, <3>4 DEF RetryJob, CancelJob, Cancellable, Owns, TypeOK
    <3>5. CASE PruneJobs
      BY <1>2, <2>1, <2>2, <3>5 DEF PruneJobs, Prunable, Owns
    <3>6. QED
      BY <3>1, <3>2, <3>3, <3>4, <3>5, WhoWritesRows
  <2>4. loops'[m].at >= now' - Lease
    <3>1. CASE UNCHANGED now
      BY <1>2, <2>2, <3>1 DEF Owns
    <3>2. CASE Tick
      <4>1. ~(loops[m].at < now' - Lease)
        BY <1>2, <3>2 DEF Tick
      <4>2. loops[m].at \in Int /\ now' - Lease \in Int
        BY <3>2, JobConstants DEF JobConstants, TypeOK, Loop, Tick
      <4>3. QED
        BY <1>2, <4>1, <4>2
    <3>3. QED
      BY <3>1, <3>2, LateGrows
  <2>5. QED
    BY <1>2, <2>2, <2>3, <2>4 DEF Owns
<1>3. QED
  BY <1>1, <1>2, WhoRuns

LEMMA ExclusiveStep ==
  /\ TypeOK /\ IdsInserted /\ ClaimsStillGood /\ HoldersOwnRows /\ ExclusiveRuns
  /\ [Next]_vars
  => ExclusiveRuns'
<1> SUFFICES ASSUME TypeOK, IdsInserted, ClaimsStillGood, HoldersOwnRows, ExclusiveRuns,
                    [Next]_vars, NEW l \in Loops, NEW m \in Loops,
                    Active(l)', Active(m)', loops'[l].id = loops'[m].id, l # m,
                    loops'[l].id \notin late'
             PROVE  FALSE
  BY DEF ExclusiveRuns
<1>1. loops'[l].id \notin late
  BY LateGrows
<1>2. CASE ClaimLocks(l)
  <2>1. loops'[l].id = loops[l].id /\ loops'[m] = loops[m]
    BY <1>2, ClaimLocksShape
  <2>2. Active(m)
    BY <2>1 DEF Active
  <2>3. QED
    BY <1>1, <1>2, <2>1, <2>2, NoStealing
<1>3. CASE ClaimLocks(m)
  <2>1. loops'[m].id = loops[m].id /\ loops'[l] = loops[l]
    BY <1>3, ClaimLocksShape
  <2>2. Active(l)
    BY <2>1 DEF Active
  <2>3. QED
    BY <1>1, <1>3, <2>1, <2>2, NoStealing
<1>4. CASE ~ClaimLocks(l) /\ ~ClaimLocks(m)
  <2>1. /\ Active(l) /\ Active(m)
        /\ loops'[l].id = loops[l].id /\ loops'[m].id = loops[m].id
    BY <1>4, WhoRuns
  <2>2. QED
    BY <1>1, <2>1 DEF ExclusiveRuns
<1>5. QED
  BY <1>2, <1>3, <1>4

\* On SQLite, whatever the number of workers and loops, two of them never run the
\* same row unless one of its runs went on past its lease.
THEOREM RunsAreExclusive == Serializable => (Spec => []ExclusiveRuns)
<1> SUFFICES ASSUME Serializable PROVE Spec => []ExclusiveRuns
  OBVIOUS
<1> DEFINE Inv == OneTransaction /\ ClaimsStillGood /\ HoldersOwnRows /\ ExclusiveRuns
<1>1. Init => Inv
  BY DEF Init, OneTransaction, ClaimsStillGood, HoldersOwnRows, ExclusiveRuns, Polling, NoRow, Active
<1>2. TypeOK /\ IdsInserted /\ Inv /\ [Next]_vars => Inv'
  BY OneTransactionStep, ClaimsStillGoodStep, HoldersStep, ExclusiveStep
<1>3. QED
  BY <1>1, <1>2, TypeCorrect, PTL DEF Spec

-----------------------------------------------------------------------------
(* The budget of attempts *)

LEMMA BudgetsStep ==
  TypeOK /\ IdsInserted /\ DraftsFresh /\ BudgetsPositive /\ [Next]_vars => BudgetsPositive'
<1> SUFFICES ASSUME TypeOK, IdsInserted, DraftsFresh, BudgetsPositive, [Next]_vars,
                    NEW id \in Ids, rows'[id].status # "absent"
             PROVE  rows'[id].maxAttempts > 0
  BY DEF BudgetsPositive, Exists
<1>1. Exists(id) => rows[id].maxAttempts > 0
  BY DEF BudgetsPositive
<1>2. ASSUME NEW c \in Callers, EnqueueCommits(c) PROVE rows'[id].maxAttempts > 0
  BY <1>1, <1>2 DEF EnqueueCommits, DraftsFresh, Exists, TypeOK
<1>3. ASSUME NEW l \in Loops, ClaimLocks(l) PROVE rows'[id].maxAttempts > 0
  <2>1. rows[loops[l].id].status # "absent"
    BY <1>3 DEF ClaimLocks, IdsInserted, Live
  <2>2. QED
    BY <1>1, <1>3, <2>1, ClaimLocksShape DEF Exists
<1>4. ASSUME NEW l \in Loops, RecordOutcome(l) PROVE rows'[id].maxAttempts > 0
  <2>1. rows'[id] = rows[id] \/ (Exists(id) /\ rows'[id] = Recorded(rows[id], loops[l]))
    BY <1>4, RecordOutcomeShape
  <2>2. rows[id] \in Row /\ loops[l] \in Loop
    BY DEF TypeOK
  <2>3. QED
    BY <1>1, <2>1, <2>2, RecordedShape DEF Exists
<1>5. ASSUME NEW i \in Ids, RetryJob(i) \/ CancelJob(i) PROVE rows'[id].maxAttempts > 0
  <2>1. Requeued(rows[i]).maxAttempts = rows[i].maxAttempts
        /\ [rows[i] EXCEPT !.status = "cancelled", !.completedAt = now].maxAttempts
             = rows[i].maxAttempts
    BY DEF Requeued, TypeOK, Row
  <2>2. QED
    BY <1>1, <1>5, <2>1 DEF RetryJob, CancelJob, Cancellable, Exists, TypeOK
<1>6. CASE PruneJobs
  BY <1>1, <1>6 DEF PruneJobs, NoRow, Exists
<1>7. QED
  BY <1>1, <1>2, <1>3, <1>4, <1>5, <1>6, WhoWritesRows DEF Exists

LEMMA AttemptsStep ==
  /\ TypeOK /\ IdsInserted /\ DraftsFresh /\ BudgetsPositive /\ HoldersOwnRows /\ AttemptsLeft
  /\ [Next]_vars
  => AttemptsLeft'
<1> SUFFICES ASSUME TypeOK, IdsInserted, DraftsFresh, BudgetsPositive, HoldersOwnRows,
                    AttemptsLeft, [Next]_vars, NEW id \in Ids, id \notin late'
             PROVE  Budgeted(rows'[id])
  BY DEF AttemptsLeft, Budgeted
<1>1. id \notin late
  BY LateGrows
<1>2. Budgeted(rows[id])
  BY <1>1 DEF AttemptsLeft
<1>3. ASSUME NEW c \in Callers, EnqueueCommits(c) PROVE Budgeted(rows'[id])
  BY <1>2, <1>3 DEF EnqueueCommits, DraftsFresh, TypeOK, Budgeted
<1>4. ASSUME NEW l \in Loops, ClaimLocks(l) PROVE Budgeted(rows'[id])
  BY <1>2, <1>4, ClaimLocksShape DEF Budgeted
<1>5. ASSUME NEW l \in Loops, RecordOutcome(l) PROVE Budgeted(rows'[id])
  <2>1. CASE rows'[id] = rows[id]
    BY <1>2, <2>1
  <2>2. CASE id = loops[l].id /\ rows'[id] = Recorded(rows[id], loops[l])
    <3>1. rows[id] \in Row /\ loops[l] \in Loop
      BY DEF TypeOK
    <3>2. rows[id].attempts = loops[l].attempts /\ rows[id].maxAttempts = loops[l].maxAttempts
      BY <1>1, <1>5, <2>2 DEF HoldersOwnRows, Owns, Active, RecordOutcome
    <3>3. Exhausted(loops[l]) <=> rows[id].attempts >= rows[id].maxAttempts
      BY <3>2 DEF Exhausted
    <3>4. rows[id].attempts \in Nat /\ rows[id].maxAttempts \in Nat
      BY <3>1 DEF Row
    <3>5. QED
      BY <2>2, <3>1, <3>3, <3>4, RecordedShape DEF Budgeted
  <2>3. QED
    BY <1>5, <2>1, <2>2, RecordOutcomeShape
<1>6. ASSUME NEW i \in Ids, RetryJob(i) \/ CancelJob(i)
      PROVE  Budgeted(rows'[id])
  <2>1. /\ Requeued(rows[i]).maxAttempts = rows[i].maxAttempts /\ Requeued(rows[i]).attempts = 0
        /\ Requeued(rows[i]).status = "pending"
        /\ [rows[i] EXCEPT !.status = "cancelled", !.completedAt = now].status = "cancelled"
    BY DEF Requeued, TypeOK, Row
  <2>2. Exists(i) => rows[i].maxAttempts > 0
    BY DEF BudgetsPositive
  <2>3. QED
    BY <1>2, <1>6, <2>1, <2>2 DEF RetryJob, CancelJob, Exists, TypeOK, Budgeted
<1>7. CASE PruneJobs
  BY <1>2, <1>7 DEF PruneJobs, NoRow, Budgeted
<1>8. QED
  BY <1>2, <1>3, <1>4, <1>5, <1>6, <1>7, WhoWritesRows

\* On SQLite a row waits for a run only while it has attempts left and fails only when
\* none is left or its task is unknown, unless one of its runs went on past its lease.
THEOREM AttemptsStayLeft == Serializable => (Spec => []AttemptsLeft)
<1> SUFFICES ASSUME Serializable PROVE Spec => []AttemptsLeft
  OBVIOUS
<1> DEFINE Inv == /\ OneTransaction /\ ClaimsStillGood /\ HoldersOwnRows /\ ExclusiveRuns
                  /\ DraftsFresh /\ BudgetsPositive /\ AttemptsLeft
<1>1. Init => Inv
  BY DraftsInit DEF Init, OneTransaction, ClaimsStillGood, HoldersOwnRows, ExclusiveRuns, Polling,
     NoRow, Active, BudgetsPositive, Exists, AttemptsLeft, Budgeted
<1>2. TypeOK /\ IdsInserted /\ Inv /\ [Next]_vars => Inv'
  BY OneTransactionStep, ClaimsStillGoodStep, HoldersStep, ExclusiveStep, DraftsStep, BudgetsStep,
     AttemptsStep
<1>3. QED
  BY <1>1, <1>2, TypeCorrect, PTL DEF Spec

-----------------------------------------------------------------------------
(* Unique keys *)

\* Row i goes from a finished status back to pending, and nothing else changes.
CameBack(i) ==
  /\ rows[i].status \in Finished /\ rows'[i].key = rows[i].key
  /\ \A j \in Ids \ {i} : rows'[j] = rows[j]
  /\ callers' = callers /\ revived' = Revived(i)

LEMMA WhoComesBack ==
  ASSUME TypeOK, IdsInserted, [Next]_vars
  PROVE  revived' = revived \/ \E i \in Ids : CameBack(i)
<1>1. ASSUME NEW l \in Loops, RecordOutcome(l), revived' # revived PROVE CameBack(loops[l].id)
  <2>1. rows[loops[l].id] \in Row /\ loops[l] \in Loop /\ loops[l].id \in Ids
    BY <1>1, RecordOutcomeShape DEF TypeOK
  <2>2. rows[loops[l].id].status \in Finished /\ revived' = Revived(loops[l].id) /\ callers' = callers
    BY <1>1 DEF RecordOutcome
  <2>3. QED
    BY <1>1, <2>1, <2>2, RecordOutcomeShape, RecordedShape DEF CameBack
<1>2. ASSUME NEW i \in Ids, RetryJob(i) PROVE CameBack(i)
  <2>1. rows[i] \in Row /\ Requeued(rows[i]).key = rows[i].key
    BY DEF TypeOK, Requeued, Row
  <2>2. QED
    BY <1>2, <2>1 DEF RetryJob, CameBack, TypeOK, Finished
<1>3. \/ UNCHANGED revived
      \/ \E l \in Loops : RecordOutcome(l)
      \/ \E i \in Ids : RetryJob(i)
  BY DEF Next, Enqueueing, LoopStep, LoopFault, Operating, runSchedules, vars, history,
     Enqueue, EnqueueCommits, EnqueueRollsBack, PollQueue, LoopExits, ClaimReads,
     ClaimFindsNothing, ClaimLocks, ClaimMisses, ClaimFails, HandlerReturns, HandlerThrows,
     HandlerTimesOut, RecordSuccessFails, RecordFails, Crash, CancelJob, PruneJobs, StopWorker, Tick
<1>4. QED
  BY <1>1, <1>2, <1>3, RecordOutcomeShape

\* A live row was live, was just inserted, or came back.
LEMMA WhoIsLive ==
  ASSUME TypeOK, IdsInserted, [Next]_vars, NEW id \in Ids, rows'[id].status \in Live
  PROVE  \/ rows[id].status \in Live /\ rows'[id].key = rows[id].key
         \/ \E c \in Callers : EnqueueCommits(c) /\ id = nextId /\ rows'[id] = callers[c]
         \/ CameBack(id)
<1>1. ASSUME NEW c \in Callers, EnqueueCommits(c)
      PROVE  rows'[id] = rows[id] \/ (id = nextId /\ rows'[id] = callers[c])
  BY <1>1 DEF EnqueueCommits, TypeOK
<1>2. ASSUME NEW l \in Loops, ClaimLocks(l)
      PROVE  rows[id].status \in Live /\ rows'[id].key = rows[id].key
  <2>1. rows[loops[l].id].status \in Live
    BY <1>2 DEF ClaimLocks, IdsInserted
  <2>2. QED
    BY <1>2, <2>1, ClaimLocksShape
<1>3. ASSUME NEW l \in Loops, RecordOutcome(l)
      PROVE  (rows[id].status \in Live /\ rows'[id].key = rows[id].key) \/ CameBack(id)
  <2>1. CASE rows'[id] = rows[id]
    BY <2>1
  <2>2. CASE id = loops[l].id /\ Exists(id) /\ rows'[id] = Recorded(rows[id], loops[l])
    <3>1. rows[id] \in Row /\ loops[l] \in Loop
      BY DEF TypeOK
    <3>2. rows'[id].key = rows[id].key /\ rows'[id].status = "pending"
      BY <2>2, <3>1, RecordedShape DEF Live, Finished
    <3>3. rows[id].status \in Live \cup Finished
      BY <2>2, <3>1 DEF Exists, Row, Statuses, Live, Finished
    <3>4. rows[id].status \in Finished => CameBack(id)
      BY <1>3, <2>2, <3>2, RecordOutcomeShape DEF RecordOutcome, CameBack
    <3>5. QED
      BY <3>2, <3>3, <3>4
  <2>3. QED
    BY <1>3, <2>1, <2>2, RecordOutcomeShape
<1>4. ASSUME NEW i \in Ids, RetryJob(i) PROVE rows'[id] = rows[id] \/ CameBack(id)
  <2>1. rows[i] \in Row /\ Requeued(rows[i]).key = rows[i].key
    BY DEF TypeOK, Requeued, Row
  <2>2. QED
    BY <1>4, <2>1 DEF RetryJob, CameBack, TypeOK, Finished
<1>5. ASSUME NEW i \in Ids, CancelJob(i)
      PROVE  rows[id].status \in Live /\ rows'[id].key = rows[id].key
  <2>1. [rows[i] EXCEPT !.status = "cancelled", !.completedAt = now].status \notin Live
    BY DEF TypeOK, Row, Live
  <2>2. QED
    BY <1>5, <2>1 DEF CancelJob, TypeOK
<1>6. CASE PruneJobs
  BY <1>6 DEF PruneJobs, NoRow, Live
<1>7. QED
  BY <1>1, <1>2, <1>3, <1>4, <1>5, <1>6, WhoWritesRows

\* What each caller is about to insert changes only in its own enqueue.
LEMMA WhoDrafts ==
  ASSUME TypeOK, [Next]_vars, NEW c \in Callers, callers'[c].status # "absent"
  PROVE  \/ callers'[c] = callers[c]
         \/ \E key : /\ Enqueue(c, key) /\ callers'[c].key = key
<1>1. ASSUME NEW d \in Callers, EnqueueCommits(d) \/ EnqueueRollsBack(d)
      PROVE  callers'[c] = callers[c]
  BY <1>1 DEF EnqueueCommits, EnqueueRollsBack, NoRow, TypeOK
<1>2. ASSUME NEW d \in Callers, NEW key, Enqueue(d, key)
      PROVE  callers'[c] = callers[c] \/ (d = c /\ callers'[c].key = key)
  BY <1>2 DEF Enqueue, NoRow, TypeOK
<1>3. CASE UNCHANGED callers
  BY <1>3
<1>4. QED
  BY <1>1, <1>2, <1>3 DEF Next, Enqueueing, LoopStep, LoopFault, Operating, runSchedules, vars,
     PollQueue, LoopExits, ClaimReads, ClaimFindsNothing, ClaimLocks, ClaimMisses, ClaimFails,
     HandlerReturns, HandlerThrows, HandlerTimesOut, RecordOutcome, RecordSuccessFails,
     RecordFails, Crash, RetryJob, CancelJob, PruneJobs, StopWorker, Tick

LEMMA DraftKeysStep ==
  TypeOK /\ IdsInserted /\ OneTransaction /\ DraftKeysFree /\ [Next]_vars => DraftKeysFree'
<1> SUFFICES ASSUME TypeOK, IdsInserted, OneTransaction, DraftKeysFree, [Next]_vars,
                    NEW c \in Callers, NEW id \in Ids,
                    callers'[c].status # "absent", callers'[c].key # NoKey,
                    rows'[id].key = callers'[c].key, rows'[id].status \in Live,
                    id \notin revived'
             PROVE  FALSE
  BY DEF DraftKeysFree
<1>1. ~CameBack(id)
  <2>1. SUFFICES ASSUME CameBack(id) PROVE FALSE
    OBVIOUS
  <2>2. callers[c].key = rows[id].key /\ rows[id].key # NoKey
    BY <2>1 DEF CameBack
  <2>3. KeyHeldBeside(id)
    BY <2>2 DEF KeyHeldBeside
  <2>4. QED
    BY <2>1, <2>3 DEF CameBack, Revived
<1>a. id \notin revived
  BY <1>1, WhoComesBack DEF CameBack, Revived
<1>2. ASSUME NEW d \in Callers, EnqueueCommits(d) PROVE FALSE
  <2>1. callers'[d].status = "absent" /\ callers[d].status # "absent"
    BY <1>2 DEF EnqueueCommits, NoRow, TypeOK
  <2>2. c # d /\ callers'[c] = callers[c]
    BY <1>2, <2>1 DEF EnqueueCommits, TypeOK
  <2>3. QED
    BY <2>1, <2>2 DEF OneTransaction
<1>3. rows[id].status \in Live /\ rows'[id].key = rows[id].key
  BY <1>1, <1>2, WhoIsLive
<1>4. CASE callers'[c] = callers[c]
  BY <1>a, <1>3, <1>4 DEF DraftKeysFree
<1>5. ASSUME NEW key, Enqueue(c, key), callers'[c].key = key PROVE FALSE
  BY <1>3, <1>5 DEF Enqueue, KeyTaken
<1>6. QED
  BY <1>4, <1>5, WhoDrafts

LEMMA LiveKeysStep ==
  TypeOK /\ IdsInserted /\ DraftKeysFree /\ LiveKeysUnique /\ [Next]_vars => LiveKeysUnique'
<1> SUFFICES ASSUME TypeOK, IdsInserted, DraftKeysFree, LiveKeysUnique, [Next]_vars,
                    NEW i \in Ids, NEW j \in Ids, i # j,
                    rows'[i].key = rows'[j].key, rows'[i].key # NoKey,
                    rows'[i].status \in Live, rows'[j].status \in Live,
                    i \notin revived', j \notin revived'
             PROVE  FALSE
  BY DEF LiveKeysUnique
<1>a. ASSUME NEW a \in {i, j}, NEW b \in {i, j}, a # b, CameBack(a) PROVE FALSE
  <2>1. rows[b] = rows'[b] /\ rows[a].key = rows[b].key /\ rows[a].key # NoKey
    BY <1>a DEF CameBack
  <2>2. KeyHeldBeside(a)
    BY <1>a, <2>1 DEF KeyHeldBeside
  <2>3. QED
    BY <1>a, <2>2 DEF CameBack, Revived
<1>1. i \notin revived /\ j \notin revived
  BY <1>a, WhoComesBack DEF Revived, CameBack
<1>2. ASSUME NEW a \in {i, j}, NEW b \in {i, j}, a # b,
             NEW c \in Callers, EnqueueCommits(c), a = nextId, rows'[a] = callers[c]
      PROVE  FALSE
  <2>1. rows'[b] = rows[b]
    BY <1>2 DEF EnqueueCommits, TypeOK
  <2>2. QED
    BY <1>1, <1>2, <2>1 DEF EnqueueCommits, DraftKeysFree
<1>3. CASE /\ rows[i].status \in Live /\ rows'[i].key = rows[i].key
           /\ rows[j].status \in Live /\ rows'[j].key = rows[j].key
  BY <1>1, <1>3 DEF LiveKeysUnique
<1>4. QED
  BY <1>a, <1>2, <1>3, WhoIsLive

\* On SQLite two live rows never share a unique key, unless one of them came back
\* from a finished status while its key was held beside it.
THEOREM KeysStayUnique == Serializable => (Spec => []LiveKeysUnique)
<1> SUFFICES ASSUME Serializable PROVE Spec => []LiveKeysUnique
  OBVIOUS
<1> DEFINE Inv == OneTransaction /\ DraftKeysFree /\ LiveKeysUnique
<1>1. Init => Inv
  BY DEF Init, OneTransaction, DraftKeysFree, LiveKeysUnique, Polling, NoRow, Live
<1>2. TypeOK /\ IdsInserted /\ Inv /\ [Next]_vars => Inv'
  BY OneTransactionStep, DraftKeysStep, LiveKeysStep
<1>3. QED
  BY <1>1, <1>2, TypeCorrect, PTL DEF Spec

-----------------------------------------------------------------------------
(* The count of jobs *)

\* The loops of a worker between their test of shouldStop and the row they count.
Claiming(w) == {n \in 1..Concurrency : loops[<<w, n>>].pc \in {"claiming", "locking"}}

\* Each of them may still count one row.
CountedAhead == MaxJobs # 0 => \A w \in Workers :
  processed[w] + Cardinality(Claiming(w)) <= MaxJobs + Concurrency - 1

LEMMA ClaimingFinite ==
  ASSUME JobConstants, NEW w
  PROVE  /\ IsFiniteSet(Claiming(w)) /\ Cardinality(Claiming(w)) \in Nat
         /\ Cardinality(Claiming(w)) <= Concurrency
<1>1. Concurrency \in Nat \ {0} /\ IsFiniteSet(1..Concurrency) /\ Cardinality(1..Concurrency) = Concurrency
  BY FS_Interval DEF JobConstants
<1>2. Claiming(w) \subseteq 1..Concurrency
  BY DEF Claiming
<1>3. QED
  BY <1>1, <1>2, FS_Subset, FS_CardinalityType

\* A loop begins to claim only in PollQueue.
LEMMA WhoClaims ==
  ASSUME TypeOK, [Next]_vars, NEW m \in Loops, loops'[m].pc \in {"claiming", "locking"}
  PROVE  loops[m].pc \in {"claiming", "locking"} \/ PollQueue(m)
<1>1. DOMAIN loops = Loops /\ loops[m] \in Loop
  BY DEF TypeOK
<1>2. ASSUME NEW pc \in {"done", "handling", "recording"} PROVE loops' # [loops EXCEPT ![m].pc = pc]
  BY <1>1 DEF Loop
<1>3. loops' # [loops EXCEPT ![m] = Polling]
  BY <1>1 DEF Polling
<1>4. ASSUME NEW l \in Loops, LoopStep(l) \/ LoopFault(l)
      PROVE  loops[m].pc \in {"claiming", "locking"} \/ PollQueue(m)
  <2>1. CASE l = m
    <3>1. CASE PollQueue(m) \/ ClaimReads(m) \/ ClaimLocks(m)
      BY <3>1 DEF ClaimReads, ClaimLocks
    <3>2. CASE LoopExits(m)
      BY <1>2, <3>2 DEF LoopExits
    <3>3. CASE ClaimFindsNothing(m) \/ ClaimMisses(m) \/ ClaimFails(m) \/ RecordOutcome(m) \/ RecordFails(m)
      BY <1>3, <3>3 DEF ClaimFindsNothing, ClaimMisses, ClaimFails, RecordOutcome, RecordFails
    <3>4. CASE HandlerReturns(m) \/ HandlerThrows(m) \/ HandlerTimesOut(m)
      <4>1. PICK outcome \in {"succeeded", "error"} :
              loops' = [loops EXCEPT ![m] = [loops[m] EXCEPT !.pc = "recording", !.outcome = outcome]]
        BY <3>4 DEF HandlerReturns, HandlerThrows, HandlerTimesOut
      <4>2. loops'[m].pc = "recording"
        BY <1>1, <4>1 DEF Loop
      <4>3. QED
        BY <4>2
    <3>5. CASE RecordSuccessFails(m)
      <4>1. loops' = [loops EXCEPT ![m] = [loops[m] EXCEPT !.outcome = "error"]]
        BY <3>5 DEF RecordSuccessFails
      <4>2. loops'[m].pc = "recording"
        BY <1>1, <3>5, <4>1 DEF RecordSuccessFails, Loop
      <4>3. QED
        BY <4>2
    <3>6. QED
      BY <1>4, <2>1, <3>1, <3>2, <3>3, <3>4, <3>5 DEF LoopStep, LoopFault
  <2>2. CASE l # m
    <3>1. loops'[m] = loops[m]
      BY <1>1, <1>4, <2>2 DEF LoopStep, LoopFault, PollQueue, LoopExits, ClaimFindsNothing,
         ClaimMisses, ClaimFails, HandlerReturns, HandlerThrows, HandlerTimesOut, RecordOutcome,
         RecordSuccessFails, RecordFails, ClaimReads, ClaimLocks
    <3>2. QED
      BY <3>1
  <2>3. QED
    BY <2>1, <2>2
<1>5. ASSUME NEW w \in Workers, Crash(w) PROVE loops[m].pc \in {"claiming", "locking"}
  BY <1>1, <1>5 DEF Crash, Polling
<1>6. CASE UNCHANGED loops
  BY <1>6
<1>7. QED
  BY <1>4, <1>5, <1>6 DEF Next, Enqueueing, Operating, runSchedules, vars, Enqueue,
     EnqueueCommits, EnqueueRollsBack, RetryJob, CancelJob, PruneJobs, StopWorker, Tick

\* A worker's counter moves only as a claim takes a row or the process dies.
LEMMA WhoCounts ==
  ASSUME TypeOK, [Next]_vars, NEW w \in Workers
  PROVE  \/ processed'[w] = processed[w] \/ processed'[w] = 0
         \/ \E l \in Loops : ClaimLocks(l) /\ WorkerOf(l) = w /\ processed'[w] = processed[w] + 1
<1>1. DOMAIN processed = Workers
  BY DEF TypeOK
<1>2. ASSUME NEW l \in Loops, ClaimLocks(l)
      PROVE  processed'[w] = processed[w] \/ (WorkerOf(l) = w /\ processed'[w] = processed[w] + 1)
  BY <1>1, <1>2 DEF ClaimLocks
<1>3. ASSUME NEW v \in Workers, Crash(v) PROVE processed'[w] = processed[w] \/ processed'[w] = 0
  BY <1>1, <1>3 DEF Crash
<1>4. CASE UNCHANGED processed
  BY <1>4
<1>5. QED
  BY <1>2, <1>3, <1>4 DEF Next, Enqueueing, LoopStep, LoopFault, Operating, runSchedules, vars,
     PollQueue, LoopExits, ClaimReads, ClaimFindsNothing, ClaimMisses, ClaimFails,
     HandlerReturns, HandlerThrows, HandlerTimesOut, RecordOutcome, RecordSuccessFails,
     RecordFails, Enqueue, EnqueueCommits, EnqueueRollsBack, RetryJob, CancelJob, PruneJobs,
     StopWorker, Tick

LEMMA CountedInit == Init => CountedAhead
<1> SUFFICES ASSUME Init, MaxJobs # 0, NEW w \in Workers
             PROVE  processed[w] + Cardinality(Claiming(w)) <= MaxJobs + Concurrency - 1
  BY DEF CountedAhead
<1>1. processed[w] = 0 /\ Claiming(w) = {}
  BY DEF Init, Claiming, Loops, Polling
<1>2. QED
  BY <1>1, FS_EmptySet, JobConstants DEF JobConstants

LEMMA CountedStep == TypeOK /\ IdsInserted /\ CountedAhead /\ [Next]_vars => CountedAhead'
<1> SUFFICES ASSUME TypeOK, IdsInserted, CountedAhead, [Next]_vars, MaxJobs # 0, NEW w \in Workers
             PROVE  processed'[w] + Cardinality(Claiming(w)') <= MaxJobs + Concurrency - 1
  BY DEF CountedAhead
<1> DEFINE before == Claiming(w)
           after == {n \in 1..Concurrency : loops'[<<w, n>>].pc \in {"claiming", "locking"}}
<1>a. Claiming(w)' = after
  BY DEF Claiming
<1>1. /\ MaxJobs \in Nat /\ Concurrency \in Nat /\ processed[w] \in Nat
      /\ processed[w] + Cardinality(before) <= MaxJobs + Concurrency - 1
  BY JobConstants DEF JobConstants, TypeOK, CountedAhead
<1>2. /\ IsFiniteSet(before) /\ Cardinality(before) \in Nat
      /\ IsFiniteSet(after) /\ Cardinality(after) \in Nat /\ Cardinality(after) <= Concurrency
  <2>1. IsFiniteSet(before) /\ Cardinality(before) \in Nat
    BY JobConstants, ClaimingFinite
  <2>2. IsFiniteSet(1..Concurrency) /\ Cardinality(1..Concurrency) = Concurrency
    BY JobConstants, FS_Interval DEF JobConstants
  <2>3. after \subseteq 1..Concurrency
    OBVIOUS
  <2>4. QED
    BY <2>1, <2>2, <2>3, FS_Subset, FS_CardinalityType
<1> HIDE DEF before
<1>3. CASE \E n \in 1..Concurrency : PollQueue(<<w, n>>)
  <2>1. processed'[w] = processed[w] /\ processed[w] < MaxJobs
    BY <1>1, <1>3 DEF PollQueue, ShouldStop, WorkerOf
  <2> HIDE DEF after
  <2>2. QED
    BY <1>a, <1>1, <1>2, <2>1
<1>4. CASE ~\E n \in 1..Concurrency : PollQueue(<<w, n>>)
  <2>1. after \subseteq before
    <3>1. ASSUME NEW n \in 1..Concurrency, loops'[<<w, n>>].pc \in {"claiming", "locking"}
          PROVE  loops[<<w, n>>].pc \in {"claiming", "locking"}
      BY <1>4, <3>1, WhoClaims DEF Loops
    <3>2. QED
      BY <3>1 DEF before, Claiming
  <2>2. Cardinality(after) <= Cardinality(before)
    <3> HIDE DEF after
    <3>1. QED
      BY <1>2, <2>1, FS_Subset
  <2>3. CASE processed'[w] = processed[w] \/ processed'[w] = 0
    <3> HIDE DEF after
    <3>1. QED
      BY <1>a, <1>1, <1>2, <2>2, <2>3
  <2>4. CASE \E l \in Loops : ClaimLocks(l) /\ WorkerOf(l) = w /\ processed'[w] = processed[w] + 1
    <3>1. PICK l \in Loops : ClaimLocks(l) /\ WorkerOf(l) = w /\ processed'[w] = processed[w] + 1
      BY <2>4
    <3>2. PICK n \in 1..Concurrency : l = <<w, n>>
      BY <3>1 DEF Loops, WorkerOf
    <3>3. loops[l].pc = "locking" /\ loops'[l].pc \notin {"claiming", "locking"}
      <4>1. loops'[l].pc \in {"handling", "recording"}
        BY <3>1, ClaimLocksShape
      <4>2. QED
        BY <3>1, <4>1 DEF ClaimLocks
    <3>4. n \in before /\ n \notin after
      BY <3>2, <3>3 DEF before, Claiming
    <3> HIDE DEF after
    <3>5. Cardinality(after) <= Cardinality(before \ {n}) /\ Cardinality(before \ {n}) = Cardinality(before) - 1
      <4>1. after \subseteq before \ {n} /\ IsFiniteSet(before \ {n})
        BY <1>2, <2>1, <3>4, FS_RemoveElement
      <4>2. QED
        BY <1>2, <3>4, <4>1, FS_RemoveElement, FS_Subset
    <3>6. QED
      BY <1>a, <1>1, <1>2, <3>1, <3>5
  <2>5. QED
    BY <2>3, <2>4, WhoCounts
<1>5. QED
  BY <1>3, <1>4

\* maxJobs: a worker runs fewer jobs than its loops number beyond it, however the
\* loops interleave.
THEOREM OvershootBounded == Spec => []BoundedOvershoot
<1>1. Init => TypeOK /\ IdsInserted /\ CountedAhead
  BY TypeInit, IdsInit, CountedInit
<1>2. TypeOK /\ IdsInserted /\ CountedAhead /\ [Next]_vars => (TypeOK /\ IdsInserted /\ CountedAhead)'
  BY TypeStep, IdsStep, CountedStep
<1>3. TypeOK /\ CountedAhead => BoundedOvershoot
  <2> SUFFICES ASSUME TypeOK, CountedAhead, MaxJobs # 0, NEW w \in Workers
               PROVE  processed[w] <= MaxJobs + Concurrency - 1
    BY DEF BoundedOvershoot
  <2>1. /\ MaxJobs \in Nat /\ Concurrency \in Nat /\ processed[w] \in Nat
        /\ processed[w] + Cardinality(Claiming(w)) <= MaxJobs + Concurrency - 1
    BY JobConstants DEF JobConstants, TypeOK, CountedAhead
  <2>2. Cardinality(Claiming(w)) \in Nat
    BY JobConstants, ClaimingFinite
  <2>3. QED
    BY <2>1, <2>2
<1>4. QED
  BY <1>1, <1>2, <1>3, PTL DEF Spec

-----------------------------------------------------------------------------
(* What is owed is delivered, given up or cancelled *)

\* A run that is about to record success has seen its handler return.
SuccessesHandled == \A l \in Loops :
  Active(l) /\ loops[l].outcome = "succeeded" => loops[l].id \in handled

\* How the outcome a loop is about to record came about.
LEMMA WhoSucceeds ==
  ASSUME TypeOK, IdsInserted, [Next]_vars, NEW m \in Loops, Active(m)',
         loops'[m].outcome = "succeeded"
  PROVE  \/ HandlerReturns(m)
         \/ Active(m) /\ loops[m].outcome = "succeeded" /\ loops'[m].id = loops[m].id
<1>1. DOMAIN loops = Loops /\ loops[m] \in Loop
  BY DEF TypeOK
<1>2. CASE loops'[m] = loops[m]
  BY <1>2 DEF Active
<1>3. ASSUME NEW l \in Loops, LoopStep(l) \/ LoopFault(l), l # m PROVE loops'[m] = loops[m]
  BY <1>1, <1>3 DEF LoopStep, LoopFault, PollQueue, LoopExits, ClaimFindsNothing, ClaimMisses,
     ClaimFails, HandlerReturns, HandlerThrows, HandlerTimesOut, RecordOutcome,
     RecordSuccessFails, RecordFails, ClaimReads, ClaimLocks
<1>4. ASSUME NEW run \in Loop, loops' = [loops EXCEPT ![m] = run],
             run.pc \notin {"handling", "recording"} \/ run.outcome # "succeeded"
      PROVE  FALSE
  BY <1>1, <1>4 DEF Active
<1>5. CASE LoopStep(m) \/ LoopFault(m)
  <2>1. CASE loops' = [loops EXCEPT ![m] = Polling]
    BY <1>1, <2>1 DEF Polling, Active
  <2>2. CASE \E pc \in {"claiming", "done"} : loops' = [loops EXCEPT ![m].pc = pc]
    BY <1>1, <2>2 DEF Loop, Active
  <2>3. CASE \E pc \in {"handling", "recording"} :
               loops' = [loops EXCEPT ![m] = [@ EXCEPT !.pc = pc, !.outcome = "error"]]
    BY <1>1, <2>3 DEF Loop
  <2>4. CASE loops' = [loops EXCEPT ![m].outcome = "error"]
    BY <1>1, <2>4 DEF Loop
  <2>5. CASE ClaimReads(m)
    <3>1. loops'[m].pc = "locking"
      BY <1>1, <2>5 DEF ClaimReads, Loop
    <3>2. QED
      BY <3>1 DEF Active
  <2>6. CASE ClaimLocks(m)
    <3>1. PICK known \in BOOLEAN : loops' = [loops EXCEPT ![m] = [@ EXCEPT
            !.pc = IF known THEN "handling" ELSE "recording",
            !.outcome = IF known THEN "none" ELSE "unknown",
            !.attempts = rows[loops[m].id].attempts + 1,
            !.maxAttempts = rows[loops[m].id].maxAttempts,
            !.runAt = rows[loops[m].id].runAt]]
      BY <2>6 DEF ClaimLocks
    <3>2. loops'[m].outcome \in {"none", "unknown"}
      BY <1>1, <3>1 DEF Loop
    <3>3. QED
      BY <3>2
  <2>7. CASE HandlerReturns(m)
    BY <2>7
  <2>8. QED
    BY <1>5, <2>1, <2>2, <2>3, <2>4, <2>5, <2>6, <2>7 DEF LoopStep, LoopFault, PollQueue,
       LoopExits, ClaimFindsNothing, ClaimMisses, ClaimFails, HandlerThrows, HandlerTimesOut,
       RecordOutcome, RecordSuccessFails, RecordFails
<1>6. ASSUME NEW w \in Workers, Crash(w) PROVE loops'[m] = loops[m]
  BY <1>1, <1>6 DEF Crash, Polling, Active
<1>7. CASE UNCHANGED loops
  BY <1>2, <1>7
<1>8. QED
  BY <1>2, <1>3, <1>5, <1>6, <1>7 DEF Next, Enqueueing, Operating, runSchedules, vars,
     Enqueue, EnqueueCommits, EnqueueRollsBack, RetryJob, CancelJob, PruneJobs,
     StopWorker, Tick

LEMMA HandledGrows ==
  ASSUME [Next]_vars
  PROVE  UNCHANGED handled \/ \E l \in Loops : HandlerReturns(l)
BY DEF Next, Enqueueing, LoopStep, LoopFault, Operating, runSchedules, vars, history,
   Enqueue, EnqueueCommits, EnqueueRollsBack, PollQueue, LoopExits, ClaimReads,
   ClaimFindsNothing, ClaimLocks, ClaimMisses, ClaimFails, HandlerReturns, HandlerThrows,
   HandlerTimesOut, RecordOutcome, RecordSuccessFails, RecordFails, Crash, RetryJob,
   CancelJob, PruneJobs, StopWorker, Tick

LEMMA SuccessesStep == TypeOK /\ IdsInserted /\ SuccessesHandled /\ [Next]_vars => SuccessesHandled'
<1> SUFFICES ASSUME TypeOK, IdsInserted, SuccessesHandled, [Next]_vars, NEW m \in Loops,
                    Active(m)', loops'[m].outcome = "succeeded"
             PROVE  loops'[m].id \in handled'
  BY DEF SuccessesHandled
<1>1. CASE HandlerReturns(m)
  <2>1. DOMAIN loops = Loops /\ loops[m] \in Loop
    BY DEF TypeOK
  <2>2. loops'[m].id = loops[m].id
    BY <1>1, <2>1 DEF HandlerReturns, Loop
  <2>3. QED
    BY <1>1, <2>2 DEF HandlerReturns
<1>2. CASE Active(m) /\ loops[m].outcome = "succeeded" /\ loops'[m].id = loops[m].id
  <2>1. loops[m].id \in handled
    BY <1>2 DEF SuccessesHandled
  <2>2. handled \subseteq handled'
    BY HandledGrows DEF HandlerReturns
  <2>3. QED
    BY <1>2, <2>1, <2>2
<1>3. QED
  BY <1>1, <1>2, WhoSucceeds

\* A step that writes one row changes what one owner sees.
LEMMA OneViewChanges ==
  ASSUME NEW id \in Ids, NEW s, Views'[id] = s,
         \A i \in Ids \ {id} : rows'[i] = rows[i] /\ (i < nextId' <=> i < nextId)
  PROVE  Views' = [Views EXCEPT ![id] = s]
<1>1. ASSUME NEW i \in Ids \ {id} PROVE Views'[i] = Views[i]
  <2>1. rows'[i] = rows[i] /\ (i < nextId' <=> i < nextId)
    OBVIOUS
  <2>2. QED
    BY <2>1 DEF Views, View
<1>2. /\ Views = [i \in Ids |-> Views[i]]
      /\ Views' = [i \in Ids |-> Views'[i]]
  BY DEF Views
<1>3. QED
  BY <1>1, <1>2

\* A step that leaves the rows alone changes what nobody sees.
LEMMA NoViewChanges == ASSUME UNCHANGED <<rows, nextId>> PROVE UNCHANGED Views
BY DEF Views, View

LEMMA ViewsOfLive == ASSUME NEW id \in Ids, rows[id].status \in Live PROVE Views[id] = "owed"
BY DEF Views, View, Live

LEMMA ViewsOfInserted ==
  ASSUME TypeOK, NEW id \in Ids, id < nextId
  PROVE  Views[id] # "none"
BY DEF Views, View, TypeOK, Row, Statuses, Live

LEMMA ViewsOfExisting ==
  ASSUME TypeOK, NEW id \in Ids, Exists(id)
  PROVE  Views[id] \notin {"none", "gone"}
BY DEF Views, View, TypeOK, Row, Statuses, Live, Exists

\* The record of an outcome: the job is delivered, given up or owed again.
LEMMA RecordDelivers ==
  ASSUME TypeOK, IdsInserted, HoldersOwnRows, SuccessesHandled, NEW l \in Loops, RecordOutcome(l)
  PROVE  [Delivery!Next]_(Delivery!vars)
<1> DEFINE id == loops[l].id
<1>1. id \in Ids /\ rows[id] \in Row /\ loops[l] \in Loop /\ Active(l) /\ UNCHANGED <<late, handled, nextId>>
  BY RecordOutcomeShape DEF TypeOK, RecordOutcome, Active
<1>2. CASE ~Exists(id)
  <2>1. UNCHANGED rows
    BY <1>2 DEF RecordOutcome
  <2>2. UNCHANGED Views
    BY <1>1, <2>1, NoViewChanges
  <2>3. QED
    BY <1>1, <2>2 DEF Delivery!vars
<1>3. CASE Exists(id)
  <2>1. rows'[id] = Recorded(rows[id], loops[l]) /\ \A i \in Ids \ {id} : rows'[i] = rows[i]
    BY <1>3, RecordOutcomeShape
  <2>2. Delivery!Open(id)
    <3>1. CASE id \in late
      BY <1>1, <1>3, <3>1, ViewsOfExisting DEF Delivery!Open
    <3>2. CASE id \notin late
      <4>1. rows[id].status \in Live
        BY <1>1, <3>2 DEF HoldersOwnRows, Owns, Live
      <4>2. QED
        BY <1>1, <4>1, ViewsOfLive DEF Delivery!Open
    <3>3. QED
      BY <3>1, <3>2
  <2>3. CASE rows'[id].status = "succeeded"
    <3>1. id \in handled
      BY <1>1, <2>1, <2>3, RecordedShape DEF SuccessesHandled
    <3>2. Views'[id] = "delivered"
      BY <1>1, <2>3 DEF Views, View, Live
    <3>3. Delivery!Deliver(id)
      BY <1>1, <2>1, <2>2, <3>1, <3>2, OneViewChanges DEF Delivery!Deliver, Delivery!Becomes
    <3>4. QED
      BY <1>1, <3>3 DEF Delivery!Next
  <2>4. CASE rows'[id].status = "pending"
    <3>1. Views'[id] = "owed"
      BY <1>1, <2>4 DEF Views, View, Live
    <3>2. Delivery!Retry(id)
      BY <1>1, <2>1, <2>2, <3>1, OneViewChanges DEF Delivery!Retry, Delivery!Becomes
    <3>3. QED
      BY <1>1, <3>2 DEF Delivery!Next
  <2>5. CASE rows'[id].status = "failed"
    <3>1. Views'[id] = "failed"
      BY <1>1, <2>5 DEF Views, View, Live
    <3>2. Delivery!GiveUp(id)
      BY <1>1, <2>1, <2>2, <3>1, OneViewChanges DEF Delivery!GiveUp, Delivery!Becomes
    <3>3. QED
      BY <1>1, <3>2 DEF Delivery!Next
  <2>6. rows'[id].status \in {"succeeded", "failed", "pending"}
    BY <1>1, <2>1 DEF Recorded, Row
  <2>7. QED
    BY <2>3, <2>4, <2>5, <2>6
<1>4. QED
  BY <1>2, <1>3

\* Every step of the queue is a step of what it promises, or none.
LEMMA DeliveryStep ==
  /\ TypeOK /\ IdsInserted /\ DraftsFresh /\ HoldersOwnRows /\ SuccessesHandled
  /\ [Next]_vars
  => [Delivery!Next]_(Delivery!vars)
<1> SUFFICES ASSUME TypeOK, IdsInserted, DraftsFresh, HoldersOwnRows, SuccessesHandled, [Next]_vars
             PROVE  [Delivery!Next]_(Delivery!vars)
  OBVIOUS
<1>1. ASSUME NEW c \in Callers, EnqueueCommits(c) PROVE Delivery!Next
  <2> DEFINE id == nextId
  <2>1. id \in Ids /\ UNCHANGED <<late, handled>>
    BY <1>1, JobConstants DEF JobConstants, EnqueueCommits, TypeOK, Ids, history
  <2>2. rows[id] = NoRow
    BY <2>1 DEF IdsInserted, TypeOK
  <2>3. Views[id] = "none"
    <3>1. rows[id].status = "absent" /\ ~(id < nextId)
      BY <2>2 DEF NoRow, TypeOK
    <3>2. QED
      BY <2>1, <3>1 DEF Views, View, Live
  <2>4. rows'[id].status = "pending"
    BY <1>1, <2>1 DEF EnqueueCommits, DraftsFresh, TypeOK
  <2>5. Views'[id] = "owed"
    BY <2>1, <2>4 DEF Views, View, Live
  <2>6. \A i \in Ids \ {id} : rows'[i] = rows[i] /\ (i < nextId' <=> i < nextId)
    BY <1>1 DEF EnqueueCommits, TypeOK, Ids
  <2>7. Delivery!Submit(id)
    BY <2>1, <2>3, <2>5, <2>6, OneViewChanges DEF Delivery!Submit, Delivery!Becomes
  <2>8. QED
    BY <2>1, <2>7 DEF Delivery!Next
<1>2. ASSUME NEW l \in Loops, ClaimLocks(l) PROVE [Delivery!Next]_(Delivery!vars)
  <2> DEFINE id == loops[l].id
  <2>1. id \in Ids /\ rows[id].status \in Live /\ UNCHANGED <<nextId, handled>>
    BY <1>2 DEF ClaimLocks, IdsInserted
  <2>2. rows'[id].status \in Live /\ \A i \in Ids \ {id} : rows'[i] = rows[i]
    BY <1>2, ClaimLocksShape DEF Live
  <2>3. Views[id] = "owed" /\ Views'[id] = "owed"
    BY <2>1, <2>2 DEF Views, View, Live
  <2>4. UNCHANGED Views
    <3>1. Views' = [Views EXCEPT ![id] = "owed"]
      BY <2>1, <2>2, <2>3, OneViewChanges
    <3>2. QED
      BY <2>1, <2>3, <3>1 DEF Views
  <2>5. CASE UNCHANGED late
    BY <2>1, <2>4, <2>5 DEF Delivery!vars
  <2>6. CASE late' = late \cup {id}
    <3>1. Delivery!RunsLate({id})
      BY <2>1, <2>3, <2>4, <2>6 DEF Delivery!RunsLate
    <3>2. QED
      BY <2>1, <3>1 DEF Delivery!Next
  <2>7. QED
    BY <1>2, <2>5, <2>6 DEF ClaimLocks
<1>3. ASSUME NEW l \in Loops, RecordOutcome(l) PROVE [Delivery!Next]_(Delivery!vars)
  BY <1>3, RecordDelivers
<1>4. ASSUME NEW l \in Loops, HandlerReturns(l) PROVE Delivery!Next
  <2>1. loops[l].id \in Ids /\ loops[l].id < nextId
    BY <1>4 DEF HandlerReturns, IdsInserted, Active
  <2>2. Views[loops[l].id] # "none" /\ UNCHANGED Views
    BY <1>4, <2>1, ViewsOfInserted, NoViewChanges DEF HandlerReturns
  <2>3. Delivery!Handle(loops[l].id)
    BY <1>4, <2>2 DEF Delivery!Handle, HandlerReturns
  <2>4. QED
    BY <2>1, <2>3 DEF Delivery!Next
<1>5. ASSUME NEW id \in Ids, RetryJob(id) PROVE Delivery!Next
  <2>1. UNCHANGED <<nextId, late, handled>> /\ \A i \in Ids \ {id} : rows'[i] = rows[i]
    BY <1>5 DEF RetryJob, TypeOK
  <2>2. rows'[id].status = "pending"
    BY <1>5 DEF RetryJob, Requeued, TypeOK, Row
  <2>3. Views[id] = "failed" /\ Views'[id] = "owed"
    BY <1>5, <2>2 DEF RetryJob, Views, View, Live
  <2>4. Delivery!Retry(id)
    BY <2>1, <2>3, OneViewChanges DEF Delivery!Retry, Delivery!Becomes
  <2>5. QED
    BY <2>4 DEF Delivery!Next
<1>6. ASSUME NEW id \in Ids, CancelJob(id) PROVE Delivery!Next
  <2>1. UNCHANGED <<nextId, late, handled>> /\ \A i \in Ids \ {id} : rows'[i] = rows[i]
    BY <1>6 DEF CancelJob, TypeOK, history
  <2>2. rows'[id].status = "cancelled"
    BY <1>6 DEF CancelJob, TypeOK, Row
  <2>3. Views[id] = "owed" /\ Views'[id] = "cancelled"
    BY <1>6, <2>2 DEF CancelJob, Cancellable, Views, View, Live
  <2>4. Delivery!Cancel(id)
    BY <2>1, <2>3, OneViewChanges DEF Delivery!Cancel, Delivery!Becomes
  <2>5. QED
    BY <2>4 DEF Delivery!Next
<1>7. CASE PruneJobs
  <2> DEFINE S == {id \in Ids : Prunable(rows[id])}
  <2>1. UNCHANGED <<nextId, late, handled>>
    BY <1>7 DEF PruneJobs, history
  <2>2. ASSUME NEW id \in S
        PROVE  Views[id] \in {"delivered", "cancelled"} /\ Views'[id] = "gone"
    <3>1. rows[id].status \in {"succeeded", "cancelled"} /\ rows'[id].status = "absent"
      BY <1>7, <2>2 DEF PruneJobs, Prunable, NoRow
    <3>2. id < nextId
      BY <3>1 DEF IdsInserted, NoRow, Ids, TypeOK
    <3>3. QED
      BY <2>1, <3>1, <3>2 DEF Views, View, Live
  <2>3. ASSUME NEW id \in Ids \ S PROVE Views'[id] = Views[id]
    BY <1>7, <2>1, <2>3 DEF PruneJobs, Views, View
  <2>4. Views' = [id \in Ids |-> IF id \in S THEN "gone" ELSE Views[id]]
    <3>1. Views' = [id \in Ids |-> Views'[id]]
      BY DEF Views
    <3>2. QED
      BY <2>2, <2>3, <3>1
  <2>5. Delivery!Forget(S)
    BY <2>1, <2>2, <2>4 DEF Delivery!Forget
  <2>6. S \in SUBSET Ids
    OBVIOUS
  <2>7. QED
    BY <2>5, <2>6 DEF Delivery!Next
<1>8. CASE Tick
  <2> DEFINE S == {loops[l].id : l \in {m \in Loops : Active(m) /\ loops[m].at < now' - Lease}}
  <2>1. \A id \in S : id \in Ids /\ id < nextId
    BY DEF IdsInserted
  <2>2. UNCHANGED Views /\ UNCHANGED handled /\ late' = late \cup S
    BY <1>8, NoViewChanges DEF Tick
  <2>3. \A id \in S : Views[id] # "none"
    BY <2>1, ViewsOfInserted
  <2>4. Delivery!RunsLate(S)
    BY <2>2, <2>3 DEF Delivery!RunsLate
  <2>5. QED
    BY <2>1, <2>4 DEF Delivery!Next
<1>9. CASE UNCHANGED <<rows, nextId, late, handled>>
  BY <1>9, NoViewChanges DEF Delivery!vars
<1>10. QED
  BY <1>1, <1>2, <1>3, <1>4, <1>5, <1>6, <1>7, <1>8, <1>9 DEF Next, Enqueueing, LoopStep,
     LoopFault, Operating, runSchedules, vars, history, Enqueue, EnqueueRollsBack, PollQueue,
     LoopExits, ClaimReads, ClaimFindsNothing, ClaimMisses, ClaimFails, HandlerThrows,
     HandlerTimesOut, RecordSuccessFails, RecordFails, Crash, StopWorker

\* On SQLite the queue keeps the at-least-once promise of JobDelivery, for every
\* number of rows, workers, loops and callers: a job is owed until its handler
\* returned, it was given up or it was cancelled, and an outcome is final but for
\* the operator's retry and the rows one of whose runs went on past its lease.
THEOREM QueueDelivers == Serializable => (Spec => DeliveryPromise)
<1> SUFFICES ASSUME Serializable PROVE Spec => DeliveryPromise
  OBVIOUS
<1> DEFINE Inv == /\ OneTransaction /\ ClaimsStillGood /\ HoldersOwnRows /\ ExclusiveRuns
                  /\ DraftsFresh /\ SuccessesHandled
<1>1. Init => Inv
  BY DraftsInit DEF Init, OneTransaction, ClaimsStillGood, HoldersOwnRows, ExclusiveRuns, Polling,
     NoRow, Active, SuccessesHandled
<1>2. TypeOK /\ IdsInserted /\ Inv /\ [Next]_vars => Inv'
  BY OneTransactionStep, ClaimsStillGoodStep, HoldersStep, ExclusiveStep, DraftsStep, SuccessesStep
<1>3. Init => Delivery!Init
  <2> SUFFICES ASSUME Init PROVE Delivery!Init
    OBVIOUS
  <2>1. ASSUME NEW id \in Ids PROVE Views[id] = "none"
    <3>1. rows[id].status = "absent" /\ ~(id < nextId)
      BY <2>1 DEF Init, NoRow, Ids
    <3>2. QED
      BY <2>1, <3>1 DEF Views, View, Live
  <2>2. Views = [id \in Ids |-> "none"]
    <3>1. Views = [id \in Ids |-> Views[id]]
      BY DEF Views
    <3>2. QED
      BY <2>1, <3>1
  <2>3. QED
    BY <2>2 DEF Init, Delivery!Init
<1>4. TypeOK /\ IdsInserted /\ Inv /\ [Next]_vars => [Delivery!Next]_(Delivery!vars)
  BY DeliveryStep
<1> HIDE DEF Inv
<1>5. QED
  BY <1>1, <1>2, <1>3, <1>4, TypeCorrect, PTL DEF Spec, DeliveryPromise, Delivery!Spec
=============================================================================
