------------------------- MODULE SqliteTransactions -------------------------
(***************************************************************************)
(* atomic() and the queries outside it on SQLite (src/src/db/              *)
(* transaction.ts, queryset.ts): one connection shared by every request of *)
(* the process, a promise (held) for a lock, BEGIN for the outermost block *)
(* and a savepoint named after its depth for each nested one.              *)
(*                                                                         *)
(* A step is the code between two awaits.  Blocks are the calls of atomic, *)
(* each of which writes at most once; Queries are writing queries issued   *)
(* outside any block.  Parallel tells whether a block may call others side *)
(* by side (Promise.all) or awaits each call before it goes on.            *)
(***************************************************************************)
EXTENDS Integers, Sequences, FiniteSets

CONSTANTS
  Blocks,       \* calls of atomic
  Queries,      \* writing queries outside any block
  Nobody,       \* no block
  Parallel,     \* blocks nested in one block may run side by side
  MaxFaults     \* bound: BEGINs that throw for a reason of their own

ASSUME TransactionConstants ==
  /\ Nobody \notin Blocks /\ Blocks \cap Queries = {}
  /\ Parallel \in BOOLEAN /\ MaxFaults \in Nat

VARIABLES
  held,        \* the block whose promise is in the WeakMap, or Nobody
  stack,       \* the connection: BEGIN's frame, then a frame per savepoint
  committed,   \* writes that are in the database for good
  calls,       \* per block: where its call of atomic is
  queries,     \* per query: where it is, and the block whose end it awaits
  faults,      \* BEGINs that have thrown for a reason of their own
  sweptBy      \* history: the block in whose transaction a query's write fell

vars == <<held, stack, committed, calls, queries, faults, sweptBy>>

Call == [pc: {"idle", "waiting", "acquired", "running", "resolved", "threw"},
         parent: Blocks \cup {Nobody}, depth: Nat, wrote: BOOLEAN]

Query == [pc: {"idle", "gated", "passed", "done"}, saw: Blocks \cup {Nobody}]

Frame == [name: Nat, writes: SUBSET (Blocks \cup Queries)]

Running(b) == calls[b].pc = "running"

Called(b) == {c \in Blocks : calls[c].parent = b}
Alone(b) == \A c \in Called(b) : ~Running(c)

\* b's own code runs: it awaits no block it called, or called them without await.
Free(b) == Parallel \/ Alone(b)

-----------------------------------------------------------------------------
(* The SQLite connection *)

Savepoint(name) == stack' = Append(stack, [name |-> name, writes |-> {}])

\* A statement runs in the innermost frame, or commits by itself.
WriteTo(w) ==
  IF stack = <<>> THEN committed' = committed \cup {w} /\ UNCHANGED stack
  ELSE /\ stack' = [stack EXCEPT ![Len(stack)].writes = @ \cup {w}]
       /\ UNCHANGED committed

Named(name) == {i \in 1..Len(stack) : stack[i].name = name}

\* The innermost frame of that name.
Innermost(name) == CHOOSE i \in Named(name) : \A j \in Named(name) : j <= i

WritesFrom(i) == UNION {stack[j].writes : j \in i..Len(stack)}

\* COMMIT, or the RELEASE of a savepoint that opened the transaction.
CommitAll == stack' = <<>> /\ committed' = committed \cup WritesFrom(1)

\* RELEASE merges the frame, and those inside it, into the one below.
Release(name) ==
  LET i == Innermost(name)
  IN  IF i = 1 THEN CommitAll
      ELSE /\ stack' = [SubSeq(stack, 1, i - 1) EXCEPT ![i - 1].writes = @ \cup WritesFrom(i)]
           /\ UNCHANGED committed

\* A RELEASE that is not preceded by ROLLBACK TO.
DiscardReleasesOnly(name) ==
  IF Named(name) = {} THEN UNCHANGED <<stack, committed>> ELSE Release(name)

\* ROLLBACK TO, then RELEASE: the frame and those inside it are gone.
Discard(name) ==
  /\ stack' = IF Named(name) = {} THEN stack ELSE SubSeq(stack, 1, Innermost(name) - 1)
  /\ UNCHANGED committed

-----------------------------------------------------------------------------
(* atomic *)

\* acquireTransaction finds the lock held and awaits its promise.
Wait(b) ==
  /\ calls[b].pc = "idle" /\ held # Nobody
  /\ calls' = [calls EXCEPT ![b].pc = "waiting"]
  /\ UNCHANGED <<held, stack, committed, queries, faults, sweptBy>>

\* A waiter that does not look again when it wakes.
AcquireWithoutRecheck(b) ==
  /\ calls[b].pc = "waiting" \/ (calls[b].pc = "idle" /\ held = Nobody)
  /\ held' = b
  /\ calls' = [calls EXCEPT ![b].pc = "acquired"]
  /\ UNCHANGED <<stack, committed, queries, faults, sweptBy>>

\* It finds the lock free, at once or on waking, and takes it in the same step.
Acquire(b) ==
  /\ calls[b].pc \in {"idle", "waiting"} /\ held = Nobody
  /\ held' = b
  /\ calls' = [calls EXCEPT ![b].pc = "acquired"]
  /\ UNCHANGED <<stack, committed, queries, faults, sweptBy>>

Begin(b) ==
  /\ calls[b].pc = "acquired" /\ stack = <<>>
  /\ Savepoint(0)
  /\ calls' = [calls EXCEPT ![b].pc = "running"]
  /\ UNCHANGED <<held, committed, queries, faults, sweptBy>>

\* BEGIN throws, because a transaction is open or for a reason of its own (the
\* database is closed): it stands before the try, so the lock is never released.
BeginThrows(b) ==
  /\ calls[b].pc = "acquired"
  /\ IF stack # <<>> THEN UNCHANGED faults ELSE faults < MaxFaults /\ faults' = faults + 1
  /\ calls' = [calls EXCEPT ![b].pc = "threw"]
  /\ UNCHANGED <<held, stack, committed, queries, sweptBy>>

\* A call of atomic in a block's async context: a savepoint, no lock.
Nest(b, p) ==
  /\ calls[b].pc = "idle" /\ Running(p) /\ Free(p)
  /\ Savepoint(calls[p].depth + 1)
  /\ calls' = [calls EXCEPT ![b] = [@ EXCEPT !.pc = "running", !.parent = p,
                                             !.depth = calls[p].depth + 1]]
  /\ UNCHANGED <<held, committed, queries, faults, sweptBy>>

\* A query inside a block skips the gate.
WriteInside(b) ==
  /\ Running(b) /\ Free(b) /\ ~calls[b].wrote
  /\ WriteTo(b)
  /\ calls' = [calls EXCEPT ![b].wrote = TRUE]
  /\ UNCHANGED <<held, queries, faults, sweptBy>>

Outermost(b) == calls[b].parent = Nobody

Unlock(b) == held' = IF Outermost(b) THEN Nobody ELSE held

\* fn resolves: COMMIT, or RELEASE of the savepoint.
Resolve(b) ==
  /\ Running(b) /\ Alone(b)
  /\ IF Outermost(b) THEN stack # <<>> /\ CommitAll
     ELSE Named(calls[b].depth) # {} /\ Release(calls[b].depth)
  /\ Unlock(b)
  /\ calls' = [calls EXCEPT ![b].pc = "resolved"]
  /\ UNCHANGED <<queries, faults, sweptBy>>

\* A catch that returns before the lock is released.
ThrowKeepsLock(b) ==
  /\ Running(b) /\ Alone(b)
  /\ IF Outermost(b) THEN stack' = <<>> /\ UNCHANGED committed
     ELSE Discard(calls[b].depth)
  /\ calls' = [calls EXCEPT ![b].pc = "threw"]
  /\ UNCHANGED <<held, queries, faults, sweptBy>>

\* fn, COMMIT or RELEASE throws: ROLLBACK, or ROLLBACK TO and RELEASE.  A
\* ROLLBACK with no transaction open throws too; the lock is released all the same.
\* A Promise.all throws with the first of its blocks, and leaves the others behind.
Throw(b) ==
  /\ Running(b)
  /\ Alone(b) \/ (Parallel /\ \E c \in Called(b) : calls[c].pc = "threw")
  /\ IF Outermost(b) THEN stack' = <<>> /\ UNCHANGED committed
     ELSE Discard(calls[b].depth)
  /\ Unlock(b)
  /\ calls' = [calls EXCEPT ![b].pc = "threw"]
  /\ UNCHANGED <<queries, faults, sweptBy>>

-----------------------------------------------------------------------------
(* Queries outside any block *)

\* A gate that looks and does not wait.
IssueWithoutWaiting(q) ==
  /\ queries[q].pc = "idle"
  /\ queries' = [queries EXCEPT ![q] = [pc |-> "passed", saw |-> held]]
  /\ UNCHANGED <<held, stack, committed, calls, faults, sweptBy>>

\* transactionGate: the query goes on, or awaits the block it finds.
Issue(q) ==
  /\ queries[q].pc = "idle"
  /\ queries' = [queries EXCEPT ![q] =
       [pc |-> IF held = Nobody THEN "passed" ELSE "gated", saw |-> held]]
  /\ UNCHANGED <<held, stack, committed, calls, faults, sweptBy>>

\* The block it awaited has ended.  It does not look again.
Wake(q) ==
  /\ queries[q].pc = "gated" /\ held # queries[q].saw
  /\ queries' = [queries EXCEPT ![q].pc = "passed"]
  /\ UNCHANGED <<held, stack, committed, calls, faults, sweptBy>>

\* Its hooks have run; the statement goes to the shared connection.
RunQuery(q) ==
  /\ queries[q].pc = "passed"
  /\ WriteTo(q)
  /\ queries' = [queries EXCEPT ![q].pc = "done"]
  /\ sweptBy' = [sweptBy EXCEPT ![q] = IF stack = <<>> THEN Nobody ELSE held]
  /\ UNCHANGED <<held, calls, faults>>

-----------------------------------------------------------------------------
Init ==
  /\ held = Nobody
  /\ stack = <<>>
  /\ committed = {}
  /\ calls = [b \in Blocks |-> [pc |-> "idle", parent |-> Nobody, depth |-> 0, wrote |-> FALSE]]
  /\ queries = [q \in Queries |-> [pc |-> "idle", saw |-> Nobody]]
  /\ faults = 0
  /\ sweptBy = [q \in Queries |-> Nobody]

BlockStep(b) ==
  \/ Wait(b) \/ Acquire(b) \/ Begin(b) \/ BeginThrows(b)
  \/ \E p \in Blocks : Nest(b, p)
  \/ WriteInside(b) \/ Resolve(b) \/ Throw(b)

QueryStep(q) == Issue(q) \/ Wake(q) \/ RunQuery(q)

Next == (\E b \in Blocks : BlockStep(b)) \/ (\E q \in Queries : QueryStep(q))

Spec == Init /\ [][Next]_vars

\* Awaited promises wake their waiters, in FIFO order, and functions end.
Fairness ==
  /\ \A b \in Blocks : /\ SF_vars(Acquire(b))
                       /\ WF_vars(Begin(b) \/ BeginThrows(b))
                       /\ WF_vars(Resolve(b) \/ Throw(b))
  /\ \A q \in Queries : WF_vars(Wake(q)) /\ WF_vars(RunQuery(q))

FairSpec == Spec /\ Fairness

-----------------------------------------------------------------------------
(* Properties *)

\* The variables range over the values the code gives them.
TypeOK ==
  /\ held \in Blocks \cup {Nobody}
  /\ stack \in Seq(Frame)
  /\ committed \subseteq Blocks \cup Queries
  /\ calls \in [Blocks -> Call]
  /\ queries \in [Queries -> Query]
  /\ faults \in Nat
  /\ sweptBy \in [Queries -> Blocks \cup {Nobody}]

\* While every call is awaited at once, the savepoints on the connection are those of the
\* running blocks, one inside the other under the block that holds the lock: no
\* overlapping BEGIN, no frame left behind, none released by another block.
StackMatchesCalls == ~Parallel =>
  /\ held = Nobody \/ ~Running(held) => stack = <<>>
  /\ \A b \in Blocks : Running(b) =>
       /\ calls[b].depth < Len(stack)
       /\ Outermost(b) => held = b
       /\ \A c \in Blocks : Running(c) /\ calls[c].depth = calls[b].depth => c = b
  /\ \A i \in 1..Len(stack) :
       stack[i].name = i - 1 /\ \E b \in Blocks : Running(b) /\ calls[b].depth = i - 1

\* transactionGate: a query is never swept into the transaction it found open
\* when it was issued.
GateHolds == \A q \in Queries :
  sweptBy[q] # Nobody => sweptBy[q] # queries[q].saw

\* BEGIN threw, and with it the release of the lock was lost.
Leaked == faults > 0 /\ held # Nobody /\ calls[held].pc = "threw"

\* Whoever waits for the lock, or at the gate, gets on, unless a BEGIN threw.
WaitersGetOn ==
  /\ \A b \in Blocks : calls[b].pc = "waiting" ~> (calls[b].pc # "waiting" \/ Leaked)
  /\ \A q \in Queries : queries[q].pc = "gated" ~> (queries[q].pc = "done" \/ Leaked)

FrameOf(b) == stack[calls[b].depth + 1].writes

Status(b) == CASE calls[b].pc = "running" -> "open"
               [] calls[b].pc = "resolved" -> "kept"
               [] calls[b].pc = "threw" -> "undone"
               [] OTHER -> "idle"

Durable == committed \cap Blocks
Buffers == [b \in Blocks |-> IF Running(b) THEN FrameOf(b) \cap Blocks ELSE {}]
Told == [b \in Blocks |-> Status(b)]
Parents == [b \in Blocks |-> calls[b].parent]

Promised == INSTANCE NestedTransactions WITH
  durable <- Durable, buffer <- Buffers, status <- Told, parent <- Parents

\* BEGIN, COMMIT, ROLLBACK and the savepoints give every block what
\* NestedTransactions promises, whatever queries run in between.
Atomicity == Promised!Spec

-----------------------------------------------------------------------------
(* The inductive invariant behind GateHolds *)

Started(b) == calls[b].pc \notin {"idle", "waiting"}

\* The lock's holder has got it; a query remembers a block that got the lock and,
\* once it has passed the gate, has let go of it for good.
GateRemembers ==
  /\ held # Nobody => Started(held)
  /\ \A q \in Queries : queries[q].pc # "idle" /\ queries[q].saw # Nobody =>
       /\ Started(queries[q].saw)
       /\ queries[q].pc = "passed" => held # queries[q].saw
  /\ \A q \in Queries : queries[q].pc # "done" => sweptBy[q] = Nobody

-----------------------------------------------------------------------------
(* What comments say, and the code does not do *)

\* transaction.ts: a query outside any transaction "cannot be swept into a
\* transaction it knows nothing about and discarded when that transaction rolls
\* back".
OutsideWritesSurvive == \A q \in Queries :
  queries[q].pc = "done" => q \in committed \/ \E i \in 1..Len(stack) : q \in stack[i].writes

\* transaction.ts: atomic commits "when it resolves and rolling back if it
\* throws", also for blocks called side by side.
ThrownLeavesNothing == \A b \in Blocks : calls[b].pc = "threw" => b \notin committed
=============================================================================
