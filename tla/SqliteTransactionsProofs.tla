---------------------- MODULE SqliteTransactionsProofs ----------------------
(***************************************************************************)
(* What holds of atomic() on SQLite for any number of blocks and queries,  *)
(* also where blocks are called side by side.                              *)
(***************************************************************************)
EXTENDS SqliteTransactions, SequenceTheorems, WellFoundedInduction, TLAPS

-----------------------------------------------------------------------------
(* Types *)

LEMMA WritesFromType ==
  ASSUME stack \in Seq(Frame), NEW i \in Nat \ {0}
  PROVE  WritesFrom(i) \subseteq Blocks \cup Queries
<1> SUFFICES ASSUME NEW j \in i..Len(stack) PROVE stack[j].writes \subseteq Blocks \cup Queries
  BY DEF WritesFrom
<1>1. j \in 1..Len(stack)
  OBVIOUS
<1>2. stack[j] \in Frame
  BY <1>1
<1>3. QED
  BY <1>2 DEF Frame

\* Statements keep the frames frames.
LEMMA SavepointType ==
  ASSUME stack \in Seq(Frame), NEW name \in Nat, Savepoint(name)
  PROVE  stack' \in Seq(Frame)
<1>1. [name |-> name, writes |-> {}] \in Frame
  BY DEF Frame
<1>2. QED
  BY <1>1 DEF Savepoint

LEMMA WriteType ==
  ASSUME stack \in Seq(Frame), committed \subseteq Blocks \cup Queries,
         NEW w \in Blocks \cup Queries, WriteTo(w)
  PROVE  stack' \in Seq(Frame) /\ committed' \subseteq Blocks \cup Queries
<1>1. CASE stack = <<>>
  BY <1>1 DEF WriteTo
<1>2. CASE stack # <<>>
  <2> DEFINE n == Len(stack)
             frame == [stack[n] EXCEPT !.writes = stack[n].writes \cup {w}]
  <2>1. n \in 1..Len(stack)
    BY <1>2
  <2>2. stack[n] \in Frame
    BY <2>1
  <2>3. frame \in Frame
    BY <2>2 DEF Frame
  <2>4. stack' = [stack EXCEPT ![n] = frame]
    BY <1>2 DEF WriteTo
  <2> HIDE DEF frame, n
  <2>5. stack' \in Seq(Frame)
    BY <2>1, <2>3, <2>4
  <2>6. QED
    BY <1>2, <2>5 DEF WriteTo
<1>3. QED
  BY <1>1, <1>2

\* A set of numbers with an upper bound has a greatest element.
LEMMA GreatestExists ==
  ASSUME NEW n \in Nat, NEW I \in SUBSET (1..n), I # {}
  PROVE  \E i \in I : \A j \in I : j <= i
<1> DEFINE R == {ss \in Nat \X Nat : ss[1] < ss[2]}
           T == {n - i : i \in I}
<1>1. IsWellFoundedOn(R, Nat)
  BY NatLessThanWellFounded DEF OpToRel
<1>2. T \subseteq Nat /\ T # {}
  <2>1. ASSUME NEW i \in I PROVE n - i \in Nat
    <3>1. i \in 1..n
      OBVIOUS
    <3>2. QED
      BY <3>1
  <2>2. QED
    BY <2>1
<1>3. PICK x \in T : \A y \in T : <<y, x>> \notin R
  <2> HIDE DEF R, T
  <2>1. QED
    BY <1>1, <1>2, WFMin
<1>4. ASSUME NEW y \in T PROVE y >= x
  <2>1. y \in Nat /\ x \in Nat
    <3> HIDE DEF T
    <3>1. QED
      BY <1>2
  <2>2. ~(y < x)
    <3> HIDE DEF T
    <3>1. <<y, x>> \notin R
      BY <1>3
    <3>2. QED
      BY <2>1, <3>1
  <2> HIDE DEF T, R
  <2>3. QED
    BY <2>1, <2>2
<1>5. PICK i \in I : x = n - i
  OBVIOUS
<1>6. ASSUME NEW j \in I PROVE j <= i
  <2>1. n - j >= n - i
    BY <1>4, <1>5
  <2>2. i \in Int /\ j \in Int
    OBVIOUS
  <2>3. QED
    BY <2>1, <2>2
<1>7. QED
  BY <1>6

LEMMA InnermostIn ==
  ASSUME stack \in Seq(Frame), NEW name, Named(name) # {}
  PROVE  Innermost(name) \in 1..Len(stack)
<1>1. Named(name) \subseteq 1..Len(stack)
  BY DEF Named
<1>2. \E i \in Named(name) : \A j \in Named(name) : j <= i
  <2>1. Len(stack) \in Nat
    OBVIOUS
  <2>2. QED
    BY <1>1, <2>1, GreatestExists
<1>3. Innermost(name) \in Named(name)
  BY <1>2 DEF Innermost
<1>4. QED
  BY <1>1, <1>3

LEMMA CommitType ==
  ASSUME stack \in Seq(Frame), committed \subseteq Blocks \cup Queries, CommitAll
  PROVE  stack' \in Seq(Frame) /\ committed' \subseteq Blocks \cup Queries
BY WritesFromType DEF CommitAll

LEMMA PrefixType ==
  ASSUME stack \in Seq(Frame), NEW i \in 1..Len(stack)
  PROVE  /\ SubSeq(stack, 1, i - 1) \in Seq(Frame)
         /\ Len(SubSeq(stack, 1, i - 1)) = i - 1
<1>1. \A j \in 1..(i - 1) : stack[j] \in Frame
  OBVIOUS
<1>2. QED
  BY <1>1, SubSeqProperties

LEMMA ReleaseType ==
  ASSUME stack \in Seq(Frame), committed \subseteq Blocks \cup Queries, NEW name,
         Named(name) # {}, Release(name)
  PROVE  stack' \in Seq(Frame) /\ committed' \subseteq Blocks \cup Queries
<1>1. PICK i \in 1..Len(stack) : i = Innermost(name)
  BY InnermostIn
<1>2. CASE i = 1
  BY <1>1, <1>2, CommitType DEF Release
<1>3. CASE i # 1
  <2> DEFINE below == SubSeq(stack, 1, i - 1)
             frame == [below[i - 1] EXCEPT !.writes = below[i - 1].writes \cup WritesFrom(i)]
  <2>1. below \in Seq(Frame) /\ Len(below) = i - 1
    BY PrefixType
  <2>2. i - 1 \in 1..Len(below)
    BY <1>3, <2>1
  <2>3. below[i - 1] \in Frame
    BY <2>1, <2>2
  <2>4. frame \in Frame
    <3>1. WritesFrom(i) \subseteq Blocks \cup Queries
      BY WritesFromType
    <3> HIDE DEF below
    <3>2. QED
      BY <2>3, <3>1 DEF Frame
  <2>5. stack' = [below EXCEPT ![i - 1] = frame] /\ UNCHANGED committed
    BY <1>1, <1>3 DEF Release
  <2> HIDE DEF frame, below
  <2>6. QED
    BY <2>1, <2>2, <2>4, <2>5
<1>4. QED
  BY <1>2, <1>3

LEMMA DiscardType ==
  ASSUME stack \in Seq(Frame), NEW name, Discard(name)
  PROVE  stack' \in Seq(Frame)
BY InnermostIn, PrefixType DEF Discard

LEMMA TypeInit == Init => TypeOK
BY DEF Init, TypeOK, Call, Query

LEMMA CallPcType ==
  ASSUME calls \in [Blocks -> Call], NEW b \in Blocks,
         NEW pc \in {"waiting", "acquired", "running", "resolved", "threw"},
         calls' = [calls EXCEPT ![b].pc = pc]
  PROVE  calls' \in [Blocks -> Call]
BY DEF Call

LEMMA TypeStep == TypeOK /\ [Next]_vars => TypeOK'
<1> SUFFICES ASSUME TypeOK, [Next]_vars PROVE TypeOK'
  OBVIOUS
<1>1. ASSUME NEW b \in Blocks, Wait(b) \/ Acquire(b) PROVE TypeOK'
  BY <1>1, CallPcType DEF Wait, Acquire, TypeOK
<1>2. ASSUME NEW b \in Blocks, Begin(b) PROVE TypeOK'
  BY <1>2, CallPcType, SavepointType DEF Begin, TypeOK
<1>3. ASSUME NEW b \in Blocks, BeginThrows(b) PROVE TypeOK'
  <2>1. faults' \in Nat
    BY <1>3 DEF BeginThrows, TypeOK
  <2>2. calls' \in [Blocks -> Call]
    BY <1>3, CallPcType DEF BeginThrows, TypeOK
  <2>3. UNCHANGED <<held, stack, committed, queries, sweptBy>>
    BY <1>3 DEF BeginThrows
  <2>4. QED
    BY <2>1, <2>2, <2>3 DEF TypeOK
<1>4. ASSUME NEW b \in Blocks, NEW p \in Blocks, Nest(b, p) PROVE TypeOK'
  <2>1. calls[p].depth + 1 \in Nat
    BY DEF TypeOK, Call
  <2>2. stack' \in Seq(Frame)
    BY <1>4, <2>1, SavepointType DEF Nest, TypeOK
  <2> DEFINE r == [calls[b] EXCEPT !.pc = "running", !.parent = p, !.depth = calls[p].depth + 1]
  <2>3. r \in Call
    BY <2>1 DEF TypeOK, Call
  <2>4. calls' = [calls EXCEPT ![b] = r]
    BY <1>4 DEF Nest
  <2> HIDE DEF r
  <2>5. QED
    BY <1>4, <2>2, <2>3, <2>4 DEF Nest, TypeOK
<1>5. ASSUME NEW b \in Blocks, WriteInside(b) PROVE TypeOK'
  <2>1. calls' \in [Blocks -> Call]
    BY <1>5 DEF WriteInside, TypeOK, Call
  <2>2. stack' \in Seq(Frame) /\ committed' \subseteq Blocks \cup Queries
    BY <1>5, WriteType DEF WriteInside, TypeOK
  <2>3. QED
    BY <1>5, <2>1, <2>2 DEF WriteInside, TypeOK
<1>6. ASSUME NEW b \in Blocks, Resolve(b) PROVE TypeOK'
  <2>1. stack' \in Seq(Frame) /\ committed' \subseteq Blocks \cup Queries
    BY <1>6, CommitType, ReleaseType DEF Resolve, TypeOK
  <2>2. QED
    BY <1>6, <2>1, CallPcType DEF Resolve, Unlock, TypeOK
<1>7. ASSUME NEW b \in Blocks, Throw(b) PROVE TypeOK'
  <2>1. stack' \in Seq(Frame) /\ UNCHANGED committed
    <3>1. CASE Outermost(b)
      BY <1>7, <3>1 DEF Throw
    <3>2. CASE ~Outermost(b)
      <4>1. Discard(calls[b].depth)
        BY <1>7, <3>2 DEF Throw
      <4>2. UNCHANGED committed
        BY <4>1 DEF Discard
      <4>3. QED
        BY <4>1, <4>2, DiscardType DEF TypeOK
    <3>3. QED
      BY <3>1, <3>2
  <2>2. QED
    BY <1>7, <2>1, CallPcType DEF Throw, Unlock, TypeOK
<1>8. ASSUME NEW q \in Queries, Issue(q) PROVE TypeOK'
  <2>1. PICK pc \in {"passed", "gated"} : queries' = [queries EXCEPT ![q] = [pc |-> pc, saw |-> held]]
    BY <1>8 DEF Issue
  <2>2. [pc |-> pc, saw |-> held] \in Query
    BY DEF Query, TypeOK
  <2>3. QED
    BY <1>8, <2>1, <2>2 DEF Issue, TypeOK
<1>9. ASSUME NEW q \in Queries, Wake(q) PROVE TypeOK'
  BY <1>9 DEF Wake, TypeOK, Query
<1>10. ASSUME NEW q \in Queries, RunQuery(q) PROVE TypeOK'
  <2>1. queries' \in [Queries -> Query] /\ sweptBy' \in [Queries -> Blocks \cup {Nobody}]
    BY <1>10 DEF RunQuery, TypeOK, Query
  <2>2. stack' \in Seq(Frame) /\ committed' \subseteq Blocks \cup Queries
    BY <1>10, WriteType DEF RunQuery, TypeOK
  <2>3. QED
    BY <1>10, <2>1, <2>2 DEF RunQuery, TypeOK
<1>11. CASE UNCHANGED vars
  BY <1>11 DEF vars, TypeOK
<1>12. QED
  BY <1>1, <1>2, <1>3, <1>4, <1>5, <1>6, <1>7, <1>8, <1>9, <1>10, <1>11
  DEF Next, BlockStep, QueryStep

-----------------------------------------------------------------------------
(* The gate *)

GateInv == GateRemembers /\ GateHolds

LEMMA GateInit == Init => GateInv
BY DEF Init, GateInv, GateRemembers, GateHolds

\* Once it has started, a call of atomic never acquires the lock again.
LEMMA GateKept ==
  ASSUME TypeOK, GateInv, UNCHANGED <<queries, sweptBy>>, held' \in {held, Nobody},
         \A b \in Blocks : Started(b) => Started(b)'
  PROVE  GateInv'
BY TransactionConstants DEF TransactionConstants, GateInv, GateRemembers, GateHolds, TypeOK, Query

LEMMA GateStep == TypeOK /\ GateInv /\ [Next]_vars => GateInv'
<1> SUFFICES ASSUME TypeOK, GateInv, [Next]_vars PROVE GateInv'
  OBVIOUS
<1> USE TransactionConstants DEF TransactionConstants
<1>1. ASSUME NEW b \in Blocks, NEW pc \in {"waiting", "acquired", "running", "resolved", "threw"},
             calls' = [calls EXCEPT ![b].pc = pc], pc # "waiting" \/ calls[b].pc = "idle"
      PROVE  \A c \in Blocks : Started(c) => Started(c)'
  BY <1>1 DEF Started, TypeOK, Call
<1>2. ASSUME NEW b \in Blocks, Wait(b) PROVE GateInv'
  BY <1>1, <1>2, GateKept DEF Wait
<1>3. ASSUME NEW b \in Blocks, Acquire(b) PROVE GateInv'
  <2>1. held' = b /\ ~Started(b) /\ Started(b)' /\ UNCHANGED <<queries, sweptBy>>
    BY <1>3 DEF Acquire, Started, TypeOK, Call
  <2>2. \A c \in Blocks : Started(c) => Started(c)'
    BY <1>1, <1>3 DEF Acquire
  <2>3. \A q \in Queries : queries[q].saw \in Blocks \cup {Nobody}
    BY DEF TypeOK, Query
  <2>4. QED
    BY <2>1, <2>2, <2>3 DEF GateInv, GateRemembers, GateHolds
<1>4. ASSUME NEW b \in Blocks, Begin(b) \/ BeginThrows(b) PROVE GateInv'
  BY <1>1, <1>4, GateKept DEF Begin, BeginThrows
<1>5. ASSUME NEW b \in Blocks, NEW p \in Blocks, Nest(b, p) PROVE GateInv'
  <2>1. calls'[b].pc = "running" /\ \A c \in Blocks : c # b => calls'[c] = calls[c]
    BY <1>5 DEF Nest, TypeOK, Call
  <2>2. \A c \in Blocks : Started(c) => Started(c)'
    BY <2>1 DEF Started
  <2>3. QED
    BY <1>5, <2>2, GateKept DEF Nest
<1>6. ASSUME NEW b \in Blocks, WriteInside(b) PROVE GateInv'
  <2>1. \A c \in Blocks : calls'[c].pc = calls[c].pc
    BY <1>6 DEF WriteInside, TypeOK, Call
  <2>2. QED
    BY <1>6, <2>1, GateKept DEF WriteInside, Started
<1>7. ASSUME NEW b \in Blocks, Resolve(b) \/ Throw(b) PROVE GateInv'
  <2>1. held' \in {held, Nobody} /\ UNCHANGED <<queries, sweptBy>>
    BY <1>7 DEF Resolve, Throw, Unlock
  <2>2. \A c \in Blocks : Started(c) => Started(c)'
    BY <1>1, <1>7 DEF Resolve, Throw
  <2>3. QED
    BY <2>1, <2>2, GateKept
<1>8. ASSUME NEW q \in Queries, Issue(q) PROVE GateInv'
  <2>1. \A b \in Blocks : Started(b)' <=> Started(b)
    BY <1>8 DEF Issue, Started
  <2>2. queries'[q].saw = held /\ (held # Nobody => queries'[q].pc = "gated")
        /\ \A o \in Queries : o # q => queries'[o] = queries[o]
    BY <1>8 DEF Issue, TypeOK, Query
  <2>3. UNCHANGED <<held, sweptBy>> /\ held \in Blocks \cup {Nobody} /\ queries[q].pc = "idle"
    BY <1>8 DEF Issue, TypeOK
  <2>4. GateRemembers'
    <3>1. held' # Nobody => Started(held)'
      BY <2>1, <2>3 DEF GateInv, GateRemembers
    <3>2. ASSUME NEW o \in Queries, o # q
          PROVE  /\ queries'[o].pc # "idle" /\ queries'[o].saw # Nobody =>
                      /\ Started(queries[o].saw)'
                      /\ queries'[o].pc = "passed" => held' # queries'[o].saw
                 /\ queries'[o].pc # "done" => sweptBy'[o] = Nobody
      BY <2>1, <2>2, <2>3, <3>2 DEF GateInv, GateRemembers, TypeOK, Query
    <3>3. sweptBy'[q] = Nobody
      BY <2>3 DEF GateInv, GateRemembers
    <3>4. QED
      BY <2>2, <2>3, <3>1, <3>2, <3>3 DEF GateRemembers
  <2>5. GateHolds'
    BY <2>2, <2>3 DEF GateInv, GateRemembers, GateHolds
  <2>6. QED
    BY <2>4, <2>5 DEF GateInv
<1>9. ASSUME NEW q \in Queries, Wake(q) PROVE GateInv'
  <2>1. \A b \in Blocks : Started(b)' <=> Started(b)
    BY <1>9 DEF Wake, Started
  <2>2. queries'[q].saw = queries[q].saw /\ held # queries[q].saw /\ queries[q].pc = "gated"
        /\ \A o \in Queries : o # q => queries'[o] = queries[o]
    BY <1>9 DEF Wake, TypeOK, Query
  <2>3. UNCHANGED <<held, sweptBy>>
    BY <1>9 DEF Wake
  <2>4. QED
    BY <2>1, <2>2, <2>3 DEF GateInv, GateRemembers, GateHolds, TypeOK, Query
<1>10. ASSUME NEW q \in Queries, RunQuery(q) PROVE GateInv'
  <2>1. \A b \in Blocks : Started(b)' <=> Started(b)
    BY <1>10 DEF RunQuery, Started
  <2>2. queries'[q].saw = queries[q].saw /\ queries[q].pc = "passed" /\ queries'[q].pc = "done"
        /\ \A o \in Queries : o # q => queries'[o] = queries[o]
    BY <1>10 DEF RunQuery, TypeOK, Query
  <2>3. /\ sweptBy'[q] \in {Nobody, held} /\ UNCHANGED held
        /\ \A o \in Queries : o # q => sweptBy'[o] = sweptBy[o]
    BY <1>10 DEF RunQuery, TypeOK
  <2>4. QED
    BY <2>1, <2>2, <2>3 DEF GateInv, GateRemembers, GateHolds, TypeOK, Query
<1>11. CASE UNCHANGED vars
  BY <1>11, GateKept DEF vars, Started
<1>12. QED
  BY <1>2, <1>3, <1>4, <1>5, <1>6, <1>7, <1>8, <1>9, <1>10, <1>11 DEF Next, BlockStep, QueryStep

\* The lock, the frames on the connection and the calls keep their types, for any
\* number of blocks, nested one in the other or side by side.
THEOREM TypeCorrect == Spec => []TypeOK
<1>1. Init => TypeOK
  BY TypeInit
<1>2. TypeOK /\ [Next]_vars => TypeOK'
  BY TypeStep
<1>3. QED
  BY <1>1, <1>2, PTL DEF Spec

\* transactionGate: no query is swept into the transaction it found open.
THEOREM GateSound == Spec => []GateHolds
<1>1. Init => TypeOK /\ GateInv
  BY TypeInit, GateInit
<1>2. TypeOK /\ GateInv /\ [Next]_vars => (TypeOK /\ GateInv)'
  BY TypeStep, GateStep
<1>3. GateInv => GateHolds
  BY DEF GateInv
<1>4. QED
  BY <1>1, <1>2, <1>3, PTL DEF Spec

-----------------------------------------------------------------------------
(* The frames, where every call of atomic is awaited at once *)

\* The running blocks are one inside the other, under the one that holds the lock.
Chained == \A b \in Blocks : calls[b].pc = "running" =>
  /\ calls[b].depth < Len(stack)
  /\ calls[b].depth = 0 <=> calls[b].parent = Nobody
  /\ calls[b].parent = Nobody => held = b
  /\ calls[b].parent # Nobody => /\ calls[calls[b].parent].pc = "running"
                                 /\ calls[b].depth = calls[calls[b].parent].depth + 1
  /\ \A c \in Blocks : calls[c].pc = "running" /\ calls[c].depth = calls[b].depth => c = b

\* Each frame is that of a running block.
Framed == \A i \in 1..Len(stack) :
  stack[i].name = i - 1 /\ \E b \in Blocks : calls[b].pc = "running" /\ calls[b].depth = i - 1

\* The lock belongs to a block that no other called, before BEGIN and after it.
Locked ==
  /\ held # Nobody => calls[held].parent = Nobody /\ calls[held].pc \notin {"idle", "waiting"}
  /\ held = Nobody \/ calls[held].pc # "running" => stack = <<>>
  /\ \A b \in Blocks : calls[b].pc \in {"idle", "waiting", "acquired"} =>
       calls[b].parent = Nobody /\ calls[b].depth = 0
  /\ \A b \in Blocks : calls[b].pc = "acquired" => held = b

Nested == Locked /\ Chained /\ Framed

LEMMA NestedInit == Init => Nested
BY DEF Init, Nested, Locked, Chained, Framed

LEMMA CallTyped ==
  ASSUME TypeOK, NEW b \in Blocks
  PROVE  /\ calls[b] \in Call /\ calls[b].depth \in Nat /\ calls[b].parent \in Blocks \cup {Nobody}
         /\ Nobody \notin Blocks /\ Len(stack) \in Nat
BY TransactionConstants DEF TransactionConstants, TypeOK, Call

\* A block that awaits no other is the innermost.
LEMMA AloneIsInnermost ==
  ASSUME TypeOK, Nested, NEW b \in Blocks, Running(b), Alone(b)
  PROVE  calls[b].depth = Len(stack) - 1
<1>1. calls[b].depth \in Nat /\ Len(stack) \in Nat /\ calls[b].depth < Len(stack)
  BY CallTyped DEF Nested, Chained, Running
<1>2. SUFFICES ASSUME calls[b].depth + 1 < Len(stack) PROVE FALSE
  BY <1>1
<1>3. calls[b].depth + 2 \in 1..Len(stack)
  BY <1>1, <1>2
<1>4. PICK c \in Blocks : calls[c].pc = "running" /\ calls[c].depth = calls[b].depth + 1
  <2>1. \E c \in Blocks : calls[c].pc = "running" /\ calls[c].depth = (calls[b].depth + 2) - 1
    BY <1>3 DEF Nested, Framed
  <2>2. QED
    BY <1>1, <2>1
<1>5. calls[c].parent \in Blocks /\ calls[calls[c].parent].pc = "running"
      /\ calls[c].depth = calls[calls[c].parent].depth + 1
  BY <1>1, <1>4, CallTyped DEF Nested, Chained
<1>6. calls[calls[c].parent].depth = calls[b].depth
  <2>1. calls[calls[c].parent].depth \in Nat
    BY <1>5, CallTyped
  <2>2. QED
    BY <1>1, <1>4, <1>5, <2>1
<1>7. calls[c].parent = b
  BY <1>5, <1>6 DEF Nested, Chained, Running
<1>8. QED
  BY <1>4, <1>7 DEF Alone, Called, Running

\* Statements and queries leave the frames where they are.
LEMMA NestedSame ==
  ASSUME TypeOK, TypeOK', Nested, UNCHANGED held,
         \A b \in Blocks : /\ calls'[b].parent = calls[b].parent /\ calls'[b].depth = calls[b].depth
                           /\ calls'[b].pc = calls[b].pc,
         Len(stack') = Len(stack), \A i \in 1..Len(stack) : stack'[i].name = stack[i].name
  PROVE  Nested'
<1>1. stack = <<>> => stack' = <<>>
  BY DEF TypeOK
<1>2. \A b \in Blocks : calls[b].parent \in Blocks \cup {Nobody}
  BY CallTyped
<1>3. held \in Blocks \cup {Nobody}
  BY DEF TypeOK
<1>4. Locked'
  BY <1>1, <1>3 DEF Nested, Locked
<1>5. Chained'
  BY <1>2 DEF Nested, Chained
<1>6. Framed'
  BY DEF Nested, Framed
<1>7. QED
  BY <1>4, <1>5, <1>6 DEF Nested

LEMMA WriteKeepsFrames ==
  ASSUME TypeOK, NEW w, WriteTo(w)
  PROVE  Len(stack') = Len(stack) /\ \A i \in 1..Len(stack) : stack'[i].name = stack[i].name
<1>1. CASE stack = <<>>
  BY <1>1 DEF WriteTo
<1>2. CASE stack # <<>>
  <2> DEFINE n == Len(stack)
             frame == [stack[n] EXCEPT !.writes = stack[n].writes \cup {w}]
  <2>1. stack \in Seq(Frame) /\ n \in 1..Len(stack)
    BY <1>2 DEF TypeOK
  <2>2. stack[n] \in Frame
    BY <2>1
  <2>3. frame.name = stack[n].name
    BY <2>2 DEF Frame
  <2>4. stack' = [stack EXCEPT ![n] = frame]
    BY <1>2 DEF WriteTo
  <2> HIDE DEF frame, n
  <2>5. QED
    BY <2>1, <2>3, <2>4
<1>3. QED
  BY <1>1, <1>2

\* A step that changes one call, while no block runs.
LEMMA NestedQuiet ==
  ASSUME TypeOK, TypeOK', Nested, NEW b \in Blocks, NEW pc \in {"waiting", "acquired", "threw"},
         calls' = [calls EXCEPT ![b].pc = pc], calls[b].pc \in {"idle", "waiting", "acquired"},
         UNCHANGED stack, held' = held \/ (pc = "acquired" /\ held = Nobody /\ held' = b),
         pc = "acquired" => held' = b, pc = "threw" => held = b,
         pc = "waiting" => calls[b].pc = "idle"
  PROVE  Nested'
<1>1. calls[b] \in Call /\ calls[b].parent = Nobody /\ calls[b].depth = 0
  BY CallTyped DEF Nested, Locked
<1>2. /\ calls'[b].pc = pc /\ calls'[b].parent = Nobody /\ calls'[b].depth = 0
      /\ \A c \in Blocks : c # b => calls'[c] = calls[c]
      /\ \A c \in Blocks : calls'[c].pc = "running" <=> calls[c].pc = "running"
      /\ \A c \in Blocks : calls'[c].parent = calls[c].parent /\ calls'[c].depth = calls[c].depth
  BY <1>1 DEF TypeOK, Call
<1>3. held \in Blocks \cup {Nobody} /\ held' \in Blocks \cup {Nobody} /\ Nobody \notin Blocks
  BY CallTyped DEF TypeOK
<1>4. Locked'
  BY <1>1, <1>2, <1>3 DEF Nested, Locked
<1>5. held = Nobody => \A c \in Blocks : calls[c].pc # "running"
  <2>1. ASSUME held = Nobody, NEW c \in Blocks, calls[c].pc = "running" PROVE FALSE
    <3>1. Len(stack) = 0
      BY <2>1 DEF Nested, Locked
    <3>2. calls[c].depth \in Nat /\ calls[c].depth < Len(stack)
      BY <2>1, CallTyped DEF Nested, Chained
    <3>3. QED
      BY <3>1, <3>2
  <2>2. QED
    BY <2>1
<1>6. \A c \in Blocks : calls[c].parent \in Blocks \cup {Nobody}
  BY CallTyped
<1>7. Chained'
  BY <1>2, <1>5, <1>6 DEF Nested, Chained
<1>8. Framed'
  BY <1>2 DEF Nested, Framed
<1>9. QED
  BY <1>4, <1>7, <1>8 DEF Nested

LEMMA SavepointFrames ==
  ASSUME TypeOK, NEW name, Savepoint(name)
  PROVE  /\ Len(stack') = Len(stack) + 1 /\ stack'[Len(stack) + 1].name = name
         /\ \A i \in 1..Len(stack) : stack'[i] = stack[i]
<1>1. stack \in Seq(Frame)
  BY DEF TypeOK
<1>2. stack' = Append(stack, [name |-> name, writes |-> {}])
  BY DEF Savepoint
<1>3. QED
  BY <1>1, <1>2

\* A block opens its frame above the others.
LEMMA NestedOpens ==
  ASSUME TypeOK, TypeOK', Nested, NEW b \in Blocks, UNCHANGED held,
         calls[b].pc \in {"idle", "acquired"},
         calls'[b].pc = "running", \A c \in Blocks : c # b => calls'[c] = calls[c],
         calls'[b].depth = Len(stack), Savepoint(Len(stack)),
         calls'[b].parent = Nobody => held = b /\ stack = <<>>,
         calls'[b].parent # Nobody => /\ held # b /\ calls[calls'[b].parent].pc = "running"
                                      /\ calls'[b].depth = calls[calls'[b].parent].depth + 1
  PROVE  Nested'
<1>1. /\ Len(stack') = Len(stack) + 1 /\ stack'[Len(stack) + 1].name = Len(stack)
      /\ \A i \in 1..Len(stack) : stack'[i] = stack[i]
  BY SavepointFrames
<1>2. /\ Len(stack) \in Nat /\ Nobody \notin Blocks /\ held \in Blocks \cup {Nobody}
      /\ calls'[b].parent \in Blocks \cup {Nobody}
      /\ \A c \in Blocks : calls[c].depth \in Nat /\ calls[c].parent \in Blocks \cup {Nobody}
  BY CallTyped DEF TypeOK, Call
<1>3. \A c \in Blocks : calls'[c].pc = "running" /\ c # b =>
        calls[c].pc = "running" /\ calls[c].depth < Len(stack)
  BY DEF Nested, Chained
<1>4. stack # <<>> => held # Nobody /\ calls[held].pc = "running"
  BY DEF Nested, Locked
<1>5. calls'[b].parent # Nobody => stack # <<>>
  <2> SUFFICES ASSUME calls'[b].parent # Nobody, stack = <<>> PROVE FALSE
    OBVIOUS
  <2>1. Len(stack) = 0
    OBVIOUS
  <2>2. QED
    BY <1>2, <2>1 DEF Nested, Chained
<1>6. Locked'
  <2>1. held # Nobody /\ calls'[held].pc = "running" /\ calls'[held].parent = Nobody
    <3>1. CASE calls'[b].parent = Nobody
      BY <1>2, <3>1
    <3>2. CASE calls'[b].parent # Nobody
      BY <1>2, <1>4, <1>5, <3>2 DEF Nested, Locked
    <3>3. QED
      BY <3>1, <3>2
  <2>2. QED
    BY <2>1 DEF Nested, Locked
<1>7. Chained'
  <2>1. ASSUME NEW c \in Blocks, calls'[c].pc = "running"
        PROVE  /\ calls'[c].depth < Len(stack')
               /\ calls'[c].depth = 0 <=> calls'[c].parent = Nobody
               /\ calls'[c].parent = Nobody => held' = c
               /\ calls'[c].parent # Nobody => /\ calls'[calls'[c].parent].pc = "running"
                                               /\ calls'[c].depth = calls'[calls'[c].parent].depth + 1
               /\ \A d \in Blocks : calls'[d].pc = "running" /\ calls'[d].depth = calls'[c].depth => d = c
    <3>1. CASE c = b
      <4>1. calls'[b].depth = 0 <=> calls'[b].parent = Nobody
        <5>1. stack = <<>> <=> Len(stack) = 0
          BY DEF TypeOK
        <5>2. QED
          BY <1>5, <5>1
      <4>2. calls'[b].parent # Nobody =>
              calls'[calls'[b].parent].pc = "running"
              /\ calls'[b].depth = calls'[calls'[b].parent].depth + 1
        BY <1>2
      <4>3. \A d \in Blocks : calls'[d].pc = "running" /\ calls'[d].depth = calls'[b].depth => d = b
        BY <1>2, <1>3
      <4>4. QED
        BY <1>1, <1>2, <3>1, <4>1, <4>2, <4>3
    <3>2. CASE c # b
      <4>1. calls'[c] = calls[c] /\ calls[c].pc = "running" /\ calls[c].depth < Len(stack)
        BY <1>3, <2>1, <3>2
      <4>2. calls[c].depth = 0 <=> calls[c].parent = Nobody
        BY <4>1 DEF Nested, Chained
      <4>3. calls[c].parent = Nobody => held = c
        BY <4>1 DEF Nested, Chained
      <4>4. calls[c].parent # Nobody =>
              calls'[calls[c].parent].pc = "running"
              /\ calls[c].depth = calls'[calls[c].parent].depth + 1
        <5>1. calls[c].parent # Nobody =>
                calls[calls[c].parent].pc = "running"
                /\ calls[c].depth = calls[calls[c].parent].depth + 1
          BY <4>1 DEF Nested, Chained
        <5>2. QED
          BY <1>2, <5>1
      <4>5. \A d \in Blocks : calls'[d].pc = "running" /\ calls'[d].depth = calls[c].depth => d = c
        BY <1>2, <1>3, <4>1 DEF Nested, Chained
      <4>6. QED
        BY <1>1, <1>2, <4>1, <4>2, <4>3, <4>4, <4>5
    <3>3. QED
      BY <3>1, <3>2
  <2>2. QED
    BY <2>1 DEF Chained
<1>8. Framed'
  <2>1. ASSUME NEW i \in 1..Len(stack')
        PROVE  stack'[i].name = i - 1
               /\ \E c \in Blocks : calls'[c].pc = "running" /\ calls'[c].depth = i - 1
    <3>1. CASE i = Len(stack) + 1
      BY <1>1, <1>2, <3>1
    <3>2. CASE i # Len(stack) + 1
      <4>1. i \in 1..Len(stack)
        BY <1>1, <1>2, <3>2
      <4>2. PICK c \in Blocks : calls[c].pc = "running" /\ calls[c].depth = i - 1
        BY <4>1 DEF Nested, Framed
      <4>3. calls'[c] = calls[c]
        BY <4>2
      <4>4. stack'[i].name = i - 1
        BY <1>1, <4>1 DEF Nested, Framed
      <4>5. QED
        BY <4>2, <4>3, <4>4
    <3>3. QED
      BY <3>1, <3>2
  <2>2. QED
    BY <2>1 DEF Framed
<1>9. QED
  BY <1>6, <1>7, <1>8 DEF Nested

\* The innermost block ends and takes its frame with it.
LEMMA NestedCloses ==
  ASSUME TypeOK, TypeOK', Nested, NEW b \in Blocks, calls[b].pc = "running",
         calls[b].depth = Len(stack) - 1, NEW pc \in {"resolved", "threw"},
         calls' = [calls EXCEPT ![b].pc = pc],
         Len(stack') = Len(stack) - 1,
         \A i \in 1..(Len(stack) - 1) : stack'[i].name = stack[i].name,
         held' = IF calls[b].parent = Nobody THEN Nobody ELSE held
  PROVE  Nested'
<1>1. /\ Len(stack) \in Nat /\ Nobody \notin Blocks /\ held \in Blocks \cup {Nobody}
      /\ \A c \in Blocks : calls[c].depth \in Nat /\ calls[c].parent \in Blocks \cup {Nobody}
  BY CallTyped DEF TypeOK, Call
<1>2. /\ calls'[b].pc = pc /\ calls'[b].parent = calls[b].parent
      /\ \A c \in Blocks : c # b => calls'[c] = calls[c]
  BY CallTyped DEF TypeOK, Call
<1>3. \A c \in Blocks : calls'[c].pc = "running" =>
        c # b /\ calls'[c] = calls[c] /\ calls[c].pc = "running" /\ calls[c].depth < Len(stack) - 1
  <2>1. ASSUME NEW c \in Blocks, calls'[c].pc = "running"
        PROVE  c # b /\ calls'[c] = calls[c] /\ calls[c].pc = "running"
    BY <1>2, <2>1
  <2>2. ASSUME NEW c \in Blocks, c # b, calls[c].pc = "running" PROVE calls[c].depth < Len(stack) - 1
    <3>1. calls[c].depth < Len(stack) /\ calls[c].depth # calls[b].depth
      BY <2>2 DEF Nested, Chained
    <3>2. QED
      BY <1>1, <3>1
  <2>3. QED
    BY <2>1, <2>2
<1>4. CASE calls[b].parent = Nobody
  <2>1. calls[b].depth = 0 /\ Len(stack) = 1 /\ held = b
    BY <1>1, <1>4 DEF Nested, Chained
  <2>2. stack' = <<>> /\ held' = Nobody
    BY <1>4, <2>1 DEF TypeOK
  <2>3. \A c \in Blocks : calls'[c].pc # "running"
    BY <1>1, <1>3, <2>1
  <2>4. Locked'
    <3>1. \A c \in Blocks : calls'[c].pc \in {"idle", "waiting", "acquired"} => c # b
      BY <1>2
    <3>2. \A c \in Blocks : calls[c].pc = "acquired" => c = b
      BY <2>1 DEF Nested, Locked
    <3>3. QED
      BY <1>2, <2>2, <3>1, <3>2 DEF Nested, Locked
  <2>5. Chained' /\ Framed'
    <3>1. 1..Len(stack') = {}
      <4>1. Len(stack') = 0
        BY <2>2
      <4>2. 1..0 = {}
        OBVIOUS
      <4>3. QED
        BY <4>1, <4>2
    <3>2. Chained'
      BY <2>3 DEF Chained
    <3>3. Framed'
      BY <3>1 DEF Framed
    <3>4. QED
      BY <3>2, <3>3
  <2>6. QED
    BY <2>4, <2>5 DEF Nested
<1>5. CASE calls[b].parent # Nobody
  <2>1. held' = held
    BY <1>5
  <2>2. stack # <<>>
    BY <1>1
  <2>3. held # Nobody /\ calls[held].pc = "running" /\ calls[held].parent = Nobody /\ held # b
    BY <1>5, <2>2 DEF Nested, Locked
  <2>4. Locked'
    <3>1. calls'[held] = calls[held]
      BY <1>1, <1>2, <2>3
    <3>2. \A c \in Blocks : calls'[c].pc \in {"idle", "waiting", "acquired"} =>
            c # b /\ calls'[c] = calls[c]
      BY <1>2
    <3>3. QED
      BY <2>1, <2>3, <3>1, <3>2 DEF Nested, Locked
  <2>5. Chained'
    <3>1. ASSUME NEW c \in Blocks, calls'[c].pc = "running"
          PROVE  /\ calls'[c].depth < Len(stack')
                 /\ calls'[c].depth = 0 <=> calls'[c].parent = Nobody
                 /\ calls'[c].parent = Nobody => held' = c
                 /\ calls'[c].parent # Nobody => /\ calls'[calls'[c].parent].pc = "running"
                                                 /\ calls'[c].depth = calls'[calls'[c].parent].depth + 1
                 /\ \A d \in Blocks : calls'[d].pc = "running" /\ calls'[d].depth = calls'[c].depth => d = c
      <4>1. c # b /\ calls'[c] = calls[c] /\ calls[c].pc = "running" /\ calls[c].depth < Len(stack) - 1
        BY <1>3, <3>1
      <4>2. /\ calls[c].depth = 0 <=> calls[c].parent = Nobody
            /\ calls[c].parent = Nobody => held = c
            /\ calls[c].parent # Nobody => /\ calls[calls[c].parent].pc = "running"
                                           /\ calls[c].depth = calls[calls[c].parent].depth + 1
        BY <4>1 DEF Nested, Chained
      <4>3. calls[c].parent # b
        <5>1. ASSUME calls[c].parent = b PROVE FALSE
          BY <1>1, <4>1, <4>2, <5>1
        <5>2. QED
          BY <5>1
      <4>4. calls[c].parent # Nobody => calls'[calls[c].parent] = calls[calls[c].parent]
        BY <1>1, <1>2, <4>3
      <4>5. \A d \in Blocks : calls'[d].pc = "running" /\ calls'[d].depth = calls[c].depth => d = c
        BY <1>3, <4>1 DEF Nested, Chained
      <4>6. QED
        BY <2>1, <4>1, <4>2, <4>4, <4>5
    <3>2. QED
      BY <3>1 DEF Chained
  <2>6. Framed'
    <3>1. ASSUME NEW i \in 1..Len(stack')
          PROVE  stack'[i].name = i - 1
                 /\ \E c \in Blocks : calls'[c].pc = "running" /\ calls'[c].depth = i - 1
      <4>1. i \in 1..Len(stack) /\ i \in 1..(Len(stack) - 1) /\ i - 1 # calls[b].depth
        BY <1>1
      <4>2. PICK c \in Blocks : calls[c].pc = "running" /\ calls[c].depth = i - 1
        BY <4>1 DEF Nested, Framed
      <4>3. calls'[c] = calls[c]
        BY <1>2, <4>1, <4>2
      <4>4. stack'[i].name = i - 1
        BY <4>1 DEF Nested, Framed
      <4>5. QED
        BY <4>2, <4>3, <4>4
    <3>2. QED
      BY <3>1 DEF Framed
  <2>7. QED
    BY <2>4, <2>5, <2>6 DEF Nested
<1>6. QED
  BY <1>4, <1>5

\* With frames named after their depth, a name finds its own frame.
LEMMA InnermostIsDepth ==
  ASSUME TypeOK, Nested, NEW d \in Nat, d < Len(stack)
  PROVE  Innermost(d) = d + 1 /\ Named(d) # {}
<1>1. Named(d) = {d + 1}
  BY DEF Named, Nested, Framed, TypeOK
<1>2. QED
  BY <1>1 DEF Innermost

LEMMA EndClosesFrame ==
  ASSUME TypeOK, Nested, NEW b \in Blocks, calls[b].pc = "running",
         calls[b].depth = Len(stack) - 1,
         \/ calls[b].parent = Nobody /\ stack' = <<>>
         \/ calls[b].parent # Nobody /\ (Release(calls[b].depth) \/ Discard(calls[b].depth))
  PROVE  /\ Len(stack') = Len(stack) - 1
         /\ \A i \in 1..(Len(stack) - 1) : stack'[i].name = stack[i].name
<1> DEFINE d == calls[b].depth
           below == SubSeq(stack, 1, d)
<1>1. d \in Nat /\ Len(stack) \in Nat /\ d < Len(stack) /\ stack \in Seq(Frame)
      /\ (d = 0 <=> calls[b].parent = Nobody)
  BY CallTyped DEF Nested, Chained, TypeOK
<1>2. CASE calls[b].parent = Nobody
  <2>1. stack' = <<>> /\ d = 0
    BY <1>1, <1>2
  <2>2. Len(stack) = 1 /\ 1..(Len(stack) - 1) = {}
    BY <1>1, <2>1
  <2>3. Len(stack') = Len(stack) - 1
    BY <2>1, <2>2
  <2>4. QED
    BY <2>2, <2>3
<1>3. Innermost(d) = d + 1 /\ Named(d) # {} /\ (d + 1) - 1 = d
  BY <1>1, InnermostIsDepth
<1>4. below \in Seq(Frame) /\ Len(below) = d /\ \A i \in 1..d : below[i] = stack[i]
  <2>1. d + 1 \in 1..Len(stack)
    BY <1>1
  <2>2. below \in Seq(Frame) /\ Len(below) = d
    <3> HIDE DEF d
    <3>1. QED
      BY <1>1, <2>1, <1>3, PrefixType
  <2>3. \A i \in 1..d : below[i] = stack[i]
    <3> HIDE DEF d
    <3>1. QED
      BY <1>1, SubSeqProperties
  <2>4. QED
    BY <2>2, <2>3
<1>5. CASE calls[b].parent # Nobody /\ Discard(d)
  <2>1. stack' = below
    BY <1>3, <1>5 DEF Discard
  <2> HIDE DEF d, below
  <2>2. Len(stack) - 1 = d
    BY DEF d
  <2>3. QED
    BY <1>4, <2>1, <2>2
<1>6. CASE calls[b].parent # Nobody /\ Release(d)
  <2>1. d + 1 # 1 /\ d \in 1..d
    <3> HIDE DEF d
    <3>1. d \in Nat /\ d # 0
      BY <1>1, <1>6
    <3>2. QED
      BY <3>1
  <2> DEFINE frame == [below[d] EXCEPT !.writes = below[d].writes \cup WritesFrom(d + 1)]
  <2>2. stack' = [below EXCEPT ![d] = frame]
    BY <1>3, <1>6, <2>1 DEF Release
  <2>3. Len(stack) - 1 = d
    OBVIOUS
  <2> HIDE DEF below, d
  <2>4. below[d] \in Frame
    BY <1>4, <2>1
  <2>5. frame.name = below[d].name
    BY <2>4 DEF Frame
  <2> HIDE DEF frame
  <2>6. QED
    BY <1>4, <2>1, <2>2, <2>3, <2>5
<1>7. QED
  BY <1>2, <1>5, <1>6

LEMMA NestedStep == ~Parallel /\ TypeOK /\ Nested /\ [Next]_vars => Nested'
<1> SUFFICES ASSUME ~Parallel, TypeOK, Nested, [Next]_vars PROVE Nested'
  OBVIOUS
<1>1. TypeOK'
  BY TypeStep
<1>2. ASSUME NEW b \in Blocks, Wait(b) PROVE Nested'
  BY <1>1, <1>2, NestedQuiet DEF Wait
<1>3. ASSUME NEW b \in Blocks, Acquire(b) PROVE Nested'
  BY <1>1, <1>3, NestedQuiet DEF Acquire
<1>4. ASSUME NEW b \in Blocks, BeginThrows(b) PROVE Nested'
  <2>1. held = b
    BY <1>4 DEF BeginThrows, Nested, Locked
  <2>2. QED
    BY <1>1, <1>4, <2>1, NestedQuiet DEF BeginThrows
<1>5. ASSUME NEW b \in Blocks, Begin(b) PROVE Nested'
  <2>1. held = b /\ calls[b].parent = Nobody /\ calls[b].depth = 0 /\ Len(stack) = 0
    BY <1>5 DEF Begin, Nested, Locked
  <2>2. /\ calls'[b].pc = "running" /\ calls'[b].parent = Nobody /\ calls'[b].depth = 0
        /\ \A c \in Blocks : c # b => calls'[c] = calls[c]
    BY <1>5, <2>1, CallTyped DEF Begin, TypeOK, Call
  <2>3. QED
    BY <1>1, <1>5, <2>1, <2>2, NestedOpens DEF Begin
<1>6. ASSUME NEW b \in Blocks, NEW p \in Blocks, Nest(b, p) PROVE Nested'
  <2>1. calls[p].depth = Len(stack) - 1 /\ calls[p].pc = "running"
    BY <1>6, AloneIsInnermost DEF Nest, Free, Running
  <2>2. calls[p].depth + 1 = Len(stack)
    BY <2>1, CallTyped
  <2>3. held # b
    BY <1>6, TransactionConstants DEF Nest, Nested, Locked, TransactionConstants
  <2>4. /\ calls'[b].pc = "running" /\ calls'[b].parent = p /\ calls'[b].depth = calls[p].depth + 1
        /\ \A c \in Blocks : c # b => calls'[c] = calls[c]
    BY <1>6, CallTyped DEF Nest, TypeOK, Call
  <2>5. p # Nobody /\ Savepoint(Len(stack)) /\ UNCHANGED held /\ calls[b].pc = "idle"
    BY <1>6, <2>2, TransactionConstants DEF Nest, TransactionConstants
  <2>6. QED
    BY <1>1, <2>1, <2>2, <2>3, <2>4, <2>5, NestedOpens
<1>7. ASSUME NEW b \in Blocks, WriteInside(b) PROVE Nested'
  <2>1. \A c \in Blocks : /\ calls'[c].parent = calls[c].parent /\ calls'[c].depth = calls[c].depth
                          /\ calls'[c].pc = calls[c].pc
    BY <1>7 DEF WriteInside, TypeOK, Call
  <2>2. QED
    BY <1>1, <1>7, <2>1, NestedSame, WriteKeepsFrames DEF WriteInside
<1>8. ASSUME NEW b \in Blocks, Resolve(b) PROVE Nested'
  <2>1. calls[b].pc = "running" /\ calls[b].depth = Len(stack) - 1
    BY <1>8, AloneIsInnermost DEF Resolve, Running
  <2>2. Len(stack') = Len(stack) - 1 /\ \A i \in 1..(Len(stack) - 1) : stack'[i].name = stack[i].name
    BY <1>8, <2>1, EndClosesFrame DEF Resolve, Outermost, CommitAll
  <2>3. QED
    BY <1>1, <1>8, <2>1, <2>2, NestedCloses DEF Resolve, Unlock, Outermost
<1>9. ASSUME NEW b \in Blocks, Throw(b) PROVE Nested'
  <2>1. calls[b].pc = "running" /\ calls[b].depth = Len(stack) - 1
    BY <1>9, AloneIsInnermost DEF Throw, Running
  <2>2. Len(stack') = Len(stack) - 1 /\ \A i \in 1..(Len(stack) - 1) : stack'[i].name = stack[i].name
    BY <1>9, <2>1, EndClosesFrame DEF Throw, Outermost
  <2>3. QED
    BY <1>1, <1>9, <2>1, <2>2, NestedCloses DEF Throw, Unlock, Outermost
<1>10. ASSUME NEW q \in Queries, QueryStep(q) PROVE Nested'
  <2>1. UNCHANGED <<held, calls>>
    BY <1>10 DEF QueryStep, Issue, Wake, RunQuery
  <2>2. WriteTo(q) \/ UNCHANGED stack
    BY <1>10 DEF QueryStep, Issue, Wake, RunQuery
  <2>3. QED
    BY <1>1, <2>1, <2>2, NestedSame, WriteKeepsFrames
<1>11. CASE UNCHANGED vars
  BY <1>1, <1>11, NestedSame DEF vars
<1>12. QED
  BY <1>2, <1>3, <1>4, <1>5, <1>6, <1>7, <1>8, <1>9, <1>10, <1>11 DEF Next, BlockStep

\* While every call is awaited at once, the frames on the connection are those of the
\* running blocks, one inside the other under the block that holds the lock.
THEOREM FramesMatch == Spec => []StackMatchesCalls
<1> DEFINE Inv == TypeOK /\ (~Parallel => Nested)
<1>1. Init => Inv
  BY TypeInit, NestedInit
<1>2. Inv /\ [Next]_vars => Inv'
  BY TypeStep, NestedStep
<1>3. Inv => StackMatchesCalls
  BY DEF StackMatchesCalls, Nested, Locked, Chained, Framed, Running, Outermost
<1>4. QED
  <2> HIDE DEF Inv
  <2>1. QED
    BY <1>1, <1>2, <1>3, PTL DEF Spec

-----------------------------------------------------------------------------
(* What atomic() promises *)

\* A statement adds its write to the innermost frame, or commits it by itself.
LEMMA WriteFrames ==
  ASSUME TypeOK, NEW w, WriteTo(w)
  PROVE  /\ stack = <<>> => stack' = <<>> /\ committed' = committed \cup {w}
         /\ stack # <<>> => committed' = committed
         /\ \A i \in 1..Len(stack) : stack'[i].writes =
              IF i = Len(stack) THEN stack[i].writes \cup {w} ELSE stack[i].writes
<1>1. CASE stack = <<>>
  BY <1>1 DEF WriteTo
<1>2. CASE stack # <<>>
  <2> DEFINE n == Len(stack)
             frame == [stack[n] EXCEPT !.writes = stack[n].writes \cup {w}]
  <2>1. stack \in Seq(Frame) /\ n \in 1..Len(stack)
    BY <1>2 DEF TypeOK
  <2>2. stack[n] \in Frame
    BY <2>1
  <2>3. frame.writes = stack[n].writes \cup {w}
    BY <2>2 DEF Frame
  <2>4. stack' = [stack EXCEPT ![n] = frame] /\ committed' = committed
    BY <1>2 DEF WriteTo
  <2> HIDE DEF frame
  <2>5. ASSUME NEW i \in 1..Len(stack)
        PROVE  stack'[i].writes = IF i = n THEN stack[i].writes \cup {w} ELSE stack[i].writes
    <3>1. stack'[i] = IF i = n THEN frame ELSE stack[i]
      BY <2>1, <2>4
    <3>2. QED
      BY <2>3, <3>1
  <2>6. QED
    BY <1>2, <2>4, <2>5
<1>3. QED
  BY <1>1, <1>2

LEMMA TopWrites ==
  ASSUME TypeOK, NEW i \in 1..Len(stack), i = Len(stack)
  PROVE  WritesFrom(i) = stack[i].writes
<1>1. i..Len(stack) = {i}
  BY DEF TypeOK
<1>2. QED
  BY <1>1 DEF WritesFrom

\* What the end of the innermost block does to the writes of the frames below.
LEMMA EndMerges ==
  ASSUME TypeOK, Nested, NEW d \in Nat, d = Len(stack) - 1, d # 0
  PROVE  /\ Discard(d) => /\ UNCHANGED committed
                          /\ \A i \in 1..d : stack'[i].writes = stack[i].writes
         /\ Release(d) =>
              /\ UNCHANGED committed
              /\ \A i \in 1..d : stack'[i].writes =
                   IF i = d THEN stack[i].writes \cup stack[d + 1].writes ELSE stack[i].writes
<1> DEFINE below == SubSeq(stack, 1, d)
<1>1. Len(stack) \in Nat /\ d < Len(stack) /\ stack \in Seq(Frame) /\ Len(stack) = d + 1
      /\ d + 1 # 1 /\ d \in 1..d
  BY DEF TypeOK
<1>2. Innermost(d) = d + 1 /\ Named(d) # {} /\ (d + 1) - 1 = d
  BY <1>1, InnermostIsDepth
<1>3. below \in Seq(Frame) /\ Len(below) = d
  <2>1. d + 1 \in 1..Len(stack)
    BY <1>1
  <2>2. QED
    BY <1>1, <1>2, <2>1, PrefixType
<1>4. \A i \in 1..d : below[i] = stack[i]
  BY <1>1, SubSeqProperties
<1>5. ASSUME Discard(d)
      PROVE  UNCHANGED committed /\ \A i \in 1..d : stack'[i].writes = stack[i].writes
  <2>1. stack' = below /\ UNCHANGED committed
    BY <1>2, <1>5 DEF Discard
  <2> HIDE DEF below
  <2>2. QED
    BY <1>4, <2>1
<1>6. ASSUME Release(d)
      PROVE  /\ UNCHANGED committed
             /\ \A i \in 1..d : stack'[i].writes =
                  IF i = d THEN stack[i].writes \cup stack[d + 1].writes ELSE stack[i].writes
  <2> DEFINE frame == [below[d] EXCEPT !.writes = below[d].writes \cup WritesFrom(d + 1)]
  <2>1. stack' = [below EXCEPT ![d] = frame] /\ UNCHANGED committed
    BY <1>1, <1>2, <1>6 DEF Release
  <2> HIDE DEF below
  <2>2. below[d] \in Frame
    BY <1>1, <1>3
  <2>3. WritesFrom(d + 1) = stack[d + 1].writes
    BY <1>1, TopWrites
  <2>4. frame.writes = stack[d].writes \cup stack[d + 1].writes
    BY <1>1, <1>4, <2>2, <2>3 DEF Frame
  <2> HIDE DEF frame
  <2>5. ASSUME NEW i \in 1..d
        PROVE  stack'[i].writes =
                 IF i = d THEN stack[i].writes \cup stack[d + 1].writes ELSE stack[i].writes
    <3>1. stack'[i] = IF i = d THEN frame ELSE stack[i]
      BY <1>3, <1>4, <2>1
    <3>2. QED
      BY <2>4, <3>1
  <2>6. QED
    BY <2>1, <2>5
<1>7. QED
  BY <1>5, <1>6

\* What a step shows of the calls it leaves alone.
LEMMA ToldOnly ==
  ASSUME NEW b \in Blocks, NEW s, Told'[b] = s,
         \A c \in Blocks : c # b => calls'[c].pc = calls[c].pc
  PROVE  Told' = [Told EXCEPT ![b] = s]
<1>1. ASSUME NEW c \in Blocks, c # b PROVE Told'[c] = Told[c]
  <2>1. calls'[c].pc = calls[c].pc
    BY <1>1
  <2>2. QED
    BY <2>1 DEF Told, Status
<1>2. /\ Told = [c \in Blocks |-> Told[c]]
      /\ Told' = [c \in Blocks |-> Told'[c]]
  BY DEF Told
<1>3. QED
  BY <1>1, <1>2

LEMMA ToldSame ==
  ASSUME \A c \in Blocks : calls'[c].pc = calls[c].pc
                           \/ {calls'[c].pc, calls[c].pc} \subseteq {"idle", "waiting", "acquired"}
  PROVE  UNCHANGED Told
<1>1. ASSUME NEW c \in Blocks PROVE Told'[c] = Told[c]
  BY DEF Told, Status
<1>2. /\ Told = [c \in Blocks |-> Told[c]]
      /\ Told' = [c \in Blocks |-> Told'[c]]
  BY DEF Told
<1>3. QED
  BY <1>1, <1>2

LEMMA ParentsSame == ASSUME \A c \in Blocks : calls'[c].parent = calls[c].parent PROVE UNCHANGED Parents
BY DEF Parents

\* A block that does not run has no buffer; a running one has its frame's writes.
LEMMA BufferOf ==
  ASSUME NEW c \in Blocks
  PROVE  /\ Buffers[c] =
              IF calls[c].pc = "running" THEN stack[calls[c].depth + 1].writes \cap Blocks ELSE {}
         /\ Buffers'[c] =
              IF calls'[c].pc = "running" THEN stack'[calls'[c].depth + 1].writes \cap Blocks ELSE {}
BY DEF Buffers, Running, FrameOf

LEMMA BuffersAre ==
  /\ Buffers = [c \in Blocks |-> Buffers[c]]
  /\ Buffers' = [c \in Blocks |-> Buffers'[c]]
BY DEF Buffers

LEMMA BuffersSame == ASSUME \A c \in Blocks : Buffers'[c] = Buffers[c] PROVE UNCHANGED Buffers
BY BuffersAre

\* A block that runs no other has no open child.
LEMMA AloneIsChildless ==
  ASSUME TypeOK, NEW b \in Blocks, Alone(b)
  PROVE  Promised!Childless(b)
BY DEF Promised!Childless, Promised!Open, Told, Status, Parents, Alone, Called, Running

LEMMA IdleIsChildless ==
  ASSUME TypeOK, Nested, NEW b \in Blocks, calls[b].pc # "running"
  PROVE  Promised!Childless(b)
<1>1. ASSUME NEW c \in Blocks, calls[c].pc = "running" PROVE calls[c].parent # b
  BY <1>1, CallTyped DEF Nested, Chained
<1>2. QED
  BY <1>1 DEF Promised!Childless, Promised!Open, Told, Status, Parents

LEMMA BlockEnters ==
  ASSUME ~Parallel, TypeOK, Nested, NEW b \in Blocks,
         Begin(b) \/ \E p \in Blocks : Nest(b, p)
  PROVE  Promised!Next
<1>1. /\ calls[b].pc \in {"idle", "acquired"} /\ calls'[b].pc = "running"
      /\ \A c \in Blocks : c # b => calls'[c] = calls[c]
      /\ UNCHANGED committed
  <2>1. calls[b] \in Call /\ DOMAIN calls = Blocks
    BY CallTyped DEF TypeOK
  <2>2. CASE Begin(b)
    BY <2>1, <2>2 DEF Begin, Call
  <2>3. ASSUME NEW p \in Blocks, Nest(b, p)
        PROVE  /\ calls[b].pc = "idle" /\ calls'[b].pc = "running"
               /\ \A c \in Blocks : c # b => calls'[c] = calls[c]
               /\ UNCHANGED committed
    BY <2>1, <2>3 DEF Nest, Call
  <2>4. QED
    BY <2>2, <2>3
<1>2. Told[b] = "idle" /\ Told'[b] = "open"
  BY <1>1 DEF Told, Status
<1>3. Told' = [Told EXCEPT ![b] = "open"]
  BY <1>1, <1>2, ToldOnly
<1>4. ASSUME Savepoint(Len(stack)), calls'[b].depth = Len(stack) PROVE UNCHANGED Buffers
  <2>1. /\ stack'[Len(stack) + 1] = [name |-> Len(stack), writes |-> {}]
        /\ \A i \in 1..Len(stack) : stack'[i] = stack[i]
    <3>1. stack \in Seq(Frame)
      BY DEF TypeOK
    <3>2. stack' = Append(stack, [name |-> Len(stack), writes |-> {}])
      BY <1>4 DEF Savepoint
    <3>3. QED
      BY <3>1, <3>2
  <2>2. Buffers'[b] = {} /\ Buffers[b] = {}
    <3>1. calls[b].pc # "running" /\ stack'[calls'[b].depth + 1].writes = {}
      BY <1>1, <1>4, <2>1
    <3>2. QED
      BY <3>1, BufferOf
  <2>3. ASSUME NEW c \in Blocks, c # b PROVE Buffers'[c] = Buffers[c]
    <3>1. CASE calls[c].pc = "running"
      <4>1. calls[c].depth + 1 \in 1..Len(stack)
        BY <3>1, CallTyped DEF Nested, Chained
      <4>2. stack'[calls[c].depth + 1] = stack[calls[c].depth + 1]
        BY <2>1, <4>1
      <4>3. calls'[c] = calls[c]
        BY <1>1, <2>3
      <4>4. QED
        BY <4>2, <4>3, BufferOf
    <3>2. CASE calls[c].pc # "running"
      <4>1. calls'[c] = calls[c]
        BY <1>1, <2>3
      <4>2. QED
        BY <3>2, <4>1, BufferOf
    <3>3. QED
      BY <3>1, <3>2
  <2>4. QED
    BY <2>2, <2>3, BuffersSame
<1>5. CASE Begin(b)
  <2>1. calls[b].parent = Nobody /\ calls[b].depth = 0 /\ Len(stack) = 0
    BY <1>5 DEF Begin, Nested, Locked
  <2>2. calls'[b].parent = Nobody /\ calls'[b].depth = 0
    BY <1>5, <2>1, CallTyped DEF Begin, TypeOK, Call
  <2>3. UNCHANGED Buffers
    BY <1>4, <1>5, <2>1, <2>2 DEF Begin
  <2>4. Parents' = [Parents EXCEPT ![b] = Nobody]
    BY <1>1, <2>1, <2>2 DEF Parents
  <2>5. \A c \in Blocks : Told[c] # "open"
    <3>1. ASSUME NEW c \in Blocks, calls[c].pc = "running" PROVE FALSE
      BY <2>1, <3>1, CallTyped DEF Nested, Chained
    <3>2. QED
      BY <3>1 DEF Told, Status
  <2>6. Promised!Enter(b, Nobody)
    BY <1>1, <1>2, <1>3, <2>3, <2>4, <2>5 DEF Promised!Enter, Promised!Open, Durable
  <2>7. QED
    BY <2>6 DEF Promised!Next
<1>6. ASSUME NEW p \in Blocks, Nest(b, p) PROVE Promised!Next
  <2>1. calls[p].depth = Len(stack) - 1 /\ calls[p].pc = "running" /\ Alone(p)
    BY <1>6, AloneIsInnermost DEF Nest, Free, Running
  <2>2. calls[p].depth + 1 = Len(stack)
    BY <2>1, CallTyped
  <2>3. calls'[b].parent = p /\ calls'[b].depth = calls[p].depth + 1
    BY <1>6, CallTyped DEF Nest, TypeOK, Call
  <2>4. UNCHANGED Buffers
    BY <1>4, <1>6, <2>2, <2>3 DEF Nest
  <2>5. Parents' = [Parents EXCEPT ![b] = p]
    BY <1>1, <2>3 DEF Parents
  <2>6. Told[p] = "open" /\ p # Nobody /\ Promised!Childless(p)
    BY <2>1, AloneIsChildless, CallTyped DEF Told, Status
  <2>7. Promised!Enter(b, p)
    BY <1>1, <1>2, <1>3, <2>4, <2>5, <2>6 DEF Promised!Enter, Promised!Open, Durable
  <2>8. QED
    BY <2>7 DEF Promised!Next
<1>7. QED
  BY <1>5, <1>6

LEMMA BlockWrites ==
  ASSUME ~Parallel, TypeOK, Nested, NEW b \in Blocks, WriteInside(b)
  PROVE  Promised!Next
<1>1. calls[b].pc = "running" /\ calls[b].depth = Len(stack) - 1 /\ WriteTo(b)
  BY AloneIsInnermost DEF WriteInside, Free, Running
<1>2. calls[b].depth + 1 = Len(stack) /\ Len(stack) # 0 /\ calls[b].depth + 1 \in 1..Len(stack)
  BY <1>1, CallTyped
<1>3. stack # <<>>
  BY <1>2
<1>4. \A c \in Blocks : /\ calls'[c].pc = calls[c].pc /\ calls'[c].depth = calls[c].depth
                        /\ calls'[c].parent = calls[c].parent
  BY DEF WriteInside, TypeOK, Call
<1>5. UNCHANGED Told /\ UNCHANGED Parents /\ UNCHANGED Durable
  BY <1>1, <1>3, <1>4, ToldSame, ParentsSame, WriteFrames DEF Durable
<1>6. Buffers'[b] = Buffers[b] \cup {b}
  <2>1. stack'[calls[b].depth + 1].writes = stack[calls[b].depth + 1].writes \cup {b}
    BY <1>1, <1>2, WriteFrames
  <2>2. calls'[b].pc = "running" /\ calls'[b].depth = calls[b].depth
    BY <1>1, <1>4
  <2>3. Buffers[b] = stack[calls[b].depth + 1].writes \cap Blocks
        /\ Buffers'[b] = stack'[calls[b].depth + 1].writes \cap Blocks
    BY <1>1, <2>2, BufferOf
  <2>4. QED
    BY <2>1, <2>3
<1>7. ASSUME NEW c \in Blocks, c # b PROVE Buffers'[c] = Buffers[c]
  <2>1. CASE calls[c].pc = "running"
    <3>1. calls[c].depth + 1 \in 1..Len(stack) /\ calls[c].depth + 1 # Len(stack)
      BY <1>1, <1>2, <1>7, <2>1, CallTyped DEF Nested, Chained
    <3>2. stack'[calls[c].depth + 1].writes = stack[calls[c].depth + 1].writes
      BY <1>1, <3>1, WriteFrames
    <3>3. QED
      BY <1>4, <3>2, BufferOf
  <2>2. CASE calls[c].pc # "running"
    <3>1. calls'[c].pc # "running"
      BY <1>4, <2>2
    <3>2. QED
      BY <2>2, <3>1, BufferOf
  <2>3. QED
    BY <2>1, <2>2
<1>8. Buffers' = [Buffers EXCEPT ![b] = Buffers[b] \cup {b}]
  BY <1>6, <1>7, BuffersAre
<1>9. Promised!Write(b)
  BY <1>1, <1>5, <1>8 DEF Promised!Write, Promised!Open, Told, Status
<1>10. QED
  BY <1>9 DEF Promised!Next

\* The end of a block, kept or undone: what is left of the buffers of the others.
LEMMA BlockEnds ==
  ASSUME TypeOK, Nested, NEW b \in Blocks, calls[b].pc = "running",
         calls[b].depth = Len(stack) - 1,
         NEW pc \in {"resolved", "threw"}, calls' = [calls EXCEPT ![b].pc = pc]
  PROVE  /\ Told' = [Told EXCEPT ![b] = IF pc = "resolved" THEN "kept" ELSE "undone"]
         /\ Told[b] = "open" /\ UNCHANGED Parents /\ Parents[b] = calls[b].parent
         /\ Buffers'[b] = {}
         /\ \A c \in Blocks : calls[c].pc # "running" => Buffers'[c] = {} /\ Buffers[c] = {}
         /\ \A c \in Blocks : c # b /\ calls[c].pc = "running" =>
              /\ calls[c].depth + 1 \in 1..calls[b].depth
              /\ (c = calls[b].parent <=> calls[c].depth + 1 = calls[b].depth)
              /\ Buffers[c] = stack[calls[c].depth + 1].writes \cap Blocks
              /\ Buffers'[c] = stack'[calls[c].depth + 1].writes \cap Blocks
<1>1. /\ calls'[b].pc = pc /\ \A c \in Blocks : c # b => calls'[c] = calls[c]
      /\ \A c \in Blocks : calls'[c].parent = calls[c].parent /\ calls'[c].depth = calls[c].depth
  BY CallTyped DEF TypeOK, Call
<1>2. Told'[b] = IF pc = "resolved" THEN "kept" ELSE "undone"
  BY <1>1 DEF Told, Status
<1>3. Told' = [Told EXCEPT ![b] = IF pc = "resolved" THEN "kept" ELSE "undone"]
  BY <1>1, <1>2, ToldOnly
<1>4. Told[b] = "open" /\ UNCHANGED Parents /\ Parents[b] = calls[b].parent
  BY <1>1, ParentsSame DEF Told, Status, Parents
<1>5. Buffers'[b] = {} /\ \A c \in Blocks : calls[c].pc # "running" => Buffers'[c] = {} /\ Buffers[c] = {}
  BY <1>1, BufferOf
<1>6. ASSUME NEW c \in Blocks, c # b, calls[c].pc = "running"
      PROVE  /\ calls[c].depth + 1 \in 1..calls[b].depth
             /\ (c = calls[b].parent <=> calls[c].depth + 1 = calls[b].depth)
  <2>1. calls[c].depth \in Nat /\ calls[b].depth \in Nat /\ calls[c].depth < Len(stack)
        /\ calls[c].depth # calls[b].depth
    BY <1>6, CallTyped DEF Nested, Chained
  <2>2. calls[c].depth + 1 \in 1..calls[b].depth
    BY <2>1, CallTyped
  <2>3. calls[b].parent # Nobody /\ calls[b].parent \in Blocks
    BY <2>2, CallTyped DEF Nested, Chained
  <2>4. calls[calls[b].parent].pc = "running" /\ calls[b].depth = calls[calls[b].parent].depth + 1
    BY <2>3 DEF Nested, Chained
  <2>5. calls[calls[b].parent].depth = calls[c].depth => c = calls[b].parent
    BY <1>6, <2>3, <2>4 DEF Nested, Chained
  <2>6. calls[calls[b].parent].depth \in Nat
    BY <2>3, CallTyped
  <2>7. QED
    BY <2>1, <2>2, <2>4, <2>5, <2>6
<1>7. \A c \in Blocks : c # b /\ calls[c].pc = "running" =>
        /\ Buffers[c] = stack[calls[c].depth + 1].writes \cap Blocks
        /\ Buffers'[c] = stack'[calls[c].depth + 1].writes \cap Blocks
  BY <1>1, BufferOf
<1>8. QED
  BY <1>3, <1>4, <1>5, <1>6, <1>7

LEMMA BlockKeeps ==
  ASSUME ~Parallel, TypeOK, Nested, NEW b \in Blocks, Resolve(b)
  PROVE  Promised!Next
<1> DEFINE d == calls[b].depth
<1>1. calls[b].pc = "running" /\ d = Len(stack) - 1 /\ Alone(b)
  BY AloneIsInnermost DEF Resolve, Running
<1>2. calls' = [calls EXCEPT ![b].pc = "resolved"]
  BY DEF Resolve
<1>3. /\ Told' = [Told EXCEPT ![b] = "kept"]
      /\ Told[b] = "open" /\ UNCHANGED Parents /\ Parents[b] = calls[b].parent
      /\ Buffers'[b] = {}
      /\ \A c \in Blocks : calls[c].pc # "running" => Buffers'[c] = {} /\ Buffers[c] = {}
      /\ \A c \in Blocks : c # b /\ calls[c].pc = "running" =>
           /\ calls[c].depth + 1 \in 1..d
           /\ (c = calls[b].parent <=> calls[c].depth + 1 = d)
           /\ Buffers[c] = stack[calls[c].depth + 1].writes \cap Blocks
           /\ Buffers'[c] = stack'[calls[c].depth + 1].writes \cap Blocks
  BY <1>1, <1>2, BlockEnds
<1>4. d \in Nat /\ d + 1 \in 1..Len(stack) /\ d + 1 = Len(stack)
      /\ (d = 0 <=> calls[b].parent = Nobody) /\ Nobody \notin Blocks
  <2>1. d \in Nat /\ Nobody \notin Blocks /\ Len(stack) \in Nat
    BY CallTyped
  <2>2. d = 0 <=> calls[b].parent = Nobody
    BY <1>1 DEF Nested, Chained
  <2> HIDE DEF d
  <2>3. QED
    BY <1>1, <2>1, <2>2
<1>5. Buffers[b] = stack[d + 1].writes \cap Blocks
  BY <1>1, BufferOf
<1>6. CASE calls[b].parent = Nobody
  <2>1. d = 0 /\ committed' = committed \cup WritesFrom(1) /\ Len(stack) = 1
    <3>1. committed' = committed \cup WritesFrom(1)
      BY <1>6 DEF Resolve, Outermost, CommitAll
    <3> HIDE DEF d
    <3>2. QED
      BY <1>4, <1>6, <3>1
  <2>2. WritesFrom(1) = stack[1].writes
    BY <1>4, <2>1, TopWrites
  <2>3. Durable' = Durable \cup Buffers[b]
    BY <1>5, <2>1, <2>2 DEF Durable
  <2>4. ASSUME NEW c \in Blocks, c # b PROVE Buffers'[c] = Buffers[c]
    <3>1. calls[c].pc # "running"
      BY <1>3, <2>1, <2>4
    <3>2. QED
      BY <1>3, <3>1
  <2>5. Buffers' = [c \in Blocks |-> CASE c = b -> {}
                                       [] c = Parents[b] -> Buffers[c] \cup Buffers[b]
                                       [] OTHER -> Buffers[c]]
    <3>1. \A c \in Blocks : c # Parents[b]
      BY <1>3, <1>4, <1>6
    <3>2. \A c \in Blocks : Buffers'[c] = CASE c = b -> {}
                                             [] c = Parents[b] -> Buffers[c] \cup Buffers[b]
                                             [] OTHER -> Buffers[c]
      BY <1>3, <2>4, <3>1
    <3>3. QED
      BY <3>2, BuffersAre
  <2>6. Promised!Keep(b)
    BY <1>1, <1>3, <1>6, <2>3, <2>5, AloneIsChildless DEF Promised!Keep, Promised!Open
  <2>7. QED
    BY <2>6 DEF Promised!Next
<1>7. CASE calls[b].parent # Nobody
  <2>1. Release(d)
    BY <1>7 DEF Resolve, Outermost
  <2>2. /\ UNCHANGED committed
        /\ \A i \in 1..d : stack'[i].writes =
             IF i = d THEN stack[i].writes \cup stack[d + 1].writes ELSE stack[i].writes
    <3> HIDE DEF d
    <3>1. QED
      BY <1>1, <1>4, <1>7, <2>1, EndMerges
  <2>3. UNCHANGED Durable
    BY <2>2 DEF Durable
  <2>4. ASSUME NEW c \in Blocks, c # b
        PROVE  Buffers'[c] = IF c = calls[b].parent THEN Buffers[c] \cup Buffers[b] ELSE Buffers[c]
    <3>1. CASE calls[c].pc = "running"
      <4> DEFINE i == calls[c].depth + 1
      <4>1. /\ i \in 1..d /\ (c = calls[b].parent <=> i = d)
            /\ Buffers[c] = stack[i].writes \cap Blocks
            /\ Buffers'[c] = stack'[i].writes \cap Blocks
        BY <1>3, <2>4, <3>1
      <4> HIDE DEF i, d
      <4>2. stack'[i].writes = IF i = d THEN stack[i].writes \cup stack[d + 1].writes ELSE stack[i].writes
        BY <2>2, <4>1
      <4>3. CASE i = d
        BY <1>5, <4>1, <4>2, <4>3
      <4>4. CASE i # d
        BY <4>1, <4>2, <4>4
      <4>5. QED
        BY <4>3, <4>4
    <3>2. CASE calls[c].pc # "running"
      <4>1. c # calls[b].parent
        BY <1>1, <1>7, <3>2 DEF Nested, Chained
      <4>2. QED
        BY <1>3, <3>2, <4>1
    <3>3. QED
      BY <3>1, <3>2
  <2>5. Buffers' = [c \in Blocks |-> CASE c = b -> {}
                                       [] c = Parents[b] -> Buffers[c] \cup Buffers[b]
                                       [] OTHER -> Buffers[c]]
    <3>1. b # Parents[b]
      <4>1. calls[b].depth # calls[b].depth + 1
        BY CallTyped
      <4>2. QED
        BY <1>1, <1>3, <1>7, <4>1 DEF Nested, Chained
    <3>2. \A c \in Blocks : Buffers'[c] = CASE c = b -> {}
                                             [] c = Parents[b] -> Buffers[c] \cup Buffers[b]
                                             [] OTHER -> Buffers[c]
      BY <1>3, <2>4, <3>1
    <3>3. QED
      BY <3>2, BuffersAre
  <2>6. Promised!Keep(b)
    BY <1>1, <1>3, <1>7, <2>3, <2>5, AloneIsChildless DEF Promised!Keep, Promised!Open
  <2>7. QED
    BY <2>6 DEF Promised!Next
<1>8. QED
  BY <1>6, <1>7

LEMMA BlockUndoes ==
  ASSUME ~Parallel, TypeOK, Nested, NEW b \in Blocks, Throw(b)
  PROVE  Promised!Next
<1> DEFINE d == calls[b].depth
<1>1. calls[b].pc = "running" /\ d = Len(stack) - 1 /\ Alone(b)
  BY AloneIsInnermost DEF Throw, Running
<1>2. calls' = [calls EXCEPT ![b].pc = "threw"]
  BY DEF Throw
<1>3. /\ Told' = [Told EXCEPT ![b] = "undone"]
      /\ Told[b] = "open" /\ UNCHANGED Parents
      /\ Buffers'[b] = {}
      /\ \A c \in Blocks : calls[c].pc # "running" => Buffers'[c] = {} /\ Buffers[c] = {}
      /\ \A c \in Blocks : c # b /\ calls[c].pc = "running" =>
           /\ calls[c].depth + 1 \in 1..d
           /\ Buffers[c] = stack[calls[c].depth + 1].writes \cap Blocks
           /\ Buffers'[c] = stack'[calls[c].depth + 1].writes \cap Blocks
  BY <1>1, <1>2, BlockEnds
<1>4. d \in Nat /\ (d = 0 <=> calls[b].parent = Nobody)
  BY <1>1, CallTyped DEF Nested, Chained
<1>5. UNCHANGED committed /\ \A c \in Blocks : c # b => Buffers'[c] = Buffers[c]
  <2>1. CASE calls[b].parent = Nobody
    <3>1. UNCHANGED committed /\ d = 0
      BY <1>4, <2>1 DEF Throw, Outermost
    <3>2. \A c \in Blocks : c # b => calls[c].pc # "running"
      BY <1>3, <3>1
    <3>3. QED
      BY <1>3, <3>1, <3>2
  <2>2. CASE calls[b].parent # Nobody
    <3>1. Discard(d)
      BY <2>2 DEF Throw, Outermost
    <3>2. UNCHANGED committed /\ \A i \in 1..d : stack'[i].writes = stack[i].writes
      <4> HIDE DEF d
      <4>1. QED
        BY <1>1, <1>4, <2>2, <3>1, EndMerges
    <3>3. QED
      BY <1>3, <3>2
  <2>3. QED
    BY <2>1, <2>2
<1>6. Buffers' = [Buffers EXCEPT ![b] = {}] /\ UNCHANGED Durable
  BY <1>3, <1>5, BuffersAre DEF Durable
<1>7. Promised!Undo(b)
  BY <1>1, <1>3, <1>6, AloneIsChildless DEF Promised!Undo
<1>8. QED
  BY <1>7 DEF Promised!Next

\* A call that does not run yet: it queues, it gets the lock, or its BEGIN throws.
LEMMA BlockQueues ==
  ASSUME TypeOK, Nested, NEW b \in Blocks, Wait(b) \/ Acquire(b) \/ BeginThrows(b)
  PROVE  [Promised!Next]_(Promised!vars)
<1>1. calls[b].pc \in {"idle", "waiting", "acquired"} /\ UNCHANGED <<stack, committed>>
  BY DEF Wait, Acquire, BeginThrows
<1>2. PICK pc \in {"waiting", "acquired", "threw"} : calls' = [calls EXCEPT ![b].pc = pc]
  BY DEF Wait, Acquire, BeginThrows
<1>3. /\ calls'[b].pc = pc /\ \A c \in Blocks : c # b => calls'[c] = calls[c]
      /\ \A c \in Blocks : calls'[c].parent = calls[c].parent /\ calls'[c].depth = calls[c].depth
  BY <1>2, CallTyped DEF TypeOK, Call
<1>4. \A c \in Blocks : Buffers'[c] = Buffers[c]
  BY <1>1, <1>3, BufferOf
<1>5. UNCHANGED Buffers /\ UNCHANGED Parents /\ UNCHANGED Durable /\ Buffers[b] = {}
  BY <1>1, <1>3, <1>4, BufferOf, BuffersSame, ParentsSame DEF Durable
<1>6. CASE pc # "threw"
  <2>1. UNCHANGED Told
    BY <1>1, <1>3, <1>6, ToldSame
  <2>2. QED
    BY <1>5, <2>1 DEF Promised!vars
<1>7. CASE pc = "threw"
  <2>1. Told[b] = "idle" /\ Told'[b] = "undone"
    BY <1>1, <1>3, <1>7 DEF Told, Status
  <2>2. Told' = [Told EXCEPT ![b] = "undone"]
    BY <1>3, <2>1, ToldOnly
  <2>3. Buffers' = [Buffers EXCEPT ![b] = {}]
    BY <1>5, BuffersAre
  <2>4. Promised!Undo(b)
    BY <1>1, <1>5, <2>1, <2>2, <2>3, IdleIsChildless DEF Promised!Undo
  <2>5. QED
    BY <2>4 DEF Promised!Next
<1>8. QED
  BY <1>6, <1>7

\* A query outside any block changes nothing of what the blocks were promised.
LEMMA QueryStutters ==
  ASSUME TypeOK, Nested, NEW q \in Queries, QueryStep(q)
  PROVE  UNCHANGED Promised!vars
<1>1. UNCHANGED calls /\ (WriteTo(q) \/ UNCHANGED <<stack, committed>>) /\ q \notin Blocks
  BY TransactionConstants DEF TransactionConstants, QueryStep, Issue, Wake, RunQuery
<1>2. UNCHANGED Told /\ UNCHANGED Parents
  BY <1>1, ToldSame, ParentsSame
<1>3. UNCHANGED Durable
  BY <1>1, WriteFrames DEF Durable
<1>4. ASSUME NEW c \in Blocks PROVE Buffers'[c] = Buffers[c]
  <2>1. CASE calls[c].pc = "running"
    <3>1. calls[c].depth + 1 \in 1..Len(stack)
      BY <2>1, CallTyped DEF Nested, Chained
    <3>2. stack'[calls[c].depth + 1].writes \cap Blocks = stack[calls[c].depth + 1].writes \cap Blocks
      <4>1. CASE WriteTo(q)
        <5>1. stack'[calls[c].depth + 1].writes \in
                {stack[calls[c].depth + 1].writes \cup {q}, stack[calls[c].depth + 1].writes}
          BY <3>1, <4>1, WriteFrames
        <5>2. QED
          BY <1>1, <5>1
      <4>2. QED
        BY <1>1, <4>1
    <3>3. QED
      BY <1>1, <3>2, BufferOf
  <2>2. CASE calls[c].pc # "running"
    BY <1>1, <2>2, BufferOf
  <2>3. QED
    BY <2>1, <2>2
<1>5. UNCHANGED Buffers
  BY <1>4, BuffersSame
<1>6. QED
  BY <1>2, <1>3, <1>5 DEF Promised!vars

\* Where every call of atomic is awaited at once, BEGIN, COMMIT, ROLLBACK and the
\* savepoints give every block what NestedTransactions promises: its writes are
\* kept with the blocks it is nested in or undone with them, for any number of
\* blocks and any depth, whatever queries run in between.
THEOREM BlocksAreAtomic == ~Parallel => (Spec => Atomicity)
<1> SUFFICES ASSUME ~Parallel PROVE Spec => Atomicity
  OBVIOUS
<1>1. Init => TypeOK /\ Nested
  BY TypeInit, NestedInit
<1>2. TypeOK /\ Nested /\ [Next]_vars => (TypeOK /\ Nested)'
  BY TypeStep, NestedStep
<1>3. Init => Promised!Init
  <2> SUFFICES ASSUME Init PROVE Promised!Init
    OBVIOUS
  <2>1. \A c \in Blocks : calls[c].pc = "idle" /\ calls[c].parent = Nobody
    BY DEF Init
  <2>2. Buffers = [c \in Blocks |-> {}] /\ Parents = [c \in Blocks |-> Nobody]
        /\ Told = [c \in Blocks |-> "idle"]
    BY <2>1 DEF Buffers, Parents, Told, Status, Running
  <2>3. Durable = {}
    BY DEF Init, Durable
  <2>4. QED
    BY <2>2, <2>3 DEF Promised!Init
<1>4. TypeOK /\ Nested /\ [Next]_vars => [Promised!Next]_(Promised!vars)
  <2> SUFFICES ASSUME TypeOK, Nested, [Next]_vars PROVE [Promised!Next]_(Promised!vars)
    OBVIOUS
  <2>1. CASE UNCHANGED vars
    BY <2>1 DEF vars, Promised!vars, Durable, Buffers, Told, Status, Parents, Running, FrameOf
  <2>2. QED
    BY <2>1, BlockEnters, BlockWrites, BlockKeeps, BlockUndoes, BlockQueues, QueryStutters
    DEF Next, BlockStep
<1>5. QED
  BY <1>1, <1>2, <1>3, <1>4, PTL DEF Spec, Atomicity, Promised!Spec
=============================================================================
