----------------------------- MODULE CacheProofs -----------------------------
(***************************************************************************)
(* What holds of getOrSet for any number of keys, callers and writes: how  *)
(* many computations run side by side, that a registered computation has   *)
(* not ended, and that what the store holds is current between writes.     *)
(***************************************************************************)
EXTENDS Cache, FiniteSetTheorems, SequenceTheorems, TLAPS

CallsTyped ==
  /\ calls \in [Callers -> Caller] /\ inFlight \in [Keys -> Callers \cup {Nothing}]
  /\ data \in Nat /\ clears \in Nat

CallsInv == CallsTyped /\ KeysKnown

LEMMA CallsInit == CacheInit => CallsInv
BY CacheConstants DEF CacheConstants, CacheInit, CallsInv, CallsTyped, KeysKnown, Caller, IdleCaller

LEMMA EndedIsCaller == ASSUME NEW end \in {"done", "failed"} PROVE Ended(end) \in Caller
BY DEF Ended, IdleCaller, Caller

LEMMA MissedIsCaller ==
  ASSUME NEW r \in Caller, NEW k \in Keys, NEW ts \in SUBSET Tags
  PROVE  [r EXCEPT !.pc = "missed", !.key = k, !.tags = ts] \in Caller
BY DEF Caller

LEMMA RacedIsCaller ==
  ASSUME NEW r \in Caller
  PROVE  /\ [r EXCEPT !.raced = TRUE] \in Caller
         /\ [r EXCEPT !.raced = TRUE].pc = r.pc /\ [r EXCEPT !.raced = TRUE].key = r.key
BY DEF Caller

LEMMA EndedPc == ASSUME NEW end PROVE Ended(end).pc = end
BY DEF Ended, IdleCaller

\* A step of one call is one of a few changes to its record.
LEMMA CallsStep == CallsInv /\ [CacheNext]_cacheVars => CallsInv'
<1> SUFFICES ASSUME CallsInv, [CacheNext]_cacheVars PROVE CallsInv'
  OBVIOUS
<1> USE CacheConstants DEF CacheConstants
<1>1. ASSUME NEW c \in Callers, NEW r \in Caller, calls' = [calls EXCEPT ![c] = r],
             r.pc \notin {"idle", "done", "failed"} => r.key \in Keys
      PROVE  calls' \in [Callers -> Caller] /\ KeysKnown'
  BY <1>1 DEF CallsInv, CallsTyped, KeysKnown
<1>2. ASSUME NEW c \in Callers, NEW end \in {"done", "failed"}, calls' = [calls EXCEPT ![c] = Ended(end)]
      PROVE  calls' \in [Callers -> Caller] /\ KeysKnown'
  BY <1>1, <1>2, EndedIsCaller, EndedPc
<1>3. ASSUME NEW c \in Callers, calls[c].pc \notin {"idle", "done", "failed"},
             NEW pc \in {"computing", "settling", "failing"}, calls' = [calls EXCEPT ![c].pc = pc]
      PROVE  calls' \in [Callers -> Caller] /\ KeysKnown'
  <2>1. [calls[c] EXCEPT !.pc = pc] \in Caller
    BY DEF CallsInv, CallsTyped, Caller
  <2>2. calls[c].key \in Keys
    BY <1>3 DEF CallsInv, KeysKnown
  <2>3. [calls[c] EXCEPT !.pc = pc].key = calls[c].key
    BY DEF CallsInv, CallsTyped, Caller
  <2>4. calls' = [calls EXCEPT ![c] = [calls[c] EXCEPT !.pc = pc]]
    BY <1>3
  <2>5. QED
    BY <1>1, <2>1, <2>2, <2>3, <2>4
<1>4. ASSUME NEW c \in Callers, NEW k \in Keys, NEW ts \in TagSets, Lookup(c, k, ts) PROVE CallsInv'
  <2>1. [calls[c] EXCEPT !.pc = "missed", !.key = k, !.tags = ts] \in Caller
    <3>1. calls[c] \in Caller /\ ts \subseteq Tags
      BY DEF CallsInv, CallsTyped
    <3>2. QED
      BY <3>1, MissedIsCaller
  <2>2. [calls[c] EXCEPT !.pc = "missed", !.key = k, !.tags = ts].key = k
    BY DEF CallsInv, CallsTyped, Caller
  <2>3. UNCHANGED <<data, inFlight, clears>>
    BY <1>4 DEF Lookup
  <2>4. \/ calls' = [calls EXCEPT ![c] = Ended("done")]
        \/ calls' = [calls EXCEPT ![c] = [calls[c] EXCEPT !.pc = "missed", !.key = k, !.tags = ts]]
    BY <1>4 DEF Lookup
  <2>5. calls' \in [Callers -> Caller] /\ KeysKnown'
    BY <1>1, <1>2, <2>1, <2>2, <2>4
  <2>6. QED
    BY <2>3, <2>5 DEF CallsInv, CallsTyped
<1>5. ASSUME NEW c \in Callers, Join(c) PROVE CallsInv'
  <2>1. calls[c].key \in Keys /\ calls[c] \in Caller
    BY <1>5 DEF Join, CallsInv, CallsTyped, KeysKnown
  <2> DEFINE r == [calls[c] EXCEPT !.pc = "waiting", !.awaits = inFlight[calls[c].key]]
  <2>2. r \in Caller /\ r.key = calls[c].key
    BY <2>1 DEF CallsInv, CallsTyped, Caller
  <2>3. calls' = [calls EXCEPT ![c] = r] /\ UNCHANGED <<data, inFlight, clears>>
    BY <1>5 DEF Join
  <2> HIDE DEF r
  <2>4. calls' \in [Callers -> Caller] /\ KeysKnown'
    BY <1>1, <2>1, <2>2, <2>3
  <2>5. QED
    BY <2>3, <2>4 DEF CallsInv, CallsTyped
<1>6. ASSUME NEW c \in Callers, Start(c) PROVE CallsInv'
  BY <1>3, <1>6 DEF Start, CallsInv, CallsTyped
<1>7. ASSUME NEW c \in Callers, ReadData(c) PROVE CallsInv'
  <2> DEFINE r == [calls[c] EXCEPT !.pc = "storing", !.version = data]
  <2>1. calls[c].key \in Keys /\ calls[c] \in Caller
    BY <1>7 DEF ReadData, CallsInv, CallsTyped, KeysKnown
  <2>2. r \in Caller /\ r.key = calls[c].key
    BY <2>1 DEF CallsInv, CallsTyped, Caller
  <2>3. calls' = [calls EXCEPT ![c] = r] /\ UNCHANGED <<data, inFlight, clears>>
    BY <1>7 DEF ReadData
  <2> HIDE DEF r
  <2>4. calls' \in [Callers -> Caller] /\ KeysKnown'
    BY <1>1, <2>1, <2>2, <2>3
  <2>5. QED
    BY <2>3, <2>4 DEF CallsInv, CallsTyped
<1>8. ASSUME NEW c \in Callers, ComputeThrows(c) PROVE CallsInv'
  BY <1>3, <1>8 DEF ComputeThrows, CallsInv, CallsTyped
<1>9. ASSUME NEW c \in Callers, StoreValue(c) \/ SkipStore(c) PROVE CallsInv'
  BY <1>3, <1>9 DEF StoreValue, SkipStore, CallsInv, CallsTyped
<1>10. ASSUME NEW c \in Callers, Settle(c) \/ Answer(c) PROVE CallsInv'
  <2>1. PICK end \in {"done", "failed"} : calls' = [calls EXCEPT ![c] = Ended(end)]
    BY <1>10 DEF Settle, Answer, Outcome
  <2>2. inFlight' \in [Keys -> Callers \cup {Nothing}] /\ UNCHANGED <<data, clears>>
    BY <1>10 DEF Settle, Answer, CallsInv, CallsTyped
  <2>3. QED
    BY <1>2, <2>1, <2>2 DEF CallsInv, CallsTyped
<1>11. ASSUME NEW w \in Writers, InvalidateModels(w) PROVE CallsInv'
  <2>1. \A c \in Callers : calls'[c] = calls[c] \/ calls'[c] = [calls[c] EXCEPT !.raced = TRUE]
    BY <1>11 DEF InvalidateModels
  <2>2. \A c \in Callers : [calls[c] EXCEPT !.raced = TRUE] \in Caller
    BY RacedIsCaller DEF CallsInv, CallsTyped
  <2>3. \A c \in Callers : calls'[c].pc = calls[c].pc /\ calls'[c].key = calls[c].key
    BY <2>1, RacedIsCaller DEF CallsInv, CallsTyped
  <2>4. calls' \in [Callers -> Caller]
    BY <1>11, <2>1, <2>2 DEF InvalidateModels, CallsInv, CallsTyped
  <2>5. QED
    BY <1>11, <2>3, <2>4 DEF InvalidateModels, CallsInv, CallsTyped, KeysKnown
<1>12. ASSUME NEW w \in Writers, WriteRows(w) \/ HookThrows(w) PROVE CallsInv'
  BY <1>12 DEF WriteRows, HookThrows, CallsInv, CallsTyped, KeysKnown
<1>13. ASSUME UNCHANGED <<data, inFlight, calls, clears>> PROVE CallsInv'
  BY <1>13 DEF CallsInv, CallsTyped, KeysKnown
<1>14. ASSUME NEW ts \in TagSets, Invalidate(ts) PROVE UNCHANGED <<data, inFlight, calls, clears>>
  BY <1>14 DEF Invalidate
<1>15. ASSUME NEW k \in Keys, Delete(k) PROVE UNCHANGED <<data, inFlight, calls, clears>>
  BY <1>15 DEF Delete
<1>16. ASSUME Clear PROVE CallsInv'
  BY <1>16 DEF Clear, CallsInv, CallsTyped, KeysKnown
<1>17. CASE ClockTicks
  BY <1>13, <1>17 DEF ClockTicks
<1>18. CASE UNCHANGED cacheVars
  BY <1>13, <1>18 DEF cacheVars
<1>19. QED
  BY <1>4, <1>5, <1>6, <1>7, <1>8, <1>9, <1>10, <1>11, <1>12, <1>13, <1>14, <1>15, <1>16, <1>17,
     <1>18 DEF CacheNext, CallerStep

-----------------------------------------------------------------------------
(* Computations *)

Busy == {"computing", "storing", "settling", "failing"}

\* A call changes which computations run only as it starts or settles one.
LEMMA OneCallSame ==
  ASSUME CallsInv, NEW c \in Callers, NEW r, calls' = [calls EXCEPT ![c] = r],
         \/ calls[c].pc \notin Busy /\ r.pc \notin Busy
         \/ calls[c].pc \in Busy /\ r.pc \in Busy /\ r.key = calls[c].key
  PROVE  \A k \in Keys : Computing(k)' = Computing(k)
BY DEF Computing, Busy, CallsInv, CallsTyped

LEMMA LookupSame ==
  ASSUME CallsInv, NEW c \in Callers, NEW k \in Keys, NEW ts \in TagSets, Lookup(c, k, ts)
  PROVE  \A j \in Keys : Computing(j)' = Computing(j)
<1>1. calls[c] \in Caller /\ calls[c].pc \notin Busy
  BY DEF CallsInv, CallsTyped, Lookup, Busy
<1>2. CASE calls' = [calls EXCEPT ![c] = Ended("done")]
  BY <1>1, <1>2, EndedPc, OneCallSame DEF Busy
<1>3. CASE calls' = [calls EXCEPT ![c] = [calls[c] EXCEPT !.pc = "missed", !.key = k, !.tags = ts]]
  <2>1. [calls[c] EXCEPT !.pc = "missed", !.key = k, !.tags = ts].pc \notin Busy
    BY <1>1 DEF Caller, Busy
  <2>2. QED
    BY <1>1, <1>3, <2>1, OneCallSame
<1>4. QED
  BY <1>2, <1>3 DEF Lookup

LEMMA JoinSame ==
  ASSUME CallsInv, NEW c \in Callers, Join(c)
  PROVE  \A k \in Keys : Computing(k)' = Computing(k)
<1> DEFINE r == [calls[c] EXCEPT !.pc = "waiting", !.awaits = inFlight[calls[c].key]]
<1>1. calls[c] \in Caller /\ calls[c].pc \notin Busy /\ calls' = [calls EXCEPT ![c] = r]
  BY DEF CallsInv, CallsTyped, Join, Busy
<1>2. r.pc \notin Busy
  BY <1>1 DEF Caller, Busy
<1> HIDE DEF r
<1>3. QED
  BY <1>1, <1>2, OneCallSame

LEMMA ReadDataSame ==
  ASSUME CallsInv, NEW c \in Callers, ReadData(c)
  PROVE  \A k \in Keys : Computing(k)' = Computing(k)
<1> DEFINE r == [calls[c] EXCEPT !.pc = "storing", !.version = data]
<1>1. calls[c] \in Caller /\ calls[c].pc \in Busy /\ calls' = [calls EXCEPT ![c] = r]
  BY DEF CallsInv, CallsTyped, ReadData, Busy
<1>2. r.pc \in Busy /\ r.key = calls[c].key
  BY <1>1 DEF Caller, Busy
<1> HIDE DEF r
<1>3. QED
  BY <1>1, <1>2, OneCallSame

LEMMA ComputedSame ==
  ASSUME CallsInv, NEW c \in Callers, ComputeThrows(c) \/ StoreValue(c) \/ SkipStore(c)
  PROVE  \A k \in Keys : Computing(k)' = Computing(k)
<1>1. PICK pc \in {"settling", "failing"} : calls' = [calls EXCEPT ![c].pc = pc]
  BY DEF ComputeThrows, StoreValue, SkipStore
<1> DEFINE r == [calls[c] EXCEPT !.pc = pc]
<1>2. calls[c] \in Caller /\ calls[c].pc \in Busy /\ calls' = [calls EXCEPT ![c] = r]
  BY <1>1 DEF CallsInv, CallsTyped, ComputeThrows, StoreValue, SkipStore, Busy
<1>3. r.pc \in Busy /\ r.key = calls[c].key
  BY <1>2 DEF Caller, Busy
<1> HIDE DEF r
<1>4. QED
  BY <1>2, <1>3, OneCallSame

LEMMA AnswerSame ==
  ASSUME CallsInv, NEW c \in Callers, Answer(c)
  PROVE  \A k \in Keys : Computing(k)' = Computing(k)
<1>1. PICK end \in {"done", "failed"} : calls' = [calls EXCEPT ![c] = Ended(end)]
  BY DEF Answer, Outcome
<1>2. calls[c].pc \notin Busy /\ Ended(end).pc \notin Busy
  BY EndedPc DEF Answer, Busy
<1>3. QED
  BY <1>1, <1>2, OneCallSame

LEMMA InvalidateSame ==
  ASSUME CallsInv, NEW w \in Writers, InvalidateModels(w)
  PROVE  \A k \in Keys : Computing(k)' = Computing(k)
<1>1. \A c \in Callers : calls'[c] = calls[c] \/ calls'[c] = [calls[c] EXCEPT !.raced = TRUE]
  BY DEF InvalidateModels
<1>2. \A c \in Callers : calls[c] \in Caller
  BY DEF CallsInv, CallsTyped
<1>3. \A c \in Callers : calls'[c].pc = calls[c].pc /\ calls'[c].key = calls[c].key
  BY <1>1, <1>2, RacedIsCaller
<1>4. QED
  BY <1>3 DEF Computing

LEMMA StartAdds ==
  ASSUME CallsInv, NEW c \in Callers, NEW k \in Keys, k = calls[c].key, Start(c)
  PROVE  /\ c \notin Computing(k)
         /\ Computing(k)' = Computing(k) \cup {c}
         /\ \A j \in Keys : j # k => Computing(j)' = Computing(j)
<1>1. calls[c] \in Caller /\ calls' = [calls EXCEPT ![c] = [calls[c] EXCEPT !.pc = "computing"]]
  BY DEF CallsInv, CallsTyped, Start
<1> DEFINE r == [calls[c] EXCEPT !.pc = "computing"]
<1>2. r.pc = "computing" /\ r.key = calls[c].key
  BY <1>1 DEF Caller
<1>3. calls[c].pc = "missed" /\ calls' = [calls EXCEPT ![c] = r]
  BY <1>1 DEF Start
<1> HIDE DEF r
<1>4. QED
  BY <1>2, <1>3 DEF Computing, CallsInv, CallsTyped

LEMMA SettleRemoves ==
  ASSUME CallsInv, NEW c \in Callers, NEW k \in Keys, k = calls[c].key, Settle(c)
  PROVE  /\ c \in Computing(k)
         /\ Computing(k)' = Computing(k) \ {c}
         /\ \A j \in Keys : j # k => Computing(j)' = Computing(j)
<1>1. PICK end \in {"done", "failed"} : calls' = [calls EXCEPT ![c] = Ended(end)]
  BY DEF Settle, Outcome
<1>2. Ended(end).pc \notin {"computing", "storing", "settling", "failing"}
  BY EndedPc
<1>3. calls[c].pc \in {"settling", "failing"}
  BY DEF Settle
<1>4. calls \in [Callers -> Caller]
  BY DEF CallsInv, CallsTyped
<1>5. /\ calls'[c].pc \notin {"computing", "storing", "settling", "failing"}
      /\ \A d \in Callers : d # c => calls'[d] = calls[d]
  BY <1>1, <1>2, <1>4
<1>6. QED
  BY <1>3, <1>5 DEF Computing

Sharing == NoPoisonedKey /\ ComputationsCounted

LEMMA SharingInit == CacheInit => Sharing
<1> SUFFICES ASSUME CacheInit PROVE Sharing
  OBVIOUS
<1>1. \A k \in Keys : Computing(k) = {} /\ inFlight[k] = Nothing /\ clears = 0
  BY DEF CacheInit, Computing, IdleCaller
<1>2. QED
  BY <1>1, FS_EmptySet DEF Sharing, NoPoisonedKey, ComputationsCounted

LEMMA SharingStep == CallsInv /\ Sharing /\ [CacheNext]_cacheVars => Sharing'
<1> SUFFICES ASSUME CallsInv, Sharing, [CacheNext]_cacheVars PROVE Sharing'
  OBVIOUS
<1> USE CacheConstants DEF CacheConstants
<1>1. ASSUME \A k \in Keys : Computing(k)' = Computing(k), UNCHANGED <<inFlight, clears>> PROVE Sharing'
  BY <1>1 DEF Sharing, NoPoisonedKey, ComputationsCounted
<1>2. ASSUME NEW c \in Callers, Start(c) PROVE Sharing'
  <2>0. PICK k \in Keys : k = calls[c].key
    BY <1>2 DEF Start, CallsInv, KeysKnown
  <2>1. inFlight[k] = Nothing /\ UNCHANGED clears
        /\ inFlight' = [inFlight EXCEPT ![k] = c]
    BY <1>2, <2>0 DEF Start
  <2>2. /\ c \notin Computing(k) /\ Computing(k)' = Computing(k) \cup {c}
        /\ \A j \in Keys : j # k => Computing(j)' = Computing(j)
    BY <1>2, <2>0, StartAdds
  <2>3. IsFiniteSet(Computing(k)) /\ Cardinality(Computing(k)) <= clears
    BY <2>1 DEF Sharing, ComputationsCounted
  <2>4. IsFiniteSet(Computing(k)') /\ Cardinality(Computing(k)') = Cardinality(Computing(k)) + 1
    BY <2>2, <2>3, FS_AddElement
  <2>5. Cardinality(Computing(k)) \in Nat /\ clears \in Nat
    BY <2>3, FS_CardinalityType DEF CallsInv, CallsTyped
  <2>6. Cardinality(Computing(k)') <= clears' + 1 /\ inFlight'[k] = c
    BY <2>1, <2>3, <2>4, <2>5 DEF CallsInv, CallsTyped
  <2>7. \A j \in Keys : j # k => inFlight'[j] = inFlight[j]
    BY <2>1 DEF CallsInv, CallsTyped
  <2>8. ASSUME NEW j \in Keys
        PROVE  /\ inFlight'[j] # Nothing => inFlight'[j] \in Computing(j)'
               /\ IsFiniteSet(Computing(j)')
               /\ Cardinality(Computing(j)') <= IF inFlight'[j] = Nothing THEN clears' ELSE clears' + 1
    <3>1. CASE j = k
      BY <2>1, <2>2, <2>4, <2>6, CacheConstants, <3>1
    <3>2. CASE j # k
      <4>1. Computing(j)' = Computing(j) /\ inFlight'[j] = inFlight[j] /\ clears' = clears
        BY <2>1, <2>2, <2>7, <3>2
      <4>2. QED
        BY <4>1 DEF Sharing, NoPoisonedKey, ComputationsCounted
    <3>3. QED
      BY <3>1, <3>2
  <2>9. QED
    BY <2>8 DEF Sharing, NoPoisonedKey, ComputationsCounted
<1>3. ASSUME NEW c \in Callers, Settle(c) PROVE Sharing'
  <2>0. PICK k \in Keys : k = calls[c].key
    BY <1>3 DEF Settle, CallsInv, KeysKnown
  <2>1. UNCHANGED clears /\ inFlight' = [inFlight EXCEPT ![k] = Nothing]
    BY <1>3, <2>0 DEF Settle
  <2>2. /\ c \in Computing(k) /\ Computing(k)' = Computing(k) \ {c}
        /\ \A j \in Keys : j # k => Computing(j)' = Computing(j)
    BY <1>3, <2>0, SettleRemoves
  <2>3. IsFiniteSet(Computing(k)) /\ Cardinality(Computing(k)) <= clears + 1
    <3>1. IsFiniteSet(Computing(k)) /\ Cardinality(Computing(k)) \in Nat /\ clears \in Nat
      BY <2>2, FS_CardinalityType DEF Sharing, ComputationsCounted, CallsInv, CallsTyped
    <3>2. Cardinality(Computing(k)) <= IF inFlight[k] = Nothing THEN clears ELSE clears + 1
      BY <2>2 DEF Sharing, ComputationsCounted
    <3>3. QED
      BY <3>1, <3>2
  <2>4. IsFiniteSet(Computing(k)') /\ Cardinality(Computing(k)') = Cardinality(Computing(k)) - 1
    BY <2>2, <2>3, FS_RemoveElement
  <2>5. Cardinality(Computing(k)) \in Nat /\ clears \in Nat
    BY <2>3, FS_CardinalityType DEF CallsInv, CallsTyped
  <2>6. Cardinality(Computing(k)') <= clears' /\ inFlight'[k] = Nothing
    BY <2>1, <2>2, <2>3, <2>4, <2>5 DEF CallsInv, CallsTyped
  <2>7. \A j \in Keys : j # k => inFlight'[j] = inFlight[j]
    BY <2>1, <2>2 DEF CallsInv, CallsTyped
  <2>8. ASSUME NEW j \in Keys
        PROVE  /\ inFlight'[j] # Nothing => inFlight'[j] \in Computing(j)'
               /\ IsFiniteSet(Computing(j)')
               /\ Cardinality(Computing(j)') <= IF inFlight'[j] = Nothing THEN clears' ELSE clears' + 1
    <3>1. CASE j = k
      BY <2>4, <2>6, <3>1
    <3>2. CASE j # k
      <4>1. Computing(j)' = Computing(j) /\ inFlight'[j] = inFlight[j] /\ clears' = clears
        BY <2>1, <2>2, <2>7, <3>2
      <4>2. QED
        BY <4>1 DEF Sharing, NoPoisonedKey, ComputationsCounted
    <3>3. QED
      BY <3>1, <3>2
  <2>9. QED
    BY <2>8 DEF Sharing, NoPoisonedKey, ComputationsCounted
<1>4. CASE Clear
  <2>1. \A k \in Keys : Computing(k)' = Computing(k)
    BY <1>4 DEF Clear, Computing
  <2>2. clears' = clears + 1 /\ \A k \in Keys : inFlight'[k] = Nothing
    BY <1>4 DEF Clear
  <2>3. ASSUME NEW k \in Keys
        PROVE  IsFiniteSet(Computing(k)) /\ Cardinality(Computing(k)) <= clears + 1
    <3>1. IsFiniteSet(Computing(k)) /\ Cardinality(Computing(k)) \in Nat
      BY FS_CardinalityType DEF Sharing, ComputationsCounted
    <3>2. QED
      BY <3>1 DEF Sharing, ComputationsCounted, CallsInv, CallsTyped
  <2>4. QED
    BY <2>1, <2>2, <2>3 DEF Sharing, NoPoisonedKey, ComputationsCounted
<1>5. ASSUME NEW c \in Callers, NEW k \in Keys, NEW ts \in TagSets, Lookup(c, k, ts) PROVE Sharing'
  BY <1>1, <1>5, LookupSame DEF Lookup
<1>6. ASSUME NEW c \in Callers, Join(c) PROVE Sharing'
  BY <1>1, <1>6, JoinSame DEF Join
<1>7. ASSUME NEW c \in Callers, ReadData(c) PROVE Sharing'
  BY <1>1, <1>7, ReadDataSame DEF ReadData
<1>8. ASSUME NEW c \in Callers, ComputeThrows(c) \/ StoreValue(c) \/ SkipStore(c) PROVE Sharing'
  BY <1>1, <1>8, ComputedSame DEF ComputeThrows, StoreValue, SkipStore
<1>9. ASSUME NEW c \in Callers, Answer(c) PROVE Sharing'
  BY <1>1, <1>9, AnswerSame DEF Answer
<1>10. ASSUME NEW w \in Writers, InvalidateModels(w) PROVE Sharing'
  BY <1>1, <1>10, InvalidateSame DEF InvalidateModels
<1>11. ASSUME UNCHANGED <<calls, inFlight, clears>> PROVE Sharing'
  BY <1>1, <1>11 DEF Computing
<1>12. ASSUME NEW w \in Writers, WriteRows(w) \/ HookThrows(w) PROVE Sharing'
  BY <1>11, <1>12 DEF WriteRows, HookThrows
<1>13. ASSUME NEW ts \in TagSets, Invalidate(ts) PROVE Sharing'
  BY <1>11, <1>13 DEF Invalidate
<1>14. ASSUME NEW k \in Keys, Delete(k) PROVE Sharing'
  BY <1>11, <1>14 DEF Delete
<1>15. CASE ClockTicks
  BY <1>11, <1>15 DEF ClockTicks
<1>16. CASE UNCHANGED cacheVars
  BY <1>11, <1>16 DEF cacheVars
<1>17. QED
  BY <1>2, <1>3, <1>4, <1>5, <1>6, <1>7, <1>8, <1>9, <1>10, <1>12, <1>13, <1>14, <1>15, <1>16
  DEF CacheNext, CallerStep

\* A registered computation has not ended: a failure sticks to no key, and whoever
\* joins is answered.
THEOREM NothingPoisoned == CacheSpec => []NoPoisonedKey
<1>1. CacheInit => CallsInv /\ Sharing
  BY CallsInit, SharingInit
<1>2. CallsInv /\ Sharing /\ [CacheNext]_cacheVars => (CallsInv /\ Sharing)'
  BY CallsStep, SharingStep
<1>3. CallsInv /\ Sharing => NoPoisonedKey
  BY DEF Sharing
<1>4. QED
  BY <1>1, <1>2, <1>3, PTL DEF CacheSpec

\* The computations that run side by side for a key are at most one more than the
\* calls of clear() so far.
THEOREM StampedeBounded == CacheSpec => []BoundedStampede
<1>1. CacheInit => CallsInv /\ Sharing
  BY CallsInit, SharingInit
<1>2. CallsInv /\ Sharing /\ [CacheNext]_cacheVars => (CallsInv /\ Sharing)'
  BY CallsStep, SharingStep
<1>3. CallsInv /\ Sharing => BoundedStampede
  <2> SUFFICES ASSUME CallsInv, Sharing, NEW k \in Keys
               PROVE  Cardinality(Computing(k)) <= 1 + clears
    BY DEF BoundedStampede
  <2>1. IsFiniteSet(Computing(k)) /\ Cardinality(Computing(k)) \in Nat /\ clears \in Nat
    BY FS_CardinalityType DEF Sharing, ComputationsCounted, CallsInv, CallsTyped
  <2>2. QED
    BY <2>1 DEF Sharing, ComputationsCounted
<1>4. QED
  BY <1>1, <1>2, <1>3, PTL DEF CacheSpec

-----------------------------------------------------------------------------
(* Freshness *)

WritersTyped == writers \in [Writers -> Nat] /\ missed \subseteq Nat

\* What an entry is tagged with, the index knows: an invalidation misses none.
Indexed == \A k \in Keys, t \in Tags :
  entries[k] # Nothing /\ t \in entries[k].tags => k \in byTag[t]

\* No write after this version has cleared anything.
Excused(version) == \A v \in 1..data : v > version => v \in Unheard

\* What a computation has read is excused, or it is known to have raced an invalidation.
ReadsFresh == \A c \in Callers : calls[c].pc = "storing" =>
  calls[c].raced \/ Excused(calls[c].version)

Fresh == WritersTyped /\ Indexed /\ ReadsFresh /\ FreshUnlessRaced

LEMMA FreshInit == CacheInit => Fresh
BY DEF CacheInit, Fresh, WritersTyped, Indexed, ReadsFresh, FreshUnlessRaced, Cached, IdleCaller

LEMMA ForgetIndexed ==
  ASSUME NEW ks, Indexed, Forget(ks)
  PROVE  Indexed' /\ \A k \in Keys : entries'[k] \in {entries[k], Nothing}
BY DEF Forget, Indexed

LEMMA PutIndexed ==
  ASSUME NEW k \in Keys, NEW entry, Indexed, Put(k, entry)
  PROVE  /\ Indexed' /\ entries'[k] = entry
         /\ \A j \in Keys : j # k => entries'[j] \in {entries[j], Nothing}
<1> DEFINE gone == Evicted(k)
<1>1. /\ entries' = [j \in Keys |-> IF j = k THEN entry
                                   ELSE IF j \in gone THEN Nothing ELSE entries[j]]
      /\ byTag' = [t \in Tags |-> IF t \in entry.tags THEN (byTag[t] \ gone) \cup {k}
                                 ELSE byTag[t] \ (gone \cup {k})]
  BY DEF Put
<1> HIDE DEF gone
<1>2. QED
  BY <1>1 DEF Indexed

\* Entries that only go stay as fresh as they were.
LEMMA EntriesStayFresh ==
  ASSUME FreshUnlessRaced, \A k \in Keys : entries'[k] \in {entries[k], Nothing},
         UNCHANGED <<data, writers, missed>>
  PROVE  FreshUnlessRaced'
BY DEF FreshUnlessRaced, Cached, Unheard

\* A step of one call that does not read keeps what the others have read.
LEMMA ReadsStayFresh ==
  ASSUME CallsInv, ReadsFresh, NEW c \in Callers, NEW r, calls' = [calls EXCEPT ![c] = r],
         r.pc # "storing", UNCHANGED <<data, writers, missed>>
  PROVE  ReadsFresh'
BY DEF ReadsFresh, Excused, Unheard, CallsInv, CallsTyped

LEMMA CallsOnlyFresh ==
  ASSUME CallsInv, Fresh, NEW c \in Callers, NEW r, calls' = [calls EXCEPT ![c] = r],
         r.pc # "storing", UNCHANGED <<data, writers, missed, entries, byTag>>
  PROVE  Fresh'
<1>1. ReadsFresh'
  BY ReadsStayFresh DEF Fresh
<1>2. WritersTyped' /\ Indexed' /\ FreshUnlessRaced'
  BY DEF Fresh, WritersTyped, Indexed, FreshUnlessRaced, Cached, Unheard
<1>3. QED
  BY <1>1, <1>2 DEF Fresh

LEMMA LookupFresh ==
  ASSUME CallsInv, Fresh, NEW c \in Callers, NEW k \in Keys, NEW ts \in TagSets, Lookup(c, k, ts)
  PROVE  Fresh'
<1>1. UNCHANGED <<data, writers, missed>>
  BY DEF Lookup
<1>2. calls[c] \in Caller
  BY DEF CallsInv, CallsTyped
<1>3. ReadsFresh'
  <2>1. CASE calls' = [calls EXCEPT ![c] = Ended("done")]
    BY <1>1, <2>1, EndedPc, ReadsStayFresh DEF Fresh
  <2>2. CASE calls' = [calls EXCEPT ![c] = [calls[c] EXCEPT !.pc = "missed", !.key = k, !.tags = ts]]
    <3>1. [calls[c] EXCEPT !.pc = "missed", !.key = k, !.tags = ts].pc = "missed"
      BY <1>2 DEF Caller
    <3>2. QED
      BY <1>1, <2>2, <3>1, ReadsStayFresh DEF Fresh
  <2>3. QED
    BY <2>1, <2>2 DEF Lookup
<1>4. Forget({k}) \/ UNCHANGED <<entries, byTag>>
  BY DEF Lookup, Touch, store
<1>5. Indexed' /\ \A j \in Keys : entries'[j] \in {entries[j], Nothing}
  <2>1. CASE Forget({k})
    BY <2>1, ForgetIndexed DEF Fresh
  <2>2. CASE UNCHANGED <<entries, byTag>>
    BY <2>2 DEF Fresh, Indexed
  <2>3. QED
    BY <1>4, <2>1, <2>2
<1>6. FreshUnlessRaced'
  BY <1>1, <1>5, EntriesStayFresh DEF Fresh
<1>7. QED
  BY <1>1, <1>3, <1>5, <1>6 DEF Fresh, WritersTyped

LEMMA ReadDataFresh ==
  ASSUME CallsInv, Fresh, NEW c \in Callers, ReadData(c)
  PROVE  Fresh'
<1> DEFINE r == [calls[c] EXCEPT !.pc = "storing", !.version = data]
<1>1. calls[c] \in Caller /\ data \in Nat
  BY DEF CallsInv, CallsTyped
<1>2. r.version = data
  BY <1>1 DEF Caller
<1>3. calls' = [calls EXCEPT ![c] = r] /\ UNCHANGED <<data, writers, missed, entries, byTag>>
  BY DEF ReadData, store
<1> HIDE DEF r
<1>4. ReadsFresh'
  BY <1>1, <1>2, <1>3 DEF Fresh, ReadsFresh, Excused, Unheard, CallsInv, CallsTyped
<1>5. WritersTyped' /\ Indexed' /\ FreshUnlessRaced'
  BY <1>3 DEF Fresh, WritersTyped, Indexed, FreshUnlessRaced, Cached, Unheard
<1>6. QED
  BY <1>4, <1>5 DEF Fresh

LEMMA StoreFresh ==
  ASSUME CallsInv, Fresh, NEW c \in Callers, StoreValue(c)
  PROVE  Fresh'
<1>1. PICK k \in Keys : k = calls[c].key
  BY DEF StoreValue, CallsInv, KeysKnown
<1> DEFINE entry == [version |-> calls[c].version, tags |-> calls[c].tags,
                     expiresAt |-> clock + Ttl, raced |-> calls[c].raced]
<1>2. Put(k, entry) /\ UNCHANGED <<data, writers, missed>> /\ calls[c].pc = "storing"
  BY <1>1 DEF StoreValue
<1>3. entry.version = calls[c].version /\ entry.raced = calls[c].raced
  OBVIOUS
<1>4. calls' = [calls EXCEPT ![c] = [calls[c] EXCEPT !.pc = "settling"]]
  BY DEF StoreValue
<1>5. [calls[c] EXCEPT !.pc = "settling"].pc = "settling"
  BY DEF CallsInv, CallsTyped, Caller
<1> HIDE DEF entry
<1>6. ReadsFresh'
  BY <1>2, <1>4, <1>5, ReadsStayFresh DEF Fresh
<1>7. /\ Indexed' /\ entries'[k] = entry
      /\ \A j \in Keys : j # k => entries'[j] \in {entries[j], Nothing}
  BY <1>2, PutIndexed DEF Fresh
<1>8. entry.raced \/ Excused(entry.version)
  BY <1>2, <1>3 DEF Fresh, ReadsFresh
<1>9. FreshUnlessRaced'
  BY <1>2, <1>7, <1>8 DEF Fresh, FreshUnlessRaced, Cached, Excused, Unheard
<1>10. QED
  BY <1>2, <1>6, <1>7, <1>9 DEF Fresh, WritersTyped

\* A write is excused until its hooks have run, and for good if one of them throws.
LEMMA WriteFresh ==
  ASSUME CallsInv, Fresh, NEW w \in Writers, WriteRows(w) \/ HookThrows(w)
  PROVE  Fresh'
<1>1. UNCHANGED <<calls, entries, byTag>>
  BY DEF WriteRows, HookThrows, store
<1>2. data \in Nat /\ writers \in [Writers -> Nat] /\ missed \subseteq Nat
  BY DEF CallsInv, CallsTyped, Fresh, WritersTyped
<1>3. WritersTyped' /\ data' \in {data, data + 1}
  <2>1. CASE WriteRows(w)
    BY <1>2, <2>1 DEF WriteRows, WritersTyped
  <2>2. CASE HookThrows(w)
    <3>1. writers[w] \in Nat /\ writers' = [writers EXCEPT ![w] = 0]
      BY <1>2, <2>2 DEF HookThrows
    <3>2. missed' = missed \cup {writers[w]} /\ data' = data
      BY <2>2 DEF HookThrows
    <3>3. missed' \subseteq Nat
      BY <1>2, <3>1, <3>2
    <3>4. QED
      BY <1>2, <3>1, <3>2, <3>3 DEF WritersTyped
  <2>3. QED
    BY <2>1, <2>2
<1>4. \A v \in Unheard : v # 0 => v \in Unheard'
  <2>1. CASE WriteRows(w)
    BY <1>2, <2>1 DEF WriteRows, Unheard
  <2>2. CASE HookThrows(w)
    BY <1>2, <2>2 DEF HookThrows, Unheard
  <2>3. QED
    BY <2>1, <2>2
<1>5. data' # data => data' \in Unheard'
  <2>1. WriteRows(w) => writers'[w] = data'
    BY <1>2 DEF WriteRows
  <2>2. QED
    BY <2>1 DEF Unheard, HookThrows
<1>6. \A v \in 1..data' : v \in 1..data \/ v \in Unheard'
  BY <1>2, <1>3, <1>5
<1>7. \A v \in 1..data' : v \in Unheard => v \in Unheard'
  BY <1>2, <1>3, <1>4
<1>8. ReadsFresh'
  BY <1>1, <1>6, <1>7 DEF Fresh, ReadsFresh, Excused
<1>9. FreshUnlessRaced'
  BY <1>1, <1>6, <1>7 DEF Fresh, FreshUnlessRaced, Cached
<1>10. QED
  BY <1>1, <1>3, <1>8, <1>9 DEF Fresh, Indexed

\* The hooks leave no tagged entry, and mark whoever has read too early.
LEMMA InvalidateFresh ==
  ASSUME CallsInv, Fresh, NEW w \in Writers, InvalidateModels(w)
  PROVE  Fresh'
<1>1. /\ Forget(byTag[ModelTag]) /\ UNCHANGED <<data, missed>>
      /\ writers' = [writers EXCEPT ![w] = 0]
  BY DEF InvalidateModels
<1>2. Indexed'
  BY <1>1, ForgetIndexed DEF Fresh
<1>3. \A k \in Keys : entries'[k] # Nothing => ModelTag \notin entries'[k].tags
  BY <1>1, CacheConstants DEF Fresh, Indexed, Forget, CacheConstants
<1>4. FreshUnlessRaced'
  BY <1>3 DEF FreshUnlessRaced, Cached
<1>5. \A c \in Callers :
        calls[c] \in Caller /\ calls[c].version \in Nat /\ data \in Nat
  BY DEF CallsInv, CallsTyped, Caller
<1>6. \A c \in Callers :
        calls'[c] = IF Outdated(c) THEN [calls[c] EXCEPT !.raced = TRUE] ELSE calls[c]
  BY DEF InvalidateModels
<1>7. ASSUME NEW c \in Callers, calls'[c].pc = "storing", ~calls'[c].raced
      PROVE  calls'[c].version \in Nat /\ ~(calls'[c].version < data)
  <2>1. ~Outdated(c)
    <3>1. [calls[c] EXCEPT !.raced = TRUE].raced
      BY <1>5 DEF Caller
    <3>2. QED
      BY <1>6, <1>7, <3>1
  <2>2. calls'[c] = calls[c]
    BY <1>6, <2>1
  <2>3. QED
    BY <1>5, <1>7, <2>1, <2>2 DEF Outdated
<1>8. ReadsFresh'
  BY <1>1, <1>5, <1>7 DEF ReadsFresh, Excused
<1>9. WritersTyped'
  BY <1>1 DEF Fresh, WritersTyped
<1>10. QED
  BY <1>2, <1>4, <1>8, <1>9 DEF Fresh

LEMMA ForgetFresh ==
  ASSUME Fresh, NEW ks, Forget(ks), UNCHANGED <<data, calls, writers, missed>>
  PROVE  Fresh'
<1>1. Indexed' /\ FreshUnlessRaced'
  BY ForgetIndexed, EntriesStayFresh DEF Fresh
<1>2. QED
  BY <1>1 DEF Fresh, WritersTyped, ReadsFresh, Excused, Unheard

LEMMA FreshStep == CallsInv /\ Fresh /\ [CacheNext]_cacheVars => Fresh'
<1> SUFFICES ASSUME CallsInv, Fresh, [CacheNext]_cacheVars PROVE Fresh'
  OBVIOUS
<1>1. ASSUME NEW c \in Callers, NEW pc \in {"waiting", "computing", "settling", "failing"},
             NEW a \in Callers \cup {Nothing},
             calls' = [calls EXCEPT ![c] = [calls[c] EXCEPT !.pc = pc, !.awaits = a]],
             UNCHANGED <<data, writers, missed, entries, byTag>>
      PROVE  Fresh'
  <2>1. [calls[c] EXCEPT !.pc = pc, !.awaits = a].pc # "storing"
    BY DEF CallsInv, CallsTyped, Caller
  <2>2. QED
    BY <1>1, <2>1, CallsOnlyFresh
<1>2. ASSUME NEW c \in Callers, NEW pc \in {"computing", "settling", "failing"},
             calls' = [calls EXCEPT ![c].pc = pc], UNCHANGED <<data, writers, missed, entries, byTag>>
      PROVE  Fresh'
  <2>1. [calls[c] EXCEPT !.pc = pc].pc # "storing"
    BY DEF CallsInv, CallsTyped, Caller
  <2>2. QED
    BY <1>2, <2>1, CallsOnlyFresh
<1>3. ASSUME NEW c \in Callers, Join(c) PROVE Fresh'
  <2>1. inFlight[calls[c].key] \in Callers \cup {Nothing}
    BY <1>3 DEF Join, CallsInv, CallsTyped, KeysKnown
  <2>2. QED
    BY <1>1, <1>3, <2>1 DEF Join, store
<1>4. ASSUME NEW c \in Callers, Start(c) \/ ComputeThrows(c) \/ SkipStore(c) PROVE Fresh'
  BY <1>2, <1>4 DEF Start, ComputeThrows, SkipStore, store
<1>5. ASSUME NEW c \in Callers, Settle(c) \/ Answer(c) PROVE Fresh'
  <2>1. PICK end \in {"done", "failed"} : calls' = [calls EXCEPT ![c] = Ended(end)]
    BY <1>5 DEF Settle, Answer, Outcome
  <2>2. UNCHANGED <<data, writers, missed, entries, byTag>>
    BY <1>5 DEF Settle, Answer, store
  <2>3. QED
    BY <2>1, <2>2, EndedPc, CallsOnlyFresh
<1>6. ASSUME NEW ts \in TagSets, Invalidate(ts) PROVE Fresh'
  BY <1>6, ForgetFresh DEF Invalidate
<1>7. ASSUME NEW k \in Keys, Delete(k) PROVE Fresh'
  BY <1>7, ForgetFresh DEF Delete
<1>8. CASE Clear
  BY <1>8, ForgetFresh DEF Clear
<1>9. CASE ClockTicks \/ UNCHANGED cacheVars
  <2>1. UNCHANGED <<data, calls, writers, missed, entries, byTag>>
    BY <1>9 DEF ClockTicks, cacheVars, store
  <2>2. QED
    BY <2>1 DEF Fresh, WritersTyped, Indexed, ReadsFresh, Excused, Unheard, FreshUnlessRaced, Cached
<1>10. QED
  BY <1>3, <1>4, <1>5, <1>6, <1>7, <1>8, <1>9, LookupFresh, ReadDataFresh, StoreFresh, WriteFresh,
     InvalidateFresh DEF CacheNext, CallerStep

\* However many writes, calls and computations overlap: of the writes since a tagged
\* entry's data were read, none has run its hook, unless the computation had read the
\* data before an invalidation and stored it after.
THEOREM FreshBetweenWrites == CacheSpec => []FreshUnlessRaced
<1>1. CacheInit => CallsInv /\ Fresh
  BY CallsInit, FreshInit
<1>2. CallsInv /\ Fresh /\ [CacheNext]_cacheVars => (CallsInv /\ Fresh)'
  BY CallsStep, FreshStep
<1>3. CallsInv /\ Fresh => FreshUnlessRaced
  BY DEF Fresh
<1>4. QED
  BY <1>1, <1>2, <1>3, PTL DEF CacheSpec

-----------------------------------------------------------------------------
(* The store and its index *)

KeysIn(s) == {s[i] : i \in 1..Len(s)}
Once(s) == \A i, j \in 1..Len(s) : s[i] = s[j] => i = j

\* A sequence that names no key twice is as long as the set of its keys.
LEMMA OnceCounts ==
  ASSUME NEW s \in Seq(Keys), Once(s)
  PROVE  IsFiniteSet(KeysIn(s)) /\ Cardinality(KeysIn(s)) = Len(s)
<1>1. Len(s) \in Nat
  OBVIOUS
<1>2. IsFiniteSet(1..Len(s)) /\ Cardinality(1..Len(s)) = Len(s)
  BY <1>1, FS_Interval
<1> DEFINE f == [i \in 1..Len(s) |-> s[i]]
<1>3. f \in Bijection(1..Len(s), KeysIn(s))
  <2>1. f \in [1..Len(s) -> KeysIn(s)]
    BY DEF KeysIn
  <2>2. f \in Injection(1..Len(s), KeysIn(s))
    BY <2>1 DEF Injection, IsInjective, Once
  <2>3. \A k \in KeysIn(s) : \E i \in 1..Len(s) : f[i] = k
    BY DEF KeysIn
  <2>4. f \in Surjection(1..Len(s), KeysIn(s))
    <3> HIDE DEF f
    <3>1. QED
      BY <2>1, <2>3 DEF Surjection
  <2>5. QED
    BY <2>2, <2>4 DEF Bijection
<1>4. ExistsBijection(1..Len(s), KeysIn(s))
  BY <1>3 DEF ExistsBijection
<1>5. QED
  BY <1>2, <1>4, FS_Bijection

\* Taking keys out leaves the others, each once.
LEMMA WithoutShape ==
  ASSUME order \in Seq(Keys), Once(order), NEW ks
  PROVE  /\ Without(ks) \in Seq(Keys) /\ Once(Without(ks))
         /\ KeysIn(Without(ks)) = KeysIn(order) \ ks
<1> DEFINE kept == {i \in 1..Len(order) : order[i] \notin ks}
           upTo(i) == {j \in kept : j <= i}
           rank(i) == Cardinality(upTo(i))
           n == Cardinality(kept)
           at(m) == CHOOSE i \in kept : rank(i) = m
<1>1. Len(order) \in Nat /\ kept \subseteq 1..Len(order) /\ IsFiniteSet(kept) /\ n \in Nat
  <2>1. Len(order) \in Nat /\ kept \subseteq 1..Len(order)
    OBVIOUS
  <2>2. IsFiniteSet(1..Len(order))
    BY <2>1, FS_Interval
  <2>3. IsFiniteSet(kept)
    <3> HIDE DEF kept
    <3>1. QED
      BY <2>1, <2>2, FS_Subset
  <2>4. QED
    BY <2>1, <2>3, FS_CardinalityType
<1>2. ASSUME NEW i \in kept
      PROVE  /\ i \in upTo(i) /\ IsFiniteSet(upTo(i)) /\ rank(i) \in 1..n
  <2>1. i \in upTo(i) /\ upTo(i) \subseteq kept
    BY <1>1
  <2> HIDE DEF upTo, kept
  <2>2. IsFiniteSet(upTo(i)) /\ rank(i) <= n
    BY <1>1, <2>1, FS_Subset
  <2>3. rank(i) \in Nat /\ rank(i) # 0
    BY <2>1, <2>2, FS_CardinalityType, FS_EmptySet
  <2>4. QED
    BY <1>1, <2>1, <2>2, <2>3
<1>3. ASSUME NEW i \in kept, NEW j \in kept, i < j PROVE rank(i) # rank(j)
  <2>1. upTo(i) \subseteq upTo(j) /\ j \in upTo(j) /\ j \notin upTo(i)
    BY <1>1, <1>3
  <2>2. IsFiniteSet(upTo(j))
    BY <1>2
  <2> HIDE DEF upTo, kept
  <2>3. QED
    BY <2>1, <2>2, FS_Subset
<1>4. ASSUME NEW i \in kept, NEW j \in kept, rank(i) = rank(j) PROVE i = j
  <2>1. i \in Int /\ j \in Int
    BY <1>1
  <2> HIDE DEF rank, kept
  <2>2. QED
    BY <1>3, <1>4, <2>1
<1>5. ASSUME NEW m \in 1..n PROVE at(m) \in kept /\ rank(at(m)) = m
  <2> DEFINE f == [i \in kept |-> rank(i)]
  <2>1. f \in [kept -> 1..n]
    BY <1>2
  <2>2. f \in Injection(kept, 1..n)
    <3> HIDE DEF rank, kept, n
    <3>1. QED
      BY <1>4, <2>1 DEF Injection, IsInjective
  <2>3. IsFiniteSet(1..n) /\ Cardinality(1..n) = n
    BY <1>1, FS_Interval
  <2>4. f \in Surjection(kept, 1..n)
    <3> HIDE DEF f
    <3>1. QED
      BY <2>2, <2>3, FS_Injection
  <2>5. \E i \in kept : f[i] = m
    <3> HIDE DEF f
    <3>1. QED
      BY <2>4 DEF Surjection
  <2>6. \E i \in kept : rank(i) = m
    BY <2>5
  <2> HIDE DEF rank, kept
  <2>7. QED
    BY <2>6
<1>6. Without(ks) = [m \in 1..n |-> order[at(m)]]
  BY DEF Without
<1>7. \A i \in kept : order[i] \in Keys /\ order[i] \notin ks /\ order[i] \in KeysIn(order)
  BY DEF KeysIn
<1>8. Without(ks) \in Seq(Keys) /\ Len(Without(ks)) = n
  <2> HIDE DEF kept, n, at
  <2>1. \A m \in 1..n : order[at(m)] \in Keys
    BY <1>5, <1>7
  <2>2. QED
    BY <1>1, <1>6, <2>1, IsASeq
<1>9. Once(Without(ks))
  <2>1. ASSUME NEW l \in 1..n, NEW m \in 1..n, order[at(l)] = order[at(m)] PROVE l = m
    <3>1. at(l) \in kept /\ at(m) \in kept /\ rank(at(l)) = l /\ rank(at(m)) = m
      BY <1>5
    <3> HIDE DEF kept, n, at, rank
    <3>2. at(l) \in 1..Len(order) /\ at(m) \in 1..Len(order)
      BY <1>1, <3>1
    <3>3. at(l) = at(m)
      BY <2>1, <3>2 DEF Once
    <3>4. QED
      BY <3>1, <3>3
  <2> HIDE DEF kept, n, at
  <2>2. QED
    BY <1>6, <1>8, <2>1 DEF Once
<1>10. KeysIn(Without(ks)) \subseteq KeysIn(order) \ ks
  <2> HIDE DEF kept, n, at
  <2>1. \A m \in 1..n : order[at(m)] \in KeysIn(order) \ ks
    BY <1>5, <1>7
  <2>2. QED
    BY <1>6, <1>8, <2>1 DEF KeysIn
<1>11. ASSUME NEW k \in KeysIn(order) \ ks PROVE k \in KeysIn(Without(ks))
  <2>1. PICK i \in 1..Len(order) : order[i] = k
    BY DEF KeysIn
  <2>2. i \in kept
    BY <2>1
  <2>3. rank(i) \in 1..n
    BY <1>2, <2>2
  <2>4. at(rank(i)) = i
    BY <1>4, <1>5, <2>2, <2>3
  <2> HIDE DEF kept, n, at, rank
  <2>5. Without(ks)[rank(i)] = k
    BY <1>6, <2>1, <2>3, <2>4
  <2>6. QED
    BY <1>8, <2>3, <2>5 DEF KeysIn
<1>12. QED
  BY <1>8, <1>9, <1>10, <1>11

\* What is appended is a key the sequence does not have.
LEMMA AppendShape ==
  ASSUME NEW s \in Seq(Keys), Once(s), NEW k \in Keys \ KeysIn(s)
  PROVE  /\ Append(s, k) \in Seq(Keys) /\ Once(Append(s, k))
         /\ KeysIn(Append(s, k)) = KeysIn(s) \cup {k} /\ Len(Append(s, k)) = Len(s) + 1
<1>1. /\ Append(s, k) \in Seq(Keys) /\ Len(Append(s, k)) = Len(s) + 1 /\ Len(s) \in Nat
      /\ Append(s, k)[Len(s) + 1] = k /\ \A i \in 1..Len(s) : Append(s, k)[i] = s[i]
  OBVIOUS
<1> DEFINE t == Append(s, k)
<1> HIDE DEF t
<1>2. Len(t) = Len(s) + 1 /\ t[Len(s) + 1] = k /\ \A i \in 1..Len(s) : t[i] = s[i]
  BY <1>1 DEF t
<1>3. \A i \in 1..Len(t) : i = Len(s) + 1 \/ i \in 1..Len(s)
  BY <1>1, <1>2
<1>4. \A i \in 1..Len(s) : s[i] # k
  BY DEF KeysIn
<1>5. Once(t)
  <2>1. ASSUME NEW i \in 1..Len(t), NEW j \in 1..Len(t), t[i] = t[j] PROVE i = j
    <3>1. CASE i \in 1..Len(s) /\ j \in 1..Len(s)
      BY <1>2, <2>1, <3>1 DEF Once
    <3>2. QED
      BY <1>2, <1>3, <1>4, <2>1, <3>1
  <2>2. QED
    BY <2>1 DEF Once
<1>6. KeysIn(t) = KeysIn(s) \cup {k}
  <2>1. ASSUME NEW x \in KeysIn(t) PROVE x \in KeysIn(s) \cup {k}
    BY <1>2, <1>3, <2>1 DEF KeysIn
  <2>2. ASSUME NEW x \in KeysIn(s) PROVE x \in KeysIn(t)
    <3>1. PICK i \in 1..Len(s) : s[i] = x
      BY <2>2 DEF KeysIn
    <3>2. i \in 1..Len(t) /\ t[i] = x
      BY <1>1, <1>2, <3>1
    <3>3. QED
      BY <3>2 DEF KeysIn
  <2>3. k \in KeysIn(t)
    <3>1. Len(s) + 1 \in 1..Len(t)
      BY <1>1, <1>2
    <3>2. QED
      BY <1>2, <3>1 DEF KeysIn
  <2>4. QED
    BY <2>1, <2>2, <2>3
<1>7. QED
  BY <1>1, <1>5, <1>6 DEF t

StoreTyped ==
  /\ order \in Seq(Keys) /\ entries \in [Keys -> Entry \cup {Nothing}]
  /\ byTag \in [Tags -> SUBSET Keys] /\ clock \in Nat /\ lastSweep \in Int

\* The three parts of the store name the same keys, each once, within the cap.
StoreInv ==
  /\ StoreTyped
  /\ Once(order)
  /\ KeysIn(order) = {k \in Keys : entries[k] # Nothing}
  /\ Len(order) <= MaxEntries
  /\ \A t \in Tags : byTag[t] = {k \in Keys : entries[k] # Nothing /\ t \in entries[k].tags}

\* The same after a step.
LEMMA StoreInvNext ==
  ASSUME order' \in Seq(Keys), entries' \in [Keys -> Entry \cup {Nothing}],
         byTag' \in [Tags -> SUBSET Keys], clock' \in Nat, lastSweep' \in Int,
         Once(order'), KeysIn(order') = {k \in Keys : entries'[k] # Nothing},
         Len(order') <= MaxEntries,
         \A t \in Tags : byTag'[t] = {k \in Keys : entries'[k] # Nothing /\ t \in entries'[k].tags}
  PROVE  StoreInv'
BY DEF StoreInv, StoreTyped, Once, KeysIn

LEMMA StoreInit == CacheInit => StoreInv
<1> SUFFICES ASSUME CacheInit PROVE StoreInv
  OBVIOUS
<1>1. order = <<>> /\ Len(order) = 0 /\ order \in Seq(Keys)
  BY DEF CacheInit
<1>2. 1..0 = {}
  OBVIOUS
<1>3. Once(order) /\ KeysIn(order) = {}
  BY <1>1, <1>2 DEF Once, KeysIn
<1>4. StoreTyped
  BY <1>1, CacheConstants DEF CacheConstants, CacheInit, StoreTyped
<1>5. QED
  BY <1>1, <1>3, <1>4, CacheConstants DEF CacheConstants, CacheInit, StoreInv

\* Fewer keys make a shorter sequence.
LEMMA WithoutShorter ==
  ASSUME StoreInv, NEW ks
  PROVE  Len(Without(ks)) <= Len(order) /\ Len(Without(ks)) \in Nat /\ Len(order) \in Nat
<1>1. /\ Without(ks) \in Seq(Keys) /\ Once(Without(ks)) /\ KeysIn(Without(ks)) \subseteq KeysIn(order)
      /\ order \in Seq(Keys) /\ Once(order)
  BY WithoutShape DEF StoreInv, StoreTyped
<1>2. /\ IsFiniteSet(KeysIn(order)) /\ Cardinality(KeysIn(order)) = Len(order)
      /\ Cardinality(KeysIn(Without(ks))) = Len(Without(ks))
  BY <1>1, OnceCounts
<1>3. Cardinality(KeysIn(Without(ks))) <= Cardinality(KeysIn(order))
  BY <1>1, <1>2, FS_Subset
<1>4. QED
  BY <1>1, <1>2, <1>3

LEMMA ForgetKeepsStore ==
  ASSUME StoreInv, NEW ks, Forget(ks), UNCHANGED <<clock, lastSweep>>
  PROVE  StoreInv'
<1>1. /\ order' \in Seq(Keys) /\ Once(order') /\ KeysIn(order') = KeysIn(order) \ ks
      /\ Len(order') <= MaxEntries
  <2>1. order' = Without(ks)
    BY DEF Forget
  <2>2. Len(order) <= MaxEntries
    BY DEF StoreInv
  <2>3. QED
    BY <2>1, <2>2, WithoutShape, WithoutShorter, CacheConstants
    DEF CacheConstants, StoreInv, StoreTyped
<1>2. /\ entries' \in [Keys -> Entry \cup {Nothing}]
      /\ \A k \in Keys : entries'[k] = IF k \in ks THEN Nothing ELSE entries[k]
  BY DEF Forget, StoreInv, StoreTyped
<1>3. /\ byTag' \in [Tags -> SUBSET Keys]
      /\ \A t \in Tags : byTag'[t] = byTag[t] \ ks
  BY DEF Forget, StoreInv, StoreTyped
<1>4. KeysIn(order') = {k \in Keys : entries'[k] # Nothing}
  BY <1>1, <1>2 DEF StoreInv
<1>5. \A t \in Tags : byTag'[t] = {k \in Keys : entries'[k] # Nothing /\ t \in entries'[k].tags}
  BY <1>2, <1>3 DEF StoreInv
<1>6. clock' \in Nat /\ lastSweep' \in Int
  BY DEF StoreInv, StoreTyped
<1>7. QED
  BY <1>1, <1>2, <1>3, <1>4, <1>5, <1>6, StoreInvNext

LEMMA TouchKeepsStore ==
  ASSUME StoreInv, NEW k \in Keys, Cached(k), Touch(k), UNCHANGED <<clock, lastSweep>>
  PROVE  StoreInv'
<1>1. /\ Without({k}) \in Seq(Keys) /\ Once(Without({k}))
      /\ KeysIn(Without({k})) = KeysIn(order) \ {k} /\ order \in Seq(Keys) /\ Once(order)
  BY WithoutShape DEF StoreInv, StoreTyped
<1>2. k \in KeysIn(order)
  BY DEF Cached, StoreInv
<1>3. /\ order' \in Seq(Keys) /\ Once(order') /\ KeysIn(order') = KeysIn(order)
  <2> DEFINE rest == Without({k})
  <2>1. order' = Append(rest, k)
    BY DEF Touch
  <2>2. k \in Keys \ KeysIn(rest)
    BY <1>1
  <2> HIDE DEF rest
  <2>3. order' \in Seq(Keys) /\ Once(order') /\ KeysIn(order') = KeysIn(rest) \cup {k}
    <3>1. rest \in Seq(Keys) /\ Once(rest)
      BY <1>1 DEF rest
    <3>2. QED
      BY <2>1, <2>2, <3>1, AppendShape
  <2>4. QED
    BY <1>1, <1>2, <2>3 DEF rest
<1>4. Len(order') = Len(order)
  BY <1>1, <1>3, OnceCounts
<1>5. QED
  BY <1>3, <1>4, StoreInvNext DEF Touch, StoreInv, StoreTyped

\* Eviction leaves room for the key that is set.
LEMMA EvictedMakesRoom ==
  ASSUME StoreInv, NEW k \in Keys
  PROVE  Len(Without(Evicted(k) \cup {k})) < MaxEntries /\ k \notin Evicted(k) \ Swept
<1> DEFINE kept == Without(Swept \cup {k})
<1>1. /\ kept \in Seq(Keys) /\ Once(kept) /\ KeysIn(kept) = KeysIn(order) \ (Swept \cup {k})
      /\ Len(kept) <= Len(order) /\ Len(order) <= MaxEntries
      /\ Len(kept) \in Nat /\ Len(order) \in Nat
  BY WithoutShape, WithoutShorter DEF StoreInv, StoreTyped
<1>2. Evicted(k) = IF Len(kept) < MaxEntries THEN Swept ELSE Swept \cup {kept[1]}
  BY DEF Evicted
<1> HIDE DEF kept
<1>3. CASE Len(kept) < MaxEntries
  BY <1>2, <1>3 DEF kept
<1>4. CASE ~(Len(kept) < MaxEntries)
  <2> DEFINE left == Without(Evicted(k) \cup {k})
  <2>1. 1 \in 1..Len(kept)
    BY <1>1, <1>4, CacheConstants DEF CacheConstants
  <2>2. kept[1] \in KeysIn(kept)
    BY <2>1 DEF KeysIn
  <2>3. /\ left \in Seq(Keys) /\ Once(left)
        /\ KeysIn(left) = KeysIn(order) \ (Evicted(k) \cup {k})
    BY WithoutShape DEF StoreInv, StoreTyped
  <2>4. KeysIn(left) = KeysIn(kept) \ {kept[1]}
    BY <1>1, <1>2, <1>4, <2>3
  <2> HIDE DEF left
  <2>5. /\ IsFiniteSet(KeysIn(kept)) /\ Cardinality(KeysIn(kept)) = Len(kept)
        /\ Cardinality(KeysIn(left)) = Len(left)
    BY <1>1, <2>3, OnceCounts
  <2>6. Len(left) = Len(kept) - 1
    BY <2>2, <2>4, <2>5, FS_RemoveElement
  <2>7. kept[1] # k
    BY <1>1, <2>2
  <2>8. Len(left) < MaxEntries
    BY <1>1, <2>6, CacheConstants DEF CacheConstants
  <2>9. QED
    BY <1>2, <1>4, <2>7, <2>8 DEF left
<1>5. QED
  BY <1>3, <1>4

LEMMA PutKeepsStore ==
  ASSUME StoreInv, NEW k \in Keys, NEW entry \in Entry, Put(k, entry), UNCHANGED clock
  PROVE  StoreInv'
<1> DEFINE gone == Evicted(k)
           left == Without(gone \cup {k})
<1>1. /\ left \in Seq(Keys) /\ Once(left) /\ KeysIn(left) = KeysIn(order) \ (gone \cup {k})
      /\ Len(left) < MaxEntries
  BY WithoutShape, EvictedMakesRoom DEF StoreInv, StoreTyped
<1>2. /\ order' = Append(left, k)
      /\ entries' = [j \in Keys |-> IF j = k THEN entry
                                    ELSE IF j \in gone THEN Nothing ELSE entries[j]]
      /\ byTag' = [t \in Tags |-> IF t \in entry.tags THEN (byTag[t] \ gone) \cup {k}
                                  ELSE byTag[t] \ (gone \cup {k})]
      /\ lastSweep' \in {lastSweep, clock}
  BY DEF Put
<1> HIDE DEF gone, left
<1>3. /\ order' \in Seq(Keys) /\ Once(order') /\ KeysIn(order') = KeysIn(left) \cup {k}
      /\ Len(order') = Len(left) + 1
  BY <1>1, <1>2, AppendShape
<1>4. Len(order') <= MaxEntries
  BY <1>1, <1>3, CacheConstants DEF CacheConstants
<1>5. /\ entries' \in [Keys -> Entry \cup {Nothing}] /\ entries'[k] = entry /\ entry # Nothing
      /\ \A j \in Keys \ {k} : entries'[j] = IF j \in gone THEN Nothing ELSE entries[j]
  BY <1>2, NothingIsNoEntry DEF StoreInv, StoreTyped
<1>6. KeysIn(order') = {j \in Keys : entries'[j] # Nothing}
  BY <1>1, <1>3, <1>5 DEF StoreInv
<1>7. byTag' \in [Tags -> SUBSET Keys]
  BY <1>2 DEF StoreInv, StoreTyped
<1>8. ASSUME NEW t \in Tags, NEW j \in Keys
      PROVE  j \in byTag'[t] <=> entries'[j] # Nothing /\ t \in entries'[j].tags
  <2>1. j \in byTag[t] <=> entries[j] # Nothing /\ t \in entries[j].tags
    BY DEF StoreInv
  <2>2. byTag'[t] = IF t \in entry.tags THEN (byTag[t] \ gone) \cup {k} ELSE byTag[t] \ (gone \cup {k})
    BY <1>2
  <2>3. CASE j = k
    BY <1>5, <2>2, <2>3
  <2>4. CASE j # k
    BY <1>5, <2>1, <2>2, <2>4
  <2>5. QED
    BY <2>3, <2>4
<1>9. \A t \in Tags : byTag'[t] = {j \in Keys : entries'[j] # Nothing /\ t \in entries'[j].tags}
  <2>1. \A t \in Tags : byTag'[t] \subseteq Keys
    BY <1>7
  <2>2. QED
    BY <1>8, <2>1
<1>10. clock' \in Nat /\ lastSweep' \in Int
  BY <1>2 DEF StoreInv, StoreTyped
<1>11. QED
  BY <1>3, <1>4, <1>5, <1>6, <1>7, <1>9, <1>10, StoreInvNext

LEMMA StoreStep == CallsInv /\ StoreInv /\ [CacheNext]_cacheVars => StoreInv'
<1> SUFFICES ASSUME CallsInv, StoreInv, [CacheNext]_cacheVars PROVE StoreInv'
  OBVIOUS
<1>1. CASE UNCHANGED <<clock, store, lastSweep>>
  BY <1>1 DEF store, StoreInv, StoreTyped, Once, KeysIn
<1>2. ASSUME NEW c \in Callers, NEW k \in Keys, NEW ts \in TagSets, Lookup(c, k, ts) PROVE StoreInv'
  <2>1. UNCHANGED <<clock, lastSweep>>
    BY <1>2 DEF Lookup
  <2>2. (Cached(k) /\ Touch(k)) \/ Forget({k}) \/ UNCHANGED store
    BY <1>2 DEF Lookup
  <2>3. QED
    BY <1>1, <2>1, <2>2, TouchKeepsStore, ForgetKeepsStore
<1>3. ASSUME NEW c \in Callers, StoreValue(c) PROVE StoreInv'
  <2> DEFINE entry == [version |-> calls[c].version, tags |-> calls[c].tags,
                       expiresAt |-> clock + Ttl, raced |-> calls[c].raced]
  <2>1. calls[c] \in Caller /\ calls[c].key \in Keys
    BY <1>3 DEF StoreValue, CallsInv, CallsTyped, KeysKnown
  <2>2. clock + Ttl \in Nat
    BY CacheConstants DEF CacheConstants, StoreInv, StoreTyped
  <2>3. entry \in Entry
    BY <2>1, <2>2 DEF Entry, Caller
  <2>4. Put(calls[c].key, entry) /\ UNCHANGED clock
    BY <1>3 DEF StoreValue
  <2> HIDE DEF entry
  <2>5. QED
    BY <2>1, <2>3, <2>4, PutKeepsStore
<1>4. ASSUME NEW ks, Forget(ks), UNCHANGED <<clock, lastSweep>> PROVE StoreInv'
  BY <1>4, ForgetKeepsStore
<1>5. ASSUME NEW w \in Writers, InvalidateModels(w) PROVE StoreInv'
  BY <1>4, <1>5 DEF InvalidateModels
<1>6. ASSUME NEW ts \in TagSets, Invalidate(ts) PROVE StoreInv'
  BY <1>4, <1>6 DEF Invalidate
<1>7. ASSUME NEW k \in Keys, Delete(k) PROVE StoreInv'
  BY <1>4, <1>7 DEF Delete
<1>8. CASE Clear
  BY <1>4, <1>8 DEF Clear
<1>9. CASE ClockTicks
  BY <1>9 DEF ClockTicks, store, StoreInv, StoreTyped, Once, KeysIn
<1>10. QED
  BY <1>1, <1>2, <1>3, <1>5, <1>6, <1>7, <1>8, <1>9 DEF CacheNext, CallerStep, cacheVars, Join, Start,
     ReadData, SkipStore, ComputeThrows, Settle, Answer, WriteRows, HookThrows, store

\* The Map, its order of use and the tag index of the in-memory store name the
\* same keys, each once and within the cap, for any number of keys and tags and
\* whatever is set, read, swept, evicted, deleted, invalidated or cleared.
THEOREM StoreAgrees == CacheSpec => []IndexesAgree
<1>1. CacheInit => CallsInv /\ StoreInv
  BY CallsInit, StoreInit
<1>2. CallsInv /\ StoreInv /\ [CacheNext]_cacheVars => (CallsInv /\ StoreInv)'
  BY CallsStep, StoreStep
<1>3. StoreInv => IndexesAgree
  <2> SUFFICES ASSUME StoreInv PROVE IndexesAgree
    OBVIOUS
  <2>1. Cardinality(KeysIn(order)) = Len(order)
    BY OnceCounts DEF StoreInv, StoreTyped
  <2>2. QED
    BY <2>1 DEF StoreInv, IndexesAgree, KeysIn, Cached
<1>4. QED
  BY <1>1, <1>2, <1>3, PTL DEF CacheSpec

\* The store, the calls and the computations in flight keep their types, for any
\* number of keys, tags, callers and writers.
THEOREM TypeCorrect == CacheSpec => []CacheTypeOK
<1>1. CacheInit => CallsInv /\ Fresh /\ StoreInv
  BY CallsInit, FreshInit, StoreInit
<1>2. CallsInv /\ Fresh /\ StoreInv /\ [CacheNext]_cacheVars => (CallsInv /\ Fresh /\ StoreInv)'
  BY CallsStep, FreshStep, StoreStep
<1>3. CallsInv /\ Fresh /\ StoreInv => CacheTypeOK
  BY DEF CallsInv, CallsTyped, Fresh, WritersTyped, StoreInv, StoreTyped, CacheTypeOK
<1>4. QED
  BY <1>1, <1>2, <1>3, PTL DEF CacheSpec
=============================================================================
