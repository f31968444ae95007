------------------------------- MODULE Cache -------------------------------
(***************************************************************************)
(* The cache of src/src/cache: the in-memory store (entries in order of    *)
(* use, an index from tags to keys, lazy expiry), getOrSet with its one    *)
(* in-flight computation per key, and the writes to a model that clear the *)
(* model's tag through invalidateCacheOnWrite.                             *)
(*                                                                         *)
(* A value is the version of the data it was computed from.  The store is  *)
(* synchronous, so each of its operations is one step; getOrSet awaits     *)
(* between its lookup, its computation, its store and its clean-up.        *)
(***************************************************************************)
EXTENDS Integers, Sequences, FiniteSets

CONSTANTS
  Keys,        \* cache keys
  Callers,     \* calls of getOrSet
  Writers,     \* writes to the model, outside a transaction
  Tags,        \* tags
  ModelTag,    \* modelTag(model)
  TagSets,     \* the tags callers give
  Nothing,     \* no entry, no computation
  MaxEntries,  \* the store's cap
  Ttl,         \* ttlSeconds
  SweepEvery,  \* the 60 s between sweeps
  MaxWrites,   \* bound: writes to the model
  MaxClock,     \* bound: the clock stops here
  MaxClears    \* bound: calls of clear()

ASSUME CacheConstants ==
  /\ ModelTag \in Tags /\ TagSets \subseteq SUBSET Tags /\ Nothing \notin Callers
  /\ MaxEntries \in Nat \ {0} /\ Ttl \in Nat \ {0} /\ SweepEvery \in Nat
  /\ MaxWrites \in Nat /\ MaxClock \in Nat /\ MaxClears \in Nat

VARIABLES
  clock,        \* the clock
  data,       \* the version of the model's rows
  order,      \* the store's keys, least recently used first
  entries,    \* the store's entries
  byTag,      \* the store's index: per tag, the keys
  lastSweep,  \* when the store was last swept
  inFlight,   \* per key, the call whose computation others await
  calls,      \* per call of getOrSet: where it is
  writers,    \* per write: the version it made, until its hooks have run; 0 is none
  clears,     \* calls of clear() so far
  missed      \* history: versions whose hooks ended before they cleared the tag

cacheVars == <<clock, data, order, entries, byTag, lastSweep, inFlight, calls, writers, clears, missed>>
store == <<order, entries, byTag>>

Entry == [version: Nat, tags: SUBSET Tags, expiresAt: Nat, raced: BOOLEAN]

ASSUME NothingIsNoEntry == Nothing \notin Entry

\* "raced" is history: an invalidation ran after the data had been read.
Caller == [pc: {"idle", "missed", "waiting", "computing", "storing", "settling", "failing",
                "done", "failed"},
           key: Keys \cup {Nothing}, tags: SUBSET Tags, awaits: Callers \cup {Nothing},
           version: Nat, raced: BOOLEAN]

IdleCaller == [pc |-> "idle", key |-> Nothing, tags |-> {}, awaits |-> Nothing,
               version |-> 0, raced |-> FALSE]

Ended(outcome) == [IdleCaller EXCEPT !.pc = outcome]

Cached(k) == entries[k] # Nothing
Expired(k) == Cached(k) /\ entries[k].expiresAt <= clock

-----------------------------------------------------------------------------
(* MemoryCacheStore *)

\* The store's keys but these, in the order they were in.
Without(ks) ==
  LET kept == {i \in 1..Len(order) : order[i] \notin ks}
      rank(i) == Cardinality({j \in kept : j <= i})
  IN  [n \in 1..Cardinality(kept) |-> order[CHOOSE i \in kept : rank(i) = n]]

\* forget, leaving the index as it is.
ForgetEntryOnly(ks) ==
  /\ order' = Without(ks)
  /\ entries' = [k \in Keys |-> IF k \in ks THEN Nothing ELSE entries[k]]
  /\ UNCHANGED byTag

\* forget, for each of these keys.
Forget(ks) ==
  /\ order' = Without(ks)
  /\ entries' = [k \in Keys |-> IF k \in ks THEN Nothing ELSE entries[k]]
  /\ byTag' = [t \in Tags |-> byTag[t] \ ks]

\* get on a live key moves it to the end.
Touch(k) == order' = Append(Without({k}), k) /\ UNCHANGED <<entries, byTag>>

\* Keys that go when the clock says so, and the key that is replaced.
Swept == IF clock - lastSweep < SweepEvery THEN {} ELSE {k \in Keys : Expired(k)}

\* The keys that go when k is set: k's old entry, what the sweep finds, and the
\* least recently used while there are too many.
Evicted(k) ==
  LET kept == Without(Swept \cup {k})
  IN  IF Len(kept) < MaxEntries THEN Swept ELSE Swept \cup {kept[1]}

\* set without the index.
PutUnindexed(k, entry) ==
  LET gone == Evicted(k)
  IN /\ order' = Append(Without(gone \cup {k}), k)
     /\ entries' = [j \in Keys |-> IF j = k THEN entry
                                   ELSE IF j \in gone THEN Nothing ELSE entries[j]]
     /\ byTag' = [t \in Tags |-> byTag[t] \ (gone \cup {k})]
     /\ lastSweep' = IF clock - lastSweep < SweepEvery THEN lastSweep ELSE clock

\* set: sweep, forget, insert, index, evict.
Put(k, entry) ==
  LET gone == Evicted(k)
  IN /\ order' = Append(Without(gone \cup {k}), k)
     /\ entries' = [j \in Keys |-> IF j = k THEN entry
                                   ELSE IF j \in gone THEN Nothing ELSE entries[j]]
     /\ byTag' = [t \in Tags |-> IF t \in entry.tags THEN (byTag[t] \ gone) \cup {k}
                                 ELSE byTag[t] \ (gone \cup {k})]
     /\ lastSweep' = IF clock - lastSweep < SweepEvery THEN lastSweep ELSE clock

Tagged(ts) == UNION {byTag[t] : t \in ts}

-----------------------------------------------------------------------------
(* getOrSet *)

\* store.get: a hit answers, an expired entry is forgotten.
Lookup(c, k, ts) ==
  /\ calls[c].pc = "idle"
  /\ IF Cached(k) /\ ~Expired(k)
     THEN /\ Touch(k)
          /\ calls' = [calls EXCEPT ![c] = Ended("done")]
     ELSE /\ IF Expired(k) THEN Forget({k}) ELSE UNCHANGED store
          /\ calls' = [calls EXCEPT ![c] = [@ EXCEPT !.pc = "missed", !.key = k, !.tags = ts]]
  /\ UNCHANGED <<clock, data, lastSweep, inFlight, writers, clears, missed>>

\* After the await: join the computation in flight.
Join(c) ==
  LET k == calls[c].key
  IN /\ calls[c].pc = "missed" /\ inFlight[k] # Nothing
     /\ calls' = [calls EXCEPT ![c] = [@ EXCEPT !.pc = "waiting", !.awaits = inFlight[k]]]
     /\ UNCHANGED <<clock, data, store, lastSweep, inFlight, writers, clears, missed>>

\* A getOrSet that does not look for a computation in flight.
StartAlways(c) ==
  /\ calls[c].pc = "missed"
  /\ inFlight' = [inFlight EXCEPT ![calls[c].key] = c]
  /\ calls' = [calls EXCEPT ![c].pc = "computing"]
  /\ UNCHANGED <<clock, data, store, lastSweep, writers, clears, missed>>

\* Or start one, and register it.
Start(c) ==
  LET k == calls[c].key
  IN /\ calls[c].pc = "missed" /\ inFlight[k] = Nothing
     /\ inFlight' = [inFlight EXCEPT ![k] = c]
     /\ calls' = [calls EXCEPT ![c].pc = "computing"]
     /\ UNCHANGED <<clock, data, store, lastSweep, writers, clears, missed>>

\* compute reads the model's rows.
ReadData(c) ==
  /\ calls[c].pc = "computing"
  /\ calls' = [calls EXCEPT ![c] = [@ EXCEPT !.pc = "storing", !.version = data]]
  /\ UNCHANGED <<clock, data, store, lastSweep, inFlight, writers, clears, missed>>

\* compute throws, at once or later.
ComputeThrows(c) ==
  /\ calls[c].pc \in {"computing", "storing"}
  /\ calls' = [calls EXCEPT ![c].pc = "failing"]
  /\ UNCHANGED <<clock, data, store, lastSweep, inFlight, writers, clears, missed>>

StoreValue(c) ==
  /\ calls[c].pc = "storing"
  /\ Put(calls[c].key, [version |-> calls[c].version, tags |-> calls[c].tags,
                        expiresAt |-> clock + Ttl, raced |-> calls[c].raced])
  /\ calls' = [calls EXCEPT ![c].pc = "settling"]
  /\ UNCHANGED <<clock, data, inFlight, writers, clears, missed>>

\* An undefined value is not stored.
SkipStore(c) ==
  /\ calls[c].pc = "storing"
  /\ calls' = [calls EXCEPT ![c].pc = "settling"]
  /\ UNCHANGED <<clock, data, store, lastSweep, inFlight, writers, clears, missed>>

Outcome(c) == IF calls[c].pc \in {"settling", "done"} THEN "done" ELSE "failed"

\* A finally that only cleans up after success.
SettleOnSuccess(c) ==
  /\ calls[c].pc \in {"settling", "failing"}
  /\ inFlight' = IF calls[c].pc = "settling"
                 THEN [inFlight EXCEPT ![calls[c].key] = Nothing] ELSE inFlight
  /\ calls' = [calls EXCEPT ![c] = Ended(Outcome(c))]
  /\ UNCHANGED <<clock, data, store, lastSweep, writers, clears, missed>>

\* The promise's finally: whatever is registered for the key goes.
Settle(c) ==
  /\ calls[c].pc \in {"settling", "failing"}
  /\ inFlight' = [inFlight EXCEPT ![calls[c].key] = Nothing]
  /\ calls' = [calls EXCEPT ![c] = Ended(Outcome(c))]
  /\ UNCHANGED <<clock, data, store, lastSweep, writers, clears, missed>>

\* A caller that joined gets what the computation got.
Answer(c) ==
  LET w == calls[c].awaits
  IN /\ calls[c].pc = "waiting" /\ calls[w].pc \in {"settling", "failing", "done", "failed"}
     /\ calls' = [calls EXCEPT ![c] = Ended(Outcome(w))]
     /\ UNCHANGED <<clock, data, store, lastSweep, inFlight, writers, clears, missed>>

-----------------------------------------------------------------------------
(* Writes, and the application's own calls *)

\* The rows change; the hooks that follow are awaited.
WriteRows(w) ==
  /\ writers[w] = 0 /\ data < MaxWrites
  /\ data' = data + 1
  /\ writers' = [writers EXCEPT ![w] = data + 1]
  /\ UNCHANGED <<clock, store, lastSweep, inFlight, calls, clears, missed>>

Outdated(c) == calls[c].pc = "storing" /\ calls[c].version < data

\* invalidateCacheOnWrite's hook: invalidateTags of the model's tag.
InvalidateModels(w) ==
  /\ writers[w] # 0
  /\ Forget(byTag[ModelTag])
  /\ calls' = [c \in Callers |-> IF Outdated(c) THEN [calls[c] EXCEPT !.raced = TRUE] ELSE calls[c]]
  /\ writers' = [writers EXCEPT ![w] = 0]
  /\ UNCHANGED <<clock, data, lastSweep, inFlight, clears, missed>>

\* Hooks are awaited one by one, and one registered before it throws: the rows stay as
\* they were written, and nothing is cleared.
HookThrows(w) ==
  /\ writers[w] # 0
  /\ missed' = missed \cup {writers[w]}
  /\ writers' = [writers EXCEPT ![w] = 0]
  /\ UNCHANGED <<clock, data, store, lastSweep, inFlight, calls, clears>>

\* invalidate, with tags of the application's own.
Invalidate(ts) ==
  /\ Tagged(ts) # {}
  /\ Forget(Tagged(ts))
  /\ UNCHANGED <<clock, data, lastSweep, inFlight, calls, writers, clears, missed>>

Delete(k) ==
  /\ Cached(k)
  /\ Forget({k})
  /\ UNCHANGED <<clock, data, lastSweep, inFlight, calls, writers, clears, missed>>

\* clear: computations go on, but nobody finds them any more.
Clear ==
  /\ clears < MaxClears
  /\ clears' = clears + 1
  /\ inFlight' = [k \in Keys |-> Nothing]
  /\ Forget(Keys)
  /\ UNCHANGED <<clock, data, lastSweep, calls, writers, missed>>

ClockTicks ==
  /\ clock < MaxClock
  /\ clock' = clock + 1
  /\ UNCHANGED <<data, store, lastSweep, inFlight, calls, writers, clears, missed>>

-----------------------------------------------------------------------------
CacheInit ==
  /\ clock = 0 /\ data = 0 /\ clears = 0
  /\ order = <<>>
  /\ entries = [k \in Keys |-> Nothing]
  /\ byTag = [t \in Tags |-> {}]
  /\ lastSweep = 0 - SweepEvery
  /\ inFlight = [k \in Keys |-> Nothing]
  /\ calls = [c \in Callers |-> IdleCaller]
  /\ writers = [w \in Writers |-> 0]
  /\ missed = {}

CallerStep(c) ==
  \/ Join(c) \/ Start(c) \/ ReadData(c) \/ StoreValue(c) \/ SkipStore(c)
  \/ ComputeThrows(c) \/ Settle(c) \/ Answer(c)

CacheNext ==
  \/ \E c \in Callers : CallerStep(c) \/ \E k \in Keys, ts \in TagSets : Lookup(c, k, ts)
  \/ \E w \in Writers : WriteRows(w) \/ InvalidateModels(w) \/ HookThrows(w)
  \/ \E ts \in TagSets : Invalidate(ts)
  \/ \E k \in Keys : Delete(k)
  \/ Clear \/ ClockTicks

CacheSpec == CacheInit /\ [][CacheNext]_cacheVars

-----------------------------------------------------------------------------
(* Properties *)

CacheTypeOK ==
  /\ clock \in Nat /\ data \in Nat /\ clears \in Nat /\ lastSweep \in Int
  /\ order \in Seq(Keys)
  /\ entries \in [Keys -> Entry \cup {Nothing}]
  /\ byTag \in [Tags -> SUBSET Keys]
  /\ inFlight \in [Keys -> Callers \cup {Nothing}]
  /\ calls \in [Callers -> Caller]
  /\ writers \in [Writers -> Nat]
  /\ missed \subseteq Nat

\* The store: the Map, its order and the tag index name the same keys through
\* overwriting, expiry, sweeping and eviction, within the cap; or invalidate would
\* miss an entry, or the index would grow without bound.
IndexesAgree ==
  /\ {order[i] : i \in 1..Len(order)} = {k \in Keys : Cached(k)}
  /\ Len(order) = Cardinality({k \in Keys : Cached(k)}) /\ Len(order) <= MaxEntries
  /\ \A t \in Tags : byTag[t] = {k \in Keys : Cached(k) /\ t \in entries[k].tags}

Computing(k) == {c \in Callers :
  calls[c].key = k /\ calls[c].pc \in {"computing", "storing", "settling", "failing"}}

\* getOrSet's stampede defence: the computations that run side by side for a key
\* are at most one more than the calls of clear() so far, although the clean-up
\* of an old computation takes the registration of a newer one with it.
BoundedStampede == \A k \in Keys : Cardinality(Computing(k)) <= 1 + clears

\* The versions whose writes have cleared nothing, so far or for good.
Unheard == missed \cup {writers[w] : w \in Writers}

\* invalidateCacheOnWrite: of the writes since a tagged entry's data were read, none has
\* run its hook: each is still to run it or was cut short by another hook that threw.
\* Only an entry whose computation read before an invalidation and stored after it may
\* have outlived one.
FreshUnlessRaced == \A k \in Keys :
  Cached(k) /\ ModelTag \in entries[k].tags /\ ~entries[k].raced =>
    \A v \in 1..data : v > entries[k].version => v \in Unheard

\* getOrSet: a key's registered computation is one that has not ended, so whoever
\* joins it is answered and a failure does not poison the key.
NoPoisonedKey == \A k \in Keys : inFlight[k] # Nothing => inFlight[k] \in Computing(k)

-----------------------------------------------------------------------------
(* The inductive invariant behind them *)

\* A call that has missed knows its key.
KeysKnown == \A c \in Callers :
  calls[c].pc \notin {"idle", "done", "failed"} => calls[c].key \in Keys

\* Only a computation that a clear() has made unfindable leaves room for another.
ComputationsCounted == \A k \in Keys :
  /\ IsFiniteSet(Computing(k))
  /\ Cardinality(Computing(k)) <= IF inFlight[k] = Nothing THEN clears ELSE clears + 1
=============================================================================
