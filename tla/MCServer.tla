------------------------------ MODULE MCServer ------------------------------
(* Cache and Realtime, side by side: a behaviour is of one or the other. *)
EXTENDS Cache, Realtime, Functions, TLC

CONSTANTS OtherTag, k1, k2, c1, c2, c3, d1, d2, m1, m2, m3, orders, stock, prices
VARIABLE part

\* One call tags with the model only, another with a tag of its own as well.
ModelAndMore == {{ModelTag}, {ModelTag, OtherTag}}

Init == part \in {"cache", "realtime"} /\ CacheInit /\ RealtimeInit
Next == \/ part = "cache" /\ CacheNext /\ UNCHANGED <<realtimeVars, part>>
        \/ part = "realtime" /\ RealtimeNext /\ UNCHANGED <<cacheVars, part>>
Spec == Init /\ [][Next]_<<cacheVars, realtimeVars, part>>

\* What is interchangeable.  No behaviour is of both parts, so a permutation may act on
\* both at once.
Moved(s, p) == [x \in Range(s) |-> s[p[CHOOSE i \in DOMAIN s : s[i] = x]]]
Symmetry == {
  Moved(<<k1, k2>>, p) @@ Moved(<<d1, d2>>, p)
    @@ Moved(<<c1, c2, c3>>, q) @@ Moved(<<m1, m2, m3>>, q) @@ Moved(<<orders, stock, prices>>, q) :
  p \in Permutations(1..2), q \in Permutations(1..3)}
=============================================================================
