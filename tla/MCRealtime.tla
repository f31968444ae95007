----------------------------- MODULE MCRealtime -----------------------------
(* Instances of Realtime small enough for TLC. *)
EXTENDS Realtime, TLC

\* Connections, channels, messages and streams are interchangeable.
Symmetry == Permutations(Connections) \cup Permutations(Channels)
              \cup Permutations(Messages) \cup Permutations(Streams)
=============================================================================
