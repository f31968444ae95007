----------------------------- MODULE MCAccounts -----------------------------
(* Instances of Accounts small enough for TLC. *)
EXTENDS Accounts, TLC

CONSTANTS g1, g2, h1

\* Two identities at one provider, and one at another.
TwoAndOne == g1 :> "google" @@ g2 :> "google" @@ h1 :> "github"

Symmetry == Permutations(Sessions) \cup Permutations(Tokens) \cup Permutations(Requests)
              \cup Permutations({g1, g2})
=============================================================================
