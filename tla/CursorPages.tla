---------------------------- MODULE CursorPages ----------------------------
(***************************************************************************)
(* What paging by cursor promises: page() of src/src/db/queryset.ts shows, *)
(* turn by turn, the rows that match by then and come after whatever was   *)
(* shown, in the order of a unique key, until a page leaves nothing over.  *)
(* Rows come and go, and match or no longer do, at any time.               *)
(***************************************************************************)
EXTENDS Integers, Sequences

CONSTANT PerPage  \* rows a page may show

VARIABLES
  matching,  \* keys of the rows that match now, from the first page on
  shown,     \* the keys shown so far, in the order they were shown
  desc,      \* whether the largest comes first
  phase,     \* "off", "on" or "over"
  steady     \* history: the keys that have matched since the first page

pagesVars == <<matching, shown, desc, phase, steady>>

Precedes(a, b) == IF desc THEN b < a ELSE a < b
Keyed(s) == {s[i] : i \in DOMAIN s}
InOrder(s) == \A i, j \in DOMAIN s : i < j => Precedes(s[i], s[j])
Remaining == {k \in matching : \A i \in DOMAIN shown : Precedes(shown[i], k)}

PagesInit ==
  /\ matching = {} /\ steady = {}
  /\ shown = <<>> /\ desc = FALSE /\ phase = "off"

FirstTurn ==
  /\ phase = "off" /\ phase' = "on"
  /\ desc' \in BOOLEAN /\ matching' \in SUBSET Int /\ steady' = matching'
  /\ UNCHANGED shown

\* A page is the beginning of what remains; a full one may be followed by another.
Turn ==
  LET rest == Remaining
  IN /\ phase = "on"
     /\ \E n \in 0..PerPage : \E page \in [1..n -> rest] :
          LET left == rest \ Keyed(page)
          IN /\ shown' = shown \o page
             /\ InOrder(page) /\ \A i \in 1..n, k \in left : Precedes(page[i], k)
             /\ IF left = {} THEN phase' = "over" ELSE n = PerPage /\ phase' = "on"
     /\ UNCHANGED <<matching, desc, steady>>

RowsChange ==
  /\ phase = "on" /\ UNCHANGED <<shown, desc, phase>>
  /\ matching' \in SUBSET Int /\ steady' = steady \cap matching'

PagesNext == FirstTurn \/ Turn \/ RowsChange
PagesSpec == PagesInit /\ [][PagesNext]_pagesVars

(* Whoever pages while rows come and go is shown no row twice and none out *)
(* of order, and by the last page every row that has matched all along.    *)
PagesLoseNothing ==
  /\ InOrder(shown)
  /\ phase = "over" => steady \subseteq Keyed(shown)
=============================================================================
