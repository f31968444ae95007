------------------------- MODULE NestedTransactions -------------------------
(***************************************************************************)
(* What atomic() promises: a block's writes are kept when it resolves and  *)
(* undone when it throws, together with those of the blocks nested in it;  *)
(* what is kept becomes durable with the outermost block, and outermost    *)
(* blocks follow one another.                                              *)
(***************************************************************************)
EXTENDS FiniteSets

CONSTANTS Blocks, Nobody

VARIABLES
  durable,   \* blocks whose write is in the database for good
  buffer,    \* per open block, the blocks whose writes depend on it
  status,    \* per block: what its caller was told
  parent     \* per block: the block it was called in, or Nobody

vars == <<durable, buffer, status, parent>>

Init ==
  /\ durable = {}
  /\ buffer = [b \in Blocks |-> {}]
  /\ status = [b \in Blocks |-> "idle"]
  /\ parent = [b \in Blocks |-> Nobody]

Open(b) == status[b] = "open"
Childless(b) == \A c \in Blocks : Open(c) => parent[c] # b

\* An outermost block opens when none is open, a nested one in an open block.
Enter(b, p) ==
  /\ status[b] = "idle"
  /\ IF p = Nobody THEN \A c \in Blocks : ~Open(c) ELSE Open(p) /\ Childless(p)
  /\ status' = [status EXCEPT ![b] = "open"]
  /\ parent' = [parent EXCEPT ![b] = p]
  /\ UNCHANGED <<durable, buffer>>

Write(b) ==
  /\ Open(b)
  /\ buffer' = [buffer EXCEPT ![b] = @ \cup {b}]
  /\ UNCHANGED <<durable, status, parent>>

Keep(b) ==
  /\ Open(b) /\ Childless(b)
  /\ status' = [status EXCEPT ![b] = "kept"]
  /\ durable' = IF parent[b] = Nobody THEN durable \cup buffer[b] ELSE durable
  /\ buffer' = [c \in Blocks |-> CASE c = b -> {}
                                   [] c = parent[b] -> buffer[c] \cup buffer[b]
                                   [] OTHER -> buffer[c]]
  /\ UNCHANGED parent

Undo(b) ==
  /\ status[b] \in {"idle", "open"} /\ Childless(b)
  /\ status' = [status EXCEPT ![b] = "undone"]
  /\ buffer' = [buffer EXCEPT ![b] = {}]
  /\ UNCHANGED <<durable, parent>>

Next == \E b \in Blocks :
  \/ \E p \in Blocks \cup {Nobody} : Enter(b, p)
  \/ Write(b) \/ Keep(b) \/ Undo(b)

Spec == Init /\ [][Next]_vars
=============================================================================
