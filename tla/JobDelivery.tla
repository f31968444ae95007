---------------------------- MODULE JobDelivery ----------------------------
(***************************************************************************)
(* What the job queue promises the code that enqueues: at-least-once       *)
(* delivery.  A committed job is owed until its handler has returned once, *)
(* it was given up, or it was cancelled; an outcome, once shown, is final  *)
(* except for the operator's retry of a failed job and for a job one of    *)
(* whose runs went on past its lease.                                      *)
(***************************************************************************)
CONSTANT Ids

VARIABLES
  state,     \* per job, as its owner sees it
  handled,   \* jobs whose handler has returned
  late       \* jobs one of whose runs outlived its lease

vars == <<state, handled, late>>

Init == /\ state = [id \in Ids |-> "none"]
        /\ handled = {} /\ late = {}

Becomes(id, s) == state' = [state EXCEPT ![id] = s] /\ UNCHANGED <<handled, late>>

\* The outcome of a job may still change.
Open(id) == state[id] = "owed" \/ (id \in late /\ state[id] \notin {"none", "gone"})

Submit(id)  == state[id] = "none" /\ Becomes(id, "owed")
Deliver(id) == Open(id) /\ id \in handled /\ Becomes(id, "delivered")
GiveUp(id)  == Open(id) /\ Becomes(id, "failed")
Retry(id)   == (Open(id) \/ state[id] = "failed") /\ Becomes(id, "owed")
Cancel(id)  == state[id] = "owed" /\ Becomes(id, "cancelled")

Forget(S) ==
  /\ \A id \in S : state[id] \in {"delivered", "cancelled"}
  /\ state' = [id \in Ids |-> IF id \in S THEN "gone" ELSE state[id]]
  /\ UNCHANGED <<handled, late>>

Handle(id) ==
  /\ state[id] # "none"
  /\ handled' = handled \cup {id}
  /\ UNCHANGED <<state, late>>

RunsLate(S) ==
  /\ \A id \in S : state[id] # "none"
  /\ late' = late \cup S
  /\ UNCHANGED <<state, handled>>

Next ==
  \/ \E id \in Ids : \/ Submit(id) \/ Deliver(id) \/ GiveUp(id) \/ Retry(id)
                     \/ Cancel(id) \/ Handle(id)
  \/ \E S \in SUBSET Ids : Forget(S) \/ RunsLate(S)

Spec == Init /\ [][Next]_vars
=============================================================================
