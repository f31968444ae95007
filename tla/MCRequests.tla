----------------------------- MODULE MCRequests -----------------------------
(* Agents, with the server it talks to; the same server where callers only   *)
(* look, for longer, which is what the rate limiter is about; and Admin.  A  *)
(* behaviour is of one of the three.                                         *)
EXTENDS Agents, Admin, TLC

CONSTANTS ann, bob, root, r1, r2, r3, e1, e2
VARIABLE part

MCOwned == (r1 :> ann) @@ (r2 :> bob) @@ (r3 :> None)

Ask(action, row, user, via, origin, owner, ownerId) ==
  [action |-> action, row |-> row, user |-> user, via |-> via, origin |-> origin,
   owner |-> owner, ownerId |-> ownerId]

MCAsked == {
  Ask("list", None, ann, "bearer", "own", "absent", "absent"),
  Ask("retrieve", r1, None, "none", "own", "absent", "absent"),
  Ask("create", None, bob, "cookie", "own", ann, "absent"),
  Ask("partialUpdate", r2, bob, "bearer", "own", "null", "absent"),
  Ask("create", None, None, "none", "own", ann, "absent"),
  Ask("update", r1, ann, "bearer", "own", "malformed", "absent"),
  Ask("update", r1, ann, "cookie", "own", bob, ann),
  Ask("partialUpdate", r2, ann, "cookie", "other", ann, "absent"),
  Ask("destroy", r1, ann, "bearer", "own", "absent", "absent"),
  Ask("service", r1, root, "bearer", "own", bob, "absent")}

Message(method, header, meta, confirm, request) ==
  [method |-> method, host |-> TRUE, origin |-> TRUE, header |-> header, meta |-> meta,
   mirrored |-> TRUE, notification |-> FALSE, confirm |-> confirm, request |-> request]
Deletes == Ask("destroy", r1, ann, "bearer", "other", "absent", "absent")
HandsOver == Ask("partialUpdate", r1, ann, "bearer", "other", bob, "absent")

MCCalls == {
  Message("tools/call", None, None, TRUE, Deletes),
  Message("tools/call", "legacy", None, FALSE, Deletes),
  Message("tools/call", "modern", "modern", TRUE, [Deletes EXCEPT !.row = None]),
  Message("prompts/list", "modern", None, FALSE, HandsOver),
  Message("tools/call", "modern", "legacy", TRUE, Deletes),
  [Message("tools/call", None, None, FALSE, HandsOver) EXCEPT !.notification = TRUE],
  [Message("tools/list", None, None, FALSE, HandsOver) EXCEPT !.host = FALSE]}

Symmetry == Permutations(Slots)

MCPolicies == {[allow |-> None, deny |-> {}, confirm |-> None],
               [allow |-> {"destroy", "list"}, deny |-> {"list"}, confirm |-> {}],
               [allow |-> None, deny |-> {"destroy"}, confirm |-> {"partialUpdate"}]}

-----------------------------------------------------------------------------
(* Admin: a text that is unique, a relation, a flag and a moment. *)

Field(kind, null, unique, editable, default) ==
  [kind |-> kind, null |-> null, blank |-> FALSE, unique |-> unique, editable |-> editable,
   hasDefault |-> default # "", default |-> default]
Site(team, score, canAdd, canDelete, guard) ==
  [fields |-> [name |-> [Field("char", FALSE, TRUE, TRUE, "") EXCEPT !.blank = ~score],
               team |-> Field("foreignKey", team, FALSE, TRUE, ""),
               active |-> Field("boolean", FALSE, FALSE, TRUE, "on"),
               at |-> Field("datetime", FALSE, FALSE, score, "10:00")],
   canAdd |-> canAdd, canChange |-> canAdd \/ canDelete, canDelete |-> canDelete, guard |-> guard]
\* A name and a flag that may be NULL.
Loose(s) == [s EXCEPT !.fields.name.null = TRUE, !.fields.active.null = TRUE]
MCSites == {Site(TRUE, TRUE, TRUE, FALSE, "permissions"), Loose(Site(FALSE, TRUE, FALSE, TRUE, "open")),
            Site(TRUE, FALSE, TRUE, TRUE, "open"), Site(TRUE, TRUE, TRUE, TRUE, "none")}
MCFirstRows == {[name |-> "Ada", team |-> "1", active |-> "on", at |-> "10:00:05"],
                [name |-> "Kay", team |-> "2", active |-> "off", at |-> "10:00"],
                [name |-> "", team |-> "1", active |-> Null, at |-> "10:00"]}
MCTyped == [char |-> {"", "Ada", " Kay"}, foreignKey |-> {"", "1", "2"}, boolean |-> {"", "on"}, datetime |-> {"", "11:00"}]
MCCarried == [v \in {"", "Ada", "Kay", " Kay", "1", "2", "on", "off", "10:00", "10:00:05", "11:00"} |->
                CASE v = " Kay" -> "Kay" [] v = "10:00:05" -> "10:00" [] OTHER -> v]

-----------------------------------------------------------------------------
\* Visits are for the limiter: two callers who read, often enough to fill two windows in a row
\* and to leave a counter behind for the sweep.  The others stay within the bounds below.
Visits == {r \in MCAsked : r.action \in {"list", "retrieve"}}
AgentClock == 1
AgentRequests == 3

Visit == /\ \/ \E c \in Slots : (\E r \in Visits : Arrive(c, r)) \/ Serve(c)
            \/ Tick
         /\ Observe /\ UNCHANGED agentVars
Within == clock' <= AgentClock /\ deadline' <= AgentClock /\ served' <= AgentRequests

MCInit ==
  /\ part \in {"agents", "visits", "admin"} /\ AgentInit /\ AdminInit
  /\ part # "agents" => policy = CHOOSE p \in Policies : TRUE
  /\ part # "admin" => site = (CHOOSE s \in Sites : TRUE) /\ records[1] = (CHOOSE r \in FirstRows : TRUE)
MCNext == \/ part = "agents" /\ AgentNext /\ Within /\ UNCHANGED <<adminVars, part>>
          \/ part = "visits" /\ Visit /\ UNCHANGED <<adminVars, part>>
          \/ part = "admin" /\ AdminNext /\ UNCHANGED <<allVars, part>>
MCSpec == MCInit /\ [][MCNext]_<<allVars, adminVars, part>>
=============================================================================
