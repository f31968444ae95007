------------------------------- MODULE Agents -------------------------------
(***************************************************************************)
(* The MCP endpoint of src/src/mcp, composed with the server it is mounted *)
(* in (Requests).  A tool is a route: calling one sends a request through  *)
(* the same application, which meets the limiter, the permissions and the  *)
(* scope like any other.  What MCP adds is before and after: what the      *)
(* transport accepts, which tools the policy exposes, which of them must   *)
(* be confirmed, and the record of every call.                             *)
(***************************************************************************)
EXTENDS Requests

CONSTANTS
  Calls,     \* the messages agents post
  Policies   \* the policies a server may run with

VARIABLES
  policy,    \* settings.mcp.policy
  audit,     \* the record: what the audit sink was told, in order
  changed    \* history: what agents changed, and whether they had confirmed it

agentVars == <<policy, audit, changed>>
allVars == <<vars, agentVars>>

\* A policy: None stands for an absent allow or confirm.
Policy == [allow: {None} \cup SUBSET Actions, deny: SUBSET Actions, confirm: {None} \cup SUBSET Actions]
ASSUME AgentsConstants ==
  /\ Policies \subseteq Policy
  /\ \A m \in Calls : Requested(m.request) /\ m.confirm \in BOOLEAN

\* Exposure: deny wins, an allow list that is present is exhaustive.
ApplyPolicy == {a \in Actions : a \notin policy.deny /\ (policy.allow = None \/ a \in policy.allow)}
DestructiveHint(a) == MethodOf(a) = "DELETE"
NeedsConfirmation(a) == IF policy.confirm # None THEN a \in policy.confirm ELSE DestructiveHint(a)
CheckConfirmation(m) == m.confirm

\* The transport.  Versions: of the header and of the body, "modern", "legacy", "unknown" or None.
Declared(m) == IF m.meta # None THEN m.meta ELSE m.header
Modern(m) == Declared(m) = "modern"
VersionMismatch(m) == m.header # None /\ m.meta # None /\ m.header # m.meta
\* A modern message repeats its method and its tool in headers.
ModernHeadersDisagree(m) == Modern(m) /\ (m.header = None \/ ~m.mirrored)
Rejected(m) == CASE ~m.host \/ ~m.origin -> 403
                 [] VersionMismatch(m) -> 400
                 [] Declared(m) = "unknown" -> 400
                 [] ModernHeadersDisagree(m) -> 400
                 [] OTHER -> 200

\* dispatch: the methods that only read, and those that do not exist.
Known == {"server/discover", "initialize", "notifications/initialized", "notifications/cancelled",
          "ping", "tools/list", "tools/call", "resources/list", "resources/read"}
Acknowledged(m) == m.method \in {"notifications/initialized", "notifications/cancelled"} \/ m.notification
Reply(m) == CASE Acknowledged(m) -> 202
              [] m.method \notin Known /\ Modern(m) -> 404
              [] OTHER -> 200

RecordSuccess(tool, outcome, status) ==
  audit' = IF outcome = "ok" THEN Append(audit, [tool |-> tool, outcome |-> outcome, status |-> status]) ELSE audit
Record(tool, outcome, status) == audit' = Append(audit, [tool |-> tool, outcome |-> outcome, status |-> status])

\* The slot of a message that is answered at once, and of one that becomes a request:
\* credentials are forwarded, the origin is not.
Replied(status) == [NotAsked EXCEPT !.stage = "answered", !.status = status]
Forwarded(m) == [m.request EXCEPT !.origin = "own"]
\* callTool: a path parameter must be there.
MissingPath(m) == m.request.action \in Detail /\ m.request.row = None

Post(c, m) ==
  /\ phase = "up" /\ Free(c) /\ Bounded(m.request.action)
  /\ served' = served + 1
  /\ LET tool == m.request.action IN
     IF Rejected(m) # 200 THEN Move(c, Replied(Rejected(m))) /\ UNCHANGED audit
     ELSE IF m.method # "tools/call" \/ tool \notin ApplyPolicy
     THEN Move(c, Replied(Reply(m))) /\ UNCHANGED audit
     ELSE IF NeedsConfirmation(tool) /\ ~CheckConfirmation(m)
     THEN Move(c, Replied(Reply(m))) /\ Record(tool, "refused", 0)
     ELSE IF MissingPath(m)
     THEN Move(c, Replied(Reply(m))) /\ Record(tool, "error", 0)
     ELSE /\ Move(c, [Received(Forwarded(m), TRUE) EXCEPT !.confirmed = m.confirm])
          /\ UNCHANGED audit
  /\ UNCHANGED <<clock, phase, deadline, table, limiter, policy>>

\* The answer of the request becomes the result of the call, recorded either way.
Outcome(status) == IF status >= 400 THEN "error" ELSE "ok"
Report(c) == LET s == slots[c] IN
  /\ s.stage = "returned"
  /\ Record(s.action, Outcome(s.status), s.status)
  /\ Move(c, Replied(200))
  /\ UNCHANGED <<quiet, table, limiter, policy>>

\* History: a change made while serving an agent's request.
Witness == changed' = changed \cup
  {[tool |-> slots[c].action, row |-> slots'[c].made, confirmed |-> slots[c].confirmed] :
     c \in {d \in Slots : /\ Asks(slots[d]) /\ slots[d].agent
                          /\ slots[d].made = None /\ slots'[d].made # None}}

AgentInit == Init /\ policy \in Policies /\ audit = <<>> /\ changed = {}
AgentNext ==
  /\ \/ (Browse \/ Process \/ \E c \in Slots : Serve(c)) /\ UNCHANGED <<policy, audit>>
     \/ \E c \in Slots : (\E m \in Calls : Post(c, m)) \/ Report(c)
  /\ Observe /\ Witness
AgentSpec == AgentInit /\ [][AgentNext]_allVars

-----------------------------------------------------------------------------
AgentTypeOK ==
  /\ TypeOK /\ policy \in Policies
  /\ \A i \in DOMAIN audit : audit[i].outcome \in {"ok", "error", "refused"}

InFlight(tool) == {c \in Slots : slots[c].agent /\ slots[c].action = tool}
Told(tool) == {i \in DOMAIN audit : audit[i].tool = tool /\ audit[i].outcome # "refused"}

(* What an agent is allowed to do, as distinct from its user, and the record *)
(* of it (mcp/policy.ts, mcp/audit.ts): nothing ever changed through a tool  *)
(* that the policy withholds, nothing that cannot be undone changed without  *)
(* its confirmation, and each change is in the record as a call that reached *)
(* the API, once that call has ended - also when it answered with an error   *)
(* after the change was made.                                                *)
AgentsAccountable == \A tool \in Actions : LET done == {e \in changed : e.tool = tool} IN
  /\ done # {} => tool \notin policy.deny /\ (policy.allow # None => tool \in policy.allow)
  /\ \A e \in done : e.confirmed \/ tool \notin IF policy.confirm = None THEN {"destroy"} ELSE policy.confirm
  /\ Cardinality(done) <= Cardinality(Told(tool)) + Cardinality(InFlight(tool))
=============================================================================
