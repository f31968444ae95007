---------------------------- MODULE RequestsProofs ----------------------------
(***************************************************************************)
(* Proofs about Requests and Agents, for any number of requests in flight, *)
(* users, rows, messages and policies, and about the rate limiter and the  *)
(* forms of the admin.                                                     *)
(***************************************************************************)
EXTENDS Agents, Admin, FiniteSetTheorems, WellFoundedInduction, TLAPS

(* A request that is being served, and a slot or an answer that asks nothing. *)
Serving == [action: Actions, row: Rows \cup {None}, user: Users \cup {None},
            via: {"bearer", "cookie", "none"}, origin: {"own", "other"},
            owner: Given, ownerId: Given,
            stage: {"received", "handling", "judging", "writing", "written"}, agent: BOOLEAN,
            status: Nat, shows: SUBSET Rows, made: Rows \cup {None}, cut: {FALSE}, confirmed: BOOLEAN]
Silent == [action: Actions \cup {None}, stage: {"free", "returned", "answered"}, agent: BOOLEAN,
           status: Nat, shows: SUBSET Rows, made: Rows \cup {None}, cut: BOOLEAN, confirmed: BOOLEAN]

LEMMA StatusType == \A error : StatusOf(error) \in Nat
  BY DEF StatusOf

LEMMA NotAskedShape ==
  /\ NotAsked \in Silent /\ NotAsked.stage = "free" /\ NotAsked.cut = FALSE
  /\ NotAsked.made = None /\ NotAsked.agent = FALSE
  BY DEF NotAsked, Silent

Answers(a, s, shows) ==
  /\ a \in Silent /\ a.stage \in {"returned", "answered"}
  /\ a.shows = shows /\ a.made = s.made /\ a.cut = FALSE
  /\ a.agent = s.agent /\ (s.agent => a.stage = "returned" /\ a.action = s.action)

LEMMA AnsweredShape ==
  ASSUME NEW s \in Serving, NEW status \in Nat, NEW shows \in SUBSET Rows
  PROVE  Answers(Answered(s, status, shows), s, shows)
<1>1. PICK a : a = Answered(s, status, shows)
  OBVIOUS
<1>2. /\ a \in Silent /\ a.stage \in {"returned", "answered"}
      /\ a.shows = shows /\ a.made = s.made /\ a.cut = FALSE
  BY <1>1, NotAskedShape DEF Answered, Serving, Silent
<1>3. a.agent = s.agent /\ (s.agent => a.stage = "returned" /\ a.action = s.action)
  BY <1>1, NotAskedShape DEF Answered, Serving, Silent
<1> QED
  BY <1>1, <1>2, <1>3 DEF Answers

LEMMA FailedShape ==
  ASSUME NEW s \in Serving, NEW error, NEW a, a = Failed(s, error)
  PROVE  /\ a \in Silent /\ a.stage \in {"returned", "answered"}
         /\ a.shows = {} /\ a.made = s.made /\ (a.cut => error = "closed")
         /\ a.agent = s.agent /\ (s.agent => a.stage = "returned" /\ a.action = s.action)
<1>1. PICK status \in Nat : status = StatusOf(error)
  BY StatusType
<1>2. PICK none \in SUBSET Rows : none = {}
  OBVIOUS
<1>3. PICK b : b = Answered(s, status, none) /\ Answers(b, s, none)
  BY AnsweredShape
<1>4. /\ b \in Silent /\ b.stage \in {"returned", "answered"} /\ b.shows = none /\ b.made = s.made
      /\ b.agent = s.agent /\ (s.agent => b.stage = "returned" /\ b.action = s.action)
  BY <1>3 DEF Answers
<1>5. a = [b EXCEPT !.cut = (error = "closed")]
  BY <1>1, <1>2, <1>3 DEF Failed
<1> QED
  BY <1>2, <1>4, <1>5 DEF Silent

LEMMA ToShape ==
  ASSUME NEW s \in Serving, NEW stage \in {"handling", "judging", "writing", "written"}, NEW t, t = To(s, stage)
  PROVE  /\ t \in Serving /\ t.stage = stage
         /\ t.action = s.action /\ t.row = s.row /\ t.user = s.user /\ t.owner = s.owner
         /\ t.ownerId = s.ownerId /\ t.made = s.made /\ t.agent = s.agent /\ t.confirmed = s.confirmed
  BY DEF To, Serving

LEMMA AskingShape ==
  ASSUME NEW r \in Shape, NEW agent \in BOOLEAN, NEW t, t = Asking(r, agent)
  PROVE  /\ t \in Serving /\ t.stage = "received" /\ t.made = None
         /\ t.action = r.action /\ t.row = r.row /\ t.user = r.user /\ t.owner = r.owner /\ t.ownerId = r.ownerId
         /\ t.agent = agent
  BY DEF Asking, Shape, Serving

-----------------------------------------------------------------------------
(* What a request has passed by the time it reaches a stage: `z` is what has *)
(* been in its caller's scope since it came.                                 *)
Good(s, z) ==
  /\ ~Unfit(s) /\ (s.action = "service" => s.row \in Rows)
  /\ s.stage # "received" => Permitted(s)
  /\ s.stage # "written" => s.made = None
  /\ s.stage = "judging" => s.action \in Detail /\ s.row \in z
  /\ s.stage = "writing" => /\ s.action \in {"create", "update", "partialUpdate", "destroy"}
                            /\ s.action # "create" => s.row \in z
                            /\ s.action # "destroy" => ~BadBody(s)
  /\ s.stage = "written" => s.row \in Rows /\ s.row \in z \cup {s.made}

Resting == {s \in Silent : s.stage = "returned"} \cup {NotAsked}
RequestsTyped ==
  /\ clock \in 0..MaxClock /\ served \in 0..MaxRequests
  /\ phase \in {"up", "draining", "closed"} /\ deadline \in 0..MaxClock
  /\ rows \in [Rows -> Users \cup {None}] /\ unused \subseteq Rows
  /\ seen \in [Slots -> SUBSET Rows]
  /\ slots \in [Slots -> Serving \cup Resting]
Counters ==
  /\ counters \in [Keys -> [count: Nat, expiresAt: Nat]] /\ lastSweep \in Int
Entry == [tool: Actions \cup {None}, outcome: {"ok", "error", "refused"}, status: Nat]
Heard == policy \in Policies /\ audit \in Seq(Entry)
Careful == \A c \in Slots : slots[c] \in Serving => Good(slots[c], seen[c])
Scoped == \A c \in Slots : slots[c] \in Serving => Scope(slots[c].user, rows) \subseteq seen[c]
Cuts ==
  /\ \A c \in Slots : slots[c].cut => clock >= deadline /\ phase = "closed"
  /\ answer.cut => clock >= deadline /\ phase = "closed"
  /\ phase = "closed" => clock >= deadline \/ \A c \in Slots : slots[c].stage = "free"
SlotsInv == RequestsTyped /\ Careful /\ Scoped

(* What every step of one request is, whatever the stage. *)
(* What an agent may do: the policy exposes the tool, and what must be     *)
(* confirmed is.                                                           *)
Entitled(s) ==
  /\ s.action \notin policy.deny /\ (policy.allow # None => s.action \in policy.allow)
  /\ s.confirmed \/ s.action \notin IF policy.confirm = None THEN {"destroy"} ELSE policy.confirm
Kept(c, new) ==
  /\ new.agent => new.stage # "answered"
  /\ slots[c] \in Serving =>
       /\ new.agent = slots[c].agent /\ (new.agent => new.action = slots[c].action)
       /\ slots[c].made # None => new.made # None
       /\ new \in Serving => new.confirmed = slots[c].confirmed
  /\ slots[c] \notin Serving =>
       /\ new.made = None
       /\ new \in Serving /\ new.agent => Entitled(new)
Since(c) == IF slots[c] \in Serving THEN seen[c] ELSE {}
Fine(c, new) ==
  /\ \/ /\ new \in Serving /\ Good(new, Since(c))
        /\ slots[c] \in Serving => new.user = slots[c].user
     \/ /\ new \in Silent /\ new.stage \in {"returned", "answered"}
        /\ slots[c] \in Serving => new.shows \subseteq seen[c] \cup {new.made}
        /\ new.cut => phase = "closed" /\ slots[c] \in Serving
  /\ Kept(c, new)
Advance(c) ==
  /\ \E new : Move(c, new) /\ Fine(c, new)
  /\ slots[c].stage = "free" => phase = "up"
  /\ UNCHANGED <<clock, phase, deadline>>

LEMMA ApartStages == \A s : s \in Serving => s \notin Silent /\ Asks(s) /\ s.stage # "answered" /\ s.stage # "free" /\ s.cut = FALSE
  BY DEF Serving, Silent, Asks

LEMMA AsksIsServing == ASSUME NEW s \in Serving \cup Resting PROVE Asks(s) <=> s \in Serving
  BY ApartStages, NotAskedShape DEF Resting, Asks

LEMMA UnfitSame ==
  ASSUME NEW r, NEW t, t.action = r.action, t.owner = r.owner, t.ownerId = r.ownerId
  PROVE  (Unfit(t) <=> Unfit(r)) /\ (BadBody(t) <=> BadBody(r))
<1>1. t["owner"] = r["owner"] /\ t["ownerId"] = r["ownerId"]
  OBVIOUS
<1>2. BodyOf(t.action) = BodyOf(r.action) /\ BodyOf(r.action) \subseteq {"owner", "ownerId"}
  BY DEF BodyOf
<1>3. \A key \in BodyOf(r.action) : t[key] = r[key]
  BY <1>1, <1>2
<1>4. Unfit(t) <=> Unfit(r)
  BY <1>2, <1>3 DEF Unfit
<1>5. BadBody(t) <=> BadBody(r)
  BY DEF BadBody, Relation
<1> QED
  BY <1>4, <1>5

LEMMA PermittedSame ==
  ASSUME NEW r, NEW t, t.action = r.action, t.user = r.user
  PROVE  Permitted(t) <=> Permitted(r)
  BY DEF Permitted, PermissionsFor, Passes

(* A failed request, and one that goes on with what it had. *)
LEMMA FailedFine ==
  ASSUME NEW c \in Slots, slots[c] \in Serving, NEW error, error = "closed" => phase = "closed"
  PROVE  Fine(c, Failed(slots[c], error))
<1>1. PICK a : a = Failed(slots[c], error)
  OBVIOUS
<1>2. /\ a \in Silent /\ a.stage \in {"returned", "answered"}
      /\ a.shows = {} /\ a.made = slots[c].made /\ (a.cut => error = "closed")
      /\ a.agent = slots[c].agent /\ (slots[c].agent => a.stage = "returned" /\ a.action = slots[c].action)
  BY <1>1, FailedShape
<1> QED
  BY <1>1, <1>2, ApartStages DEF Fine, Kept

LEMMA AnsweredFine ==
  ASSUME NEW c \in Slots, slots[c] \in Serving, NEW status \in Nat, NEW shows \in SUBSET Rows,
         shows \subseteq seen[c] \cup {slots[c].made}
  PROVE  Fine(c, Answered(slots[c], status, shows))
<1>1. PICK a : a = Answered(slots[c], status, shows) /\ Answers(a, slots[c], shows)
  BY AnsweredShape
<1>2. /\ a \in Silent /\ a.stage \in {"returned", "answered"}
      /\ a.shows = shows /\ a.made = slots[c].made /\ a.cut = FALSE
      /\ a.agent = slots[c].agent /\ (slots[c].agent => a.stage = "returned" /\ a.action = slots[c].action)
  BY <1>1 DEF Answers
<1> QED
  BY <1>1, <1>2, ApartStages DEF Fine, Kept

(* An answer that also made a change. *)
LEMMA ChangedFine ==
  ASSUME NEW c \in Slots, slots[c] \in Serving, slots[c].made = None, NEW made \in Rows \cup {None},
         NEW shows \in SUBSET Rows, shows \subseteq seen[c] \cup {made},
         NEW a, Answers(a, slots[c], shows), NEW new, new = [a EXCEPT !.made = made]
  PROVE  Fine(c, new)
<1>1. /\ a \in Silent /\ a.stage \in {"returned", "answered"} /\ a.shows = shows /\ a.cut = FALSE
      /\ a.agent = slots[c].agent /\ (slots[c].agent => a.stage = "returned" /\ a.action = slots[c].action)
  BY DEF Answers
<1>2. /\ new \in Silent /\ new.stage = a.stage /\ new.shows = shows /\ new.made = made /\ new.cut = FALSE
      /\ new.agent = a.agent /\ new.action = a.action
  BY <1>1 DEF Silent
<1> QED
  BY <1>1, <1>2, ApartStages DEF Fine, Kept

LEMMA ToFine ==
  ASSUME NEW c \in Slots, slots[c] \in Serving, Good(slots[c], seen[c]), NEW stage \in {"handling", "judging", "writing"},
         slots[c].stage # "written", Permitted(slots[c]),
         stage = "judging" => slots[c].action \in Detail /\ slots[c].row \in seen[c],
         stage = "writing" => /\ slots[c].action \in {"create", "update", "partialUpdate", "destroy"}
                              /\ slots[c].action # "create" => slots[c].row \in seen[c]
                              /\ slots[c].action # "destroy" => ~BadBody(slots[c])
  PROVE  Fine(c, To(slots[c], stage))
<1>1. PICK t : t = To(slots[c], stage)
  OBVIOUS
<1>2. /\ t \in Serving /\ t.stage = stage
      /\ t.action = slots[c].action /\ t.row = slots[c].row /\ t.user = slots[c].user /\ t.owner = slots[c].owner
      /\ t.ownerId = slots[c].ownerId /\ t.made = slots[c].made
      /\ t.agent = slots[c].agent /\ t.confirmed = slots[c].confirmed
  BY <1>1, ToShape
<1>3. /\ (Unfit(t) <=> Unfit(slots[c])) /\ (BadBody(t) <=> BadBody(slots[c]))
      /\ Permitted(t) <=> Permitted(slots[c])
  BY <1>2, UnfitSame, PermittedSame
<1>4. Good(t, seen[c])
  BY <1>2, <1>3 DEF Good
<1> QED
  BY <1>1, <1>2, <1>4, ApartStages DEF Fine, Kept, Since

LEMMA ScopeInRows == ASSUME NEW user, NEW owners PROVE Scope(user, owners) \subseteq Rows
  BY DEF Scope

(* Each stage of a request that is served. *)
LEMMA ServingStages ==
  ASSUME SlotsInv, NEW c \in Slots, slots[c].stage \in {"received", "handling", "judging", "writing", "written"}
  PROVE  /\ slots[c] \in Serving /\ Good(slots[c], seen[c])
         /\ Scope(slots[c].user, rows) \subseteq seen[c] /\ seen[c] \subseteq Rows
  BY NotAskedShape DEF SlotsInv, RequestsTyped, Careful, Scoped, Resting, Silent

LEMMA AdmitStep ==
  ASSUME SlotsInv, NEW c \in Slots, Admit(c)
  PROVE  /\ slots[c] \in Serving /\ Advance(c)
<1>1. slots[c].stage = "received"
  BY DEF Admit
<1>2. slots[c] \in Serving /\ Good(slots[c], seen[c])
  BY <1>1, ServingStages
<1>3. UNCHANGED <<clock, phase, deadline>>
  BY DEF Admit, quiet
<1>4. CASE Move(c, Failed(slots[c], "closed")) /\ ~Connected
  <2>1. Fine(c, Failed(slots[c], "closed"))
    BY <1>2, <1>4, FailedFine DEF Connected
  <2> QED
    BY <1>1, <1>2, <1>3, <1>4, <2>1 DEF Advance
<1>5. CASE Move(c, Failed(slots[c], "Throttled"))
  <2>1. Fine(c, Failed(slots[c], "Throttled"))
    BY <1>2, FailedFine
  <2> QED
    BY <1>1, <1>2, <1>3, <1>5, <2>1 DEF Advance
<1>6. CASE Move(c, Failed(slots[c], Refusal(slots[c].user)))
  <2>1. Refusal(slots[c].user) # "closed"
    BY DEF Refusal
  <2>2. Fine(c, Failed(slots[c], Refusal(slots[c].user)))
    BY <1>2, <2>1, FailedFine
  <2> QED
    BY <1>1, <1>2, <1>3, <1>6, <2>2 DEF Advance
<1>7. CASE Move(c, To(slots[c], "handling")) /\ Permitted(slots[c])
  <2>1. Fine(c, To(slots[c], "handling"))
    BY <1>1, <1>2, <1>7, ToFine
  <2> QED
    BY <1>1, <1>2, <1>3, <1>7, <2>1 DEF Advance
<1> QED
  BY <1>4, <1>5, <1>6, <1>7 DEF Admit

LEMMA CutStep ==
  ASSUME SlotsInv, NEW c \in Slots, Cut(c)
  PROVE  slots[c] \in Serving /\ Advance(c)
<1>1. slots[c].stage \in {"handling", "writing"}
  BY DEF Cut
<1>2. slots[c] \in Serving /\ Good(slots[c], seen[c])
  BY <1>1, ServingStages
<1>3. Fine(c, Failed(slots[c], "closed"))
  BY <1>2, FailedFine DEF Cut, Connected
<1> QED
  BY <1>1, <1>2, <1>3 DEF Cut, quiet, Advance

LEMMA ListStep ==
  ASSUME SlotsInv, NEW c \in Slots, List(c)
  PROVE  slots[c] \in Serving /\ Advance(c)
<1>1. slots[c].stage = "handling"
  BY DEF List
<1>2. /\ slots[c] \in Serving
      /\ Scope(slots[c].user, rows) \subseteq seen[c] /\ seen[c] \subseteq Rows
  BY <1>1, ServingStages
<1>3. PICK shows \in SUBSET Rows : shows = Readable(slots[c].user)
  BY ScopeInRows DEF Readable
<1>4. slots[c].made \in Rows \cup {None}
  BY <1>2 DEF Serving
<1>5. shows \subseteq seen[c] \cup {slots[c].made}
  BY <1>2, <1>3 DEF Readable
<1>6. 200 \in Nat
  OBVIOUS
<1>7. Fine(c, Answered(slots[c], 200, shows))
  BY <1>2, <1>4, <1>5, <1>6, AnsweredFine
<1> QED
  BY <1>1, <1>2, <1>3, <1>7 DEF List, quiet, Advance

LEMMA GetObjectStep ==
  ASSUME SlotsInv, NEW c \in Slots, GetObject(c)
  PROVE  slots[c] \in Serving /\ Advance(c)
<1>1. slots[c].stage = "handling"
  BY DEF GetObject
<1>2. /\ slots[c] \in Serving /\ Good(slots[c], seen[c])
      /\ Scope(slots[c].user, rows) \subseteq seen[c]
  BY <1>1, ServingStages
<1>3. Fine(c, Failed(slots[c], "NotFound"))
  BY <1>2, FailedFine
<1>5. Permitted(slots[c])
  BY <1>1, <1>2 DEF Good
<1>4. ASSUME slots[c].row \in Readable(slots[c].user)
      PROVE  Fine(c, To(slots[c], "judging"))
  BY <1>1, <1>2, <1>4, <1>5, ToFine DEF GetObject, Readable
<1> QED
  BY <1>1, <1>2, <1>3, <1>4 DEF GetObject, quiet, Advance

LEMMA PreparedFine ==
  ASSUME NEW c \in Slots, slots[c] \in Serving, Good(slots[c], seen[c]),
         slots[c].action \in {"create", "update", "partialUpdate", "destroy"},
         slots[c].action # "create" => slots[c].row \in seen[c], slots[c].stage \notin {"received", "written"},
         NEW next \in Prepared(slots[c])
  PROVE  Fine(c, next)
<1>1. CASE next = Failed(slots[c], "ValidationError")
  BY <1>1, FailedFine
<1>2. CASE next = Failed(slots[c], "hook")
  BY <1>2, FailedFine
<1>3. CASE next = To(slots[c], "writing") /\ (slots[c].action # "destroy" => ~BadBody(slots[c]))
  <2>1. Permitted(slots[c])
    BY DEF Good
  <2> QED
    BY <1>3, <2>1, ToFine
<1> QED
  BY <1>1, <1>2, <1>3 DEF Prepared

LEMMA JudgeStep ==
  ASSUME SlotsInv, NEW c \in Slots, Judge(c)
  PROVE  slots[c] \in Serving /\ Advance(c)
<1>1. slots[c].stage = "judging"
  BY DEF Judge
<1>2. slots[c] \in Serving /\ Good(slots[c], seen[c]) /\ seen[c] \subseteq Rows
  BY <1>1, ServingStages
<1>3. slots[c].action \in Detail /\ slots[c].row \in seen[c]
  BY <1>1, <1>2 DEF Good
<1>4. Refusal(slots[c].user) # "closed"
  BY DEF Refusal
<1>5. Fine(c, Failed(slots[c], Refusal(slots[c].user)))
  BY <1>2, <1>4, FailedFine
<1>6. Fine(c, Answered(slots[c], 200, {slots[c].row}))
  <2>1. PICK shows \in SUBSET Rows : shows = {slots[c].row}
    BY <1>2, <1>3
  <2>2. slots[c].made \in Rows \cup {None} /\ 200 \in Nat
    BY <1>2 DEF Serving
  <2>3. shows \subseteq seen[c] \cup {slots[c].made}
    BY <1>3, <2>1
  <2>4. Fine(c, Answered(slots[c], 200, shows))
    BY <1>2, <2>2, <2>3, AnsweredFine
  <2> QED
    BY <2>1, <2>4
<1>7. ASSUME slots[c].action # "retrieve", NEW next \in Prepared(slots[c])
      PROVE  Fine(c, next)
  BY <1>1, <1>2, <1>3, <1>7, PreparedFine DEF Detail
<1> QED
  BY <1>1, <1>2, <1>5, <1>6, <1>7 DEF Judge, quiet, Advance

LEMMA PrepareStep ==
  ASSUME SlotsInv, NEW c \in Slots, Prepare(c)
  PROVE  slots[c] \in Serving /\ Advance(c)
<1>1. slots[c].stage = "handling" /\ slots[c].action = "create"
  BY DEF Prepare
<1>2. slots[c] \in Serving /\ Good(slots[c], seen[c])
  BY <1>1, ServingStages
<1>3. ASSUME NEW next \in Prepared(slots[c])
      PROVE  Fine(c, next)
  BY <1>1, <1>2, <1>3, PreparedFine
<1> QED
  BY <1>1, <1>2, <1>3 DEF Prepare, quiet, Advance

(* A body that passed the schema and the serializer names an owner. *)
LEMMA NamesAnOwner ==
  ASSUME NEW s \in Serving, ~Unfit(s)
  PROVE  /\ s.action \in {"create", "update", "partialUpdate"} /\ ~BadBody(s) /\ Relation(s) # "absent" => Relation(s) \in Users
         /\ s.action = "create" /\ ~BadBody(s) => Relation(s) \in Users
         /\ s.action = "service" => s.owner \in Users
<1>1. s.owner \in Given /\ s.ownerId \in Given
  BY DEF Serving
<1>2. CASE s.action \in {"create", "update", "partialUpdate"}
  <2>1. BodyOf(s.action) = {"owner", "ownerId"}
    BY <1>2 DEF BodyOf
  <2>2. s["owner"] # "malformed" /\ s["ownerId"] # "malformed"
    BY <2>1 DEF Unfit
  <2> QED
    BY <1>1, <1>2, <2>2 DEF Relation, BadBody, Given
<1>3. CASE s.action = "service"
  <2>1. BodyOf(s.action) = {"owner"}
    BY <1>3 DEF BodyOf
  <2>2. s["owner"] # "malformed" /\ s["owner"] # "null" /\ s["owner"] # "absent"
    BY <1>3, <2>1 DEF Unfit
  <2> QED
    BY <1>1, <1>3, <2>2 DEF Given
<1> QED
  BY <1>2, <1>3

TableKept == rows' \in [Rows -> Users \cup {None}] /\ unused' \subseteq Rows

LEMMA WrittenFine ==
  ASSUME NEW c \in Slots, slots[c] \in Serving, Good(slots[c], seen[c]), slots[c].action \in Actions \ {"service"},
         slots[c].stage # "received",
         NEW row \in Rows, NEW made \in Rows \cup {None}, row \in seen[c] \cup {made}, slots[c].made # None => made # None,
         NEW new, new = [To(slots[c], "written") EXCEPT !.row = row, !.made = made]
  PROVE  Fine(c, new)
<1>1. PICK t : t = To(slots[c], "written")
  OBVIOUS
<1>2. /\ t \in Serving /\ t.stage = "written"
      /\ t.action = slots[c].action /\ t.user = slots[c].user /\ t.owner = slots[c].owner
      /\ t.ownerId = slots[c].ownerId /\ t.agent = slots[c].agent /\ t.confirmed = slots[c].confirmed
  BY <1>1, ToShape
<1>3. new = [t EXCEPT !.row = row, !.made = made]
  BY <1>1
<1>4. /\ new \in Serving /\ new.stage = "written" /\ new.row = row /\ new.made = made
      /\ new.action = slots[c].action /\ new.user = slots[c].user /\ new.owner = slots[c].owner
      /\ new.ownerId = slots[c].ownerId
  <2>1. new \in Serving
    BY <1>2, <1>3 DEF Serving
  <2>2. new.row = row /\ new.made = made
    BY <1>2, <1>3 DEF Serving
  <2>3. new.stage = t.stage /\ new.action = t.action /\ new.user = t.user
    BY <1>2, <1>3 DEF Serving
  <2>4. new.owner = t.owner /\ new.ownerId = t.ownerId
    BY <1>2, <1>3 DEF Serving
  <2> QED
    BY <1>2, <2>1, <2>2, <2>3, <2>4
<1>7. new.agent = slots[c].agent /\ new.confirmed = slots[c].confirmed
  BY <1>2, <1>3 DEF Serving
<1>5. (Unfit(new) <=> Unfit(slots[c])) /\ (Permitted(new) <=> Permitted(slots[c]))
  BY <1>4, UnfitSame, PermittedSame
<1>6. Good(new, seen[c])
  BY <1>4, <1>5 DEF Good
<1> QED
  BY <1>4, <1>6, <1>7, ApartStages DEF Fine, Kept, Since

LEMMA CreateStep ==
  ASSUME SlotsInv, NEW c \in Slots, Create(c)
  PROVE  slots[c] \in Serving /\ Advance(c) /\ TableKept
<1>1. slots[c].stage = "writing" /\ slots[c].action = "create"
  BY DEF Create
<1>2. slots[c] \in Serving /\ Good(slots[c], seen[c])
  BY <1>1, ServingStages
<1>0. slots[c].made = None
  BY <1>1, <1>2 DEF Good
<1>3. rows \in [Rows -> Users \cup {None}] /\ unused \subseteq Rows
  BY DEF SlotsInv, RequestsTyped
<1>4. Relation(slots[c]) \in Users
  BY <1>1, <1>2, NamesAnOwner DEF Good
<1>5. CASE Move(c, Failed(slots[c], "unique")) /\ UNCHANGED table
  <2>1. Fine(c, Failed(slots[c], "unique"))
    BY <1>2, FailedFine
  <2> QED
    BY <1>1, <1>2, <1>3, <1>5, <2>1 DEF Create, quiet, table, Advance, TableKept
<1>6. ASSUME NEW p \in unused, rows' = [rows EXCEPT ![p] = Relation(slots[c])], unused' = unused \ {p},
             Move(c, [To(slots[c], "written") EXCEPT !.row = p, !.made = p])
      PROVE  Advance(c) /\ TableKept
  <2>1. slots[c].action \in Actions \ {"service"} /\ p \in Rows
    BY <1>1, <1>3 DEF Actions
  <2>2. PICK new : new = [To(slots[c], "written") EXCEPT !.row = p, !.made = p]
    OBVIOUS
  <2>3. Fine(c, new)
    BY <1>1, <1>2, <2>1, <2>2, <1>0, WrittenFine
  <2>4. TableKept
    BY <1>3, <1>4, <1>6 DEF TableKept
  <2> QED
    BY <1>1, <1>6, <2>2, <2>3, <2>4 DEF Create, quiet, Advance
<1> QED
  BY <1>2, <1>5, <1>6 DEF Create

LEMMA UpdateStep ==
  ASSUME SlotsInv, NEW c \in Slots, Update(c)
  PROVE  slots[c] \in Serving /\ Advance(c) /\ TableKept
<1>1. slots[c].stage = "writing" /\ slots[c].action \in {"update", "partialUpdate"}
  BY DEF Update
<1>2. slots[c] \in Serving /\ Good(slots[c], seen[c]) /\ seen[c] \subseteq Rows
  BY <1>1, ServingStages
<1>0. slots[c].made = None
  BY <1>1, <1>2 DEF Good
<1>3. slots[c].row \in seen[c] /\ slots[c].row \in Rows /\ ~BadBody(slots[c])
  BY <1>1, <1>2 DEF Good
<1>4. rows \in [Rows -> Users \cup {None}] /\ unused \subseteq Rows
  BY DEF SlotsInv, RequestsTyped
<1>5. Changes(slots[c]) => Relation(slots[c]) \in Users
  BY <1>1, <1>2, <1>3, NamesAnOwner DEF Good, Changes
<1>6. TableKept
  BY <1>3, <1>4, <1>5 DEF Update, TableKept
<1>7. PICK made \in Rows \cup {None} : made = IF Changes(slots[c]) THEN slots[c].row ELSE None
  BY <1>3
<1>8. PICK new : new = [To(slots[c], "written") EXCEPT !.made = made]
  OBVIOUS
<1>9. Fine(c, new)
  <2>1. slots[c].action \in Actions \ {"service"}
    BY <1>1 DEF Actions
  <2>2. PICK t : t = To(slots[c], "written")
    OBVIOUS
  <2>3. t \in Serving /\ t.row = slots[c].row
    BY <1>2, <2>2, ToShape
  <2>4. [t EXCEPT !.made = made] = [t EXCEPT !.row = slots[c].row, !.made = made]
    BY <2>3 DEF Serving
  <2>5. new = [To(slots[c], "written") EXCEPT !.row = slots[c].row, !.made = made]
    BY <1>8, <2>2, <2>4
  <2> QED
    BY <1>1, <1>2, <1>3, <2>1, <2>5, <1>0, WrittenFine
<1>10. Move(c, new) /\ UNCHANGED quiet
  BY <1>7, <1>8 DEF Update
<1> QED
  BY <1>1, <1>2, <1>6, <1>9, <1>10 DEF quiet, Advance

LEMMA DestroyStep ==
  ASSUME SlotsInv, NEW c \in Slots, Destroy(c)
  PROVE  slots[c] \in Serving /\ Advance(c) /\ TableKept
<1>1. slots[c].stage = "writing" /\ slots[c].action = "destroy"
  BY DEF Destroy
<1>2. slots[c] \in Serving /\ Good(slots[c], seen[c]) /\ seen[c] \subseteq Rows
  BY <1>1, ServingStages
<1>0. slots[c].made = None
  BY <1>1, <1>2 DEF Good
<1>3. slots[c].row \in Rows
  BY <1>1, <1>2 DEF Good
<1>4. TableKept
  BY <1>3 DEF SlotsInv, RequestsTyped, Destroy, TableKept
<1>5. PICK made \in Rows \cup {None} : made = IF slots[c].row \in Writable(slots[c].user) THEN slots[c].row ELSE None
  BY <1>3
<1>10. PICK none \in SUBSET Rows : none = {}
  OBVIOUS
<1>6. PICK a : a = Answered(slots[c], 204, none) /\ Answers(a, slots[c], none)
  BY <1>2, AnsweredShape
<1>7. PICK new : new = [a EXCEPT !.made = made]
  OBVIOUS
<1>8. Fine(c, new)
  BY <1>0, <1>2, <1>6, <1>7, <1>10, ChangedFine
<1>9. Move(c, new) /\ UNCHANGED quiet
  BY <1>5, <1>6, <1>7, <1>10 DEF Destroy
<1> QED
  BY <1>1, <1>2, <1>4, <1>8, <1>9 DEF quiet, Advance

LEMMA FinishStep ==
  ASSUME SlotsInv, NEW c \in Slots, Finish(c)
  PROVE  slots[c] \in Serving /\ Advance(c)
<1>1. slots[c].stage = "written"
  BY DEF Finish
<1>2. slots[c] \in Serving /\ Good(slots[c], seen[c]) /\ seen[c] \subseteq Rows
  BY <1>1, ServingStages
<1>3. CASE Move(c, Failed(slots[c], IF Connected THEN "hook" ELSE "closed"))
  <2>1. Fine(c, Failed(slots[c], IF Connected THEN "hook" ELSE "closed"))
    BY <1>2, FailedFine DEF Connected
  <2> QED
    BY <1>1, <1>2, <1>3, <2>1 DEF Finish, quiet, Advance
<1>4. ASSUME NEW status \in Nat, Move(c, Answered(slots[c], status, {slots[c].row})), slots[c].row \in Rows
      PROVE  Advance(c)
  <2>1. PICK shows \in SUBSET Rows : shows = {slots[c].row}
    BY <1>4
  <2>2. slots[c].made \in Rows \cup {None}
    BY <1>2 DEF Serving
  <2>3. shows \subseteq seen[c] \cup {slots[c].made}
    BY <1>1, <1>2, <2>1 DEF Good
  <2>4. Fine(c, Answered(slots[c], status, shows))
    BY <1>2, <2>2, <2>3, AnsweredFine
  <2> QED
    BY <1>1, <1>2, <1>4, <2>1, <2>4 DEF Finish, quiet, Advance
<1>5. slots[c].row \in Rows
  BY <1>1, <1>2 DEF Good
<1>6. 200 \in Nat /\ 201 \in Nat
  OBVIOUS
<1> QED
  BY <1>2, <1>3, <1>4, <1>5, <1>6 DEF Finish

LEMMA CallServiceStep ==
  ASSUME SlotsInv, NEW c \in Slots, CallService(c)
  PROVE  slots[c] \in Serving /\ Advance(c) /\ TableKept
<1>1. slots[c].stage = "handling" /\ slots[c].action = "service"
  BY DEF CallService
<1>2. slots[c] \in Serving /\ Good(slots[c], seen[c]) /\ seen[c] \subseteq Rows
  BY <1>1, ServingStages
<1>0. slots[c].made = None
  BY <1>1, <1>2 DEF Good
<1>3. slots[c].row \in Rows /\ slots[c].owner \in Users
  BY <1>1, <1>2, NamesAnOwner DEF Good
<1>4. rows \in [Rows -> Users \cup {None}] /\ unused \subseteq Rows
  BY DEF SlotsInv, RequestsTyped
<1>5. TableKept
  BY <1>3, <1>4 DEF CallService, TableKept
<1>6. Fine(c, Failed(slots[c], "NotFound")) /\ Fine(c, Failed(slots[c], "handler"))
  BY <1>2, FailedFine
<1>7. Fine(c, [Answered(slots[c], 200, {slots[c].row}) EXCEPT !.made = slots[c].row])
  <2>1. PICK shows \in SUBSET Rows : shows = {slots[c].row}
    BY <1>3
  <2>2. PICK made \in Rows \cup {None} : made = slots[c].row
    BY <1>3
  <2>3. PICK a : a = Answered(slots[c], 200, shows) /\ Answers(a, slots[c], shows)
    BY <1>2, AnsweredShape
  <2>4. PICK new : new = [a EXCEPT !.made = made]
    OBVIOUS
  <2>5. Fine(c, new)
    BY <1>0, <1>2, <2>1, <2>2, <2>3, <2>4, ChangedFine
  <2> QED
    BY <2>1, <2>2, <2>3, <2>4, <2>5
<1> QED
  BY <1>1, <1>2, <1>5, <1>6, <1>7 DEF CallService, quiet, Advance

(* A request that arrives from outside, or for a tool call. *)
LEMMA ReceivedShape ==
  ASSUME NEW r, Requested(r), NEW agent \in BOOLEAN, NEW x, x = Received(r, agent)
  PROVE  /\ x.made = None /\ x.agent = agent
         /\ \/ x \in Serving /\ x.stage = "received" /\ x.action = r.action /\ Good(x, {})
            \/ /\ x \in Silent /\ x.stage \in {"returned", "answered"} /\ ~x.cut
               /\ agent => x.stage = "returned"
<1>1. PICK s : s = Asking(r, agent)
  OBVIOUS
<1>2. /\ s \in Serving /\ s.stage = "received" /\ s.made = None /\ s.agent = agent
      /\ s.action = r.action /\ s.row = r.row /\ s.user = r.user /\ s.owner = r.owner /\ s.ownerId = r.ownerId
  BY <1>1, AskingShape DEF Requested
<1>3. CASE x = Failed(s, "PermissionDenied") \/ x = Failed(s, "VALIDATION")
  <2>1. PICK error \in {"PermissionDenied", "VALIDATION"} : x = Failed(s, error)
    BY <1>3
  <2>2. /\ x \in Silent /\ x.stage \in {"returned", "answered"}
        /\ x.made = s.made /\ (x.cut => error = "closed")
        /\ x.agent = s.agent /\ (s.agent => x.stage = "returned")
    BY <1>2, <2>1, FailedShape
  <2>3. x.cut \in BOOLEAN
    BY <2>2 DEF Silent
  <2> QED
    BY <1>2, <2>1, <2>2, <2>3
<1>4. CASE x = s /\ ~Unfit(r)
  <2>1. Unfit(s) <=> Unfit(r)
    BY <1>2, UnfitSame
  <2>2. Good(s, {})
    BY <1>2, <1>4, <2>1 DEF Good, Requested
  <2> QED
    BY <1>2, <1>4, <2>2
<1> QED
  BY <1>1, <1>3, <1>4 DEF Received

LEMMA ArriveStep ==
  ASSUME SlotsInv, NEW c \in Slots, NEW r \in Asked, Arrive(c, r)
  PROVE  slots[c] \notin Serving /\ Advance(c)
<1>1. slots[c] \notin Serving
  BY ApartStages DEF Arrive, Free
<1>2. PICK x : x = Received(r, FALSE)
  OBVIOUS
<1>3. /\ x.made = None /\ x.agent = FALSE
      /\ \/ x \in Serving /\ x.stage = "received" /\ Good(x, {})
         \/ x \in Silent /\ x.stage \in {"returned", "answered"} /\ ~x.cut
  BY <1>2, ReceivedShape, AskedRequests
<1>4. Fine(c, x)
  BY <1>1, <1>3, ApartStages DEF Fine, Kept, Since
<1> QED
  BY <1>1, <1>2, <1>4 DEF Arrive, Advance

LEMMA RepliedFine ==
  ASSUME NEW c \in Slots, slots[c] \notin Serving, NEW status \in Nat
  PROVE  Fine(c, Replied(status))
<1>1. PICK a : a = Replied(status)
  OBVIOUS
<1>2. a \in Silent /\ a.stage = "answered" /\ a.cut = FALSE /\ a.agent = FALSE /\ a.made = None
  BY <1>1, NotAskedShape DEF Replied, Silent
<1> QED
  BY <1>1, <1>2, ApartStages DEF Fine, Kept

LEMMA ReportStep ==
  ASSUME NEW c \in Slots, Report(c)
  PROVE  slots[c] \notin Serving /\ Advance(c)
<1>1. slots[c] \notin Serving
  BY DEF Report, Serving
<1>2. Fine(c, Replied(200))
  BY <1>1, RepliedFine
<1> QED
  BY <1>1, <1>2 DEF Report, quiet, Advance

LEMMA CalledFine ==
  ASSUME NEW c \in Slots, slots[c] \notin Serving, NEW r, Requested(r), NEW b \in BOOLEAN,
         NEW new, new = [Received(r, TRUE) EXCEPT !.confirmed = b],
         r.action \notin policy.deny, policy.allow # None => r.action \in policy.allow,
         b \/ r.action \notin IF policy.confirm = None THEN {"destroy"} ELSE policy.confirm
  PROVE  Fine(c, new)
<1>1. PICK x : x = Received(r, TRUE)
  OBVIOUS
<1>2. /\ x.made = None /\ x.agent = TRUE
      /\ \/ x \in Serving /\ x.stage = "received" /\ x.action = r.action /\ Good(x, {})
         \/ x \in Silent /\ x.stage = "returned" /\ ~x.cut
  BY <1>1, ReceivedShape
<1>3. new = [x EXCEPT !.confirmed = b]
  BY <1>1
<1>4. CASE x \in Serving
  <2>1. /\ new \in Serving /\ new.action = x.action /\ new.row = x.row /\ new.stage = x.stage
        /\ new.owner = x.owner /\ new.ownerId = x.ownerId /\ new.made = x.made
        /\ new.confirmed = b
    BY <1>3, <1>4 DEF Serving
  <2>2. (Unfit(new) <=> Unfit(x)) /\ (BadBody(new) <=> BadBody(x))
    BY <2>1, UnfitSame
  <2>3. x.action = r.action /\ x.stage = "received" /\ Good(x, {})
    BY <1>2, <1>4, ApartStages
  <2>4. Good(new, {})
    BY <2>1, <2>2, <2>3 DEF Good
  <2>5. Entitled(new)
    BY <2>1, <2>3 DEF Entitled
  <2> QED
    BY <1>2, <2>1, <2>3, <2>4, <2>5, ApartStages DEF Fine, Kept, Since
<1>5. CASE x \in Silent /\ x.stage = "returned" /\ ~x.cut
  <2>1. new \in Silent /\ new.stage = x.stage /\ new.cut = x.cut /\ new.made = x.made
    BY <1>3, <1>5 DEF Silent
  <2> QED
    BY <1>2, <1>5, <2>1, ApartStages DEF Fine, Kept
<1> QED
  BY <1>2, <1>4, <1>5

LEMMA ForwardedRequested ==
  ASSUME NEW m, Requested(m.request)
  PROVE  Requested(Forwarded(m))
  BY DEF Requested, Forwarded, Shape

LEMMA PostStep ==
  ASSUME SlotsInv, NEW c \in Slots, NEW m \in Calls, Post(c, m)
  PROVE  slots[c] \notin Serving /\ Advance(c)
<1>1. slots[c] \notin Serving
  BY ApartStages DEF Post, Free
<1>2. phase = "up" /\ UNCHANGED <<clock, phase, deadline>>
  BY DEF Post
<1>3. Rejected(m) \in Nat /\ Reply(m) \in Nat
  BY DEF Rejected, Reply
<1>4. Fine(c, Replied(Rejected(m))) /\ Fine(c, Replied(Reply(m)))
  BY <1>1, <1>3, RepliedFine
<1>5. ASSUME m.request.action \in ApplyPolicy, ~NeedsConfirmation(m.request.action) \/ CheckConfirmation(m)
      PROVE  Fine(c, [Received(Forwarded(m), TRUE) EXCEPT !.confirmed = m.confirm])
  <2>1. Requested(m.request) /\ m.confirm \in BOOLEAN
    BY AgentsConstants
  <2>2. PICK b \in BOOLEAN : b = m.confirm
    BY <2>1
  <2>3. PICK r : r = Forwarded(m)
    OBVIOUS
  <2>4. Requested(r) /\ r.action = m.request.action /\ r.action \in Actions
    BY <2>1, <2>3, ForwardedRequested DEF Forwarded, Requested, Shape
  <2>5. r.action \notin policy.deny /\ (policy.allow # None => r.action \in policy.allow)
    BY <1>5, <2>4 DEF ApplyPolicy
  <2>6. b \/ r.action \notin IF policy.confirm = None THEN {"destroy"} ELSE policy.confirm
    BY <1>5, <2>2, <2>4 DEF NeedsConfirmation, CheckConfirmation, DestructiveHint, MethodOf
  <2>7. PICK new : new = [Received(r, TRUE) EXCEPT !.confirmed = b]
    OBVIOUS
  <2>8. Fine(c, new)
    BY <1>1, <2>4, <2>5, <2>6, <2>7, CalledFine
  <2> QED
    BY <2>2, <2>3, <2>7, <2>8
<1>6. \/ Move(c, Replied(Rejected(m))) \/ Move(c, Replied(Reply(m)))
      \/ /\ Move(c, [Received(Forwarded(m), TRUE) EXCEPT !.confirmed = m.confirm])
         /\ m.request.action \in ApplyPolicy /\ (~NeedsConfirmation(m.request.action) \/ CheckConfirmation(m))
  BY DEF Post
<1> QED
  BY <1>1, <1>2, <1>4, <1>5, <1>6 DEF Advance

(* What leaves the table alone. *)
LEMMA ServeStep ==
  ASSUME SlotsInv, NEW c \in Slots, Serve(c)
  PROVE  slots[c] \in Serving /\ Advance(c) /\ TableKept /\ served' = served
<1>1. rows \in [Rows -> Users \cup {None}] /\ unused \subseteq Rows
  BY DEF SlotsInv, RequestsTyped
<1>2. CASE Admit(c)
  BY <1>1, <1>2, AdmitStep DEF Admit, quiet, table, TableKept
<1>3. CASE Cut(c)
  BY <1>1, <1>3, CutStep DEF Cut, quiet, table, TableKept
<1>4. CASE List(c)
  BY <1>1, <1>4, ListStep DEF List, quiet, table, TableKept
<1>5. CASE GetObject(c)
  BY <1>1, <1>5, GetObjectStep DEF GetObject, quiet, table, TableKept
<1>6. CASE Judge(c)
  BY <1>1, <1>6, JudgeStep DEF Judge, quiet, table, TableKept
<1>7. CASE Prepare(c)
  BY <1>1, <1>7, PrepareStep DEF Prepare, quiet, table, TableKept
<1>8. CASE Create(c)
  BY <1>8, CreateStep DEF Create, quiet
<1>9. CASE Update(c)
  BY <1>9, UpdateStep DEF Update, quiet
<1>10. CASE Destroy(c)
  BY <1>10, DestroyStep DEF Destroy, quiet
<1>11. CASE Finish(c)
  BY <1>1, <1>11, FinishStep DEF Finish, quiet, table, TableKept
<1>12. CASE CallService(c)
  BY <1>12, CallServiceStep DEF CallService, quiet
<1> QED
  BY <1>2, <1>3, <1>4, <1>5, <1>6, <1>7, <1>8, <1>9, <1>10, <1>11, <1>12 DEF Serve

-----------------------------------------------------------------------------
(* What one step is, seen from the slots. *)
Steps == \/ \E c \in Slots : Advance(c)
         \/ Process
Quiet == /\ served' \in 0..MaxRequests /\ TableKept

LEMMA NextSteps ==
  ASSUME SlotsInv, AgentNext
  PROVE  Steps /\ Quiet /\ Observe
<1>0. rows \in [Rows -> Users \cup {None}] /\ unused \subseteq Rows /\ served \in 0..MaxRequests
  BY DEF SlotsInv, RequestsTyped
<1>1. CASE \E c \in Slots, r \in Asked : Arrive(c, r)
  <2>1. PICK c \in Slots, r \in Asked : Arrive(c, r)
    BY <1>1
  <2>2. served < MaxRequests
    BY <1>0, <2>1, RequestsConstants DEF Arrive, Bounded
  <2> QED
    <3>1. Steps
      BY <2>1, ArriveStep DEF Steps
    <3>2. served' = served + 1 /\ UNCHANGED table
      BY <2>1 DEF Arrive
    <3>3. Quiet
      BY <1>0, <2>2, <3>2, RequestsConstants DEF Quiet, TableKept, table
    <3> QED
      BY <3>1, <3>3 DEF AgentNext
<1>2. CASE Process
  BY <1>0, <1>2 DEF Process, Stop, Disconnect, Tick, table, Steps, Quiet, TableKept, AgentNext
<1>3. CASE \E c \in Slots : Serve(c)
  BY <1>0, <1>3, ServeStep DEF Steps, Quiet, AgentNext
<1>4. CASE \E c \in Slots, m \in Calls : Post(c, m)
  <2>1. PICK c \in Slots, m \in Calls : Post(c, m)
    BY <1>4
  <2>2. served < MaxRequests
    BY <1>0, <2>1, RequestsConstants DEF Post, Bounded
  <2> QED
    <3>1. Steps
      BY <2>1, PostStep DEF Steps
    <3>2. served' = served + 1 /\ UNCHANGED table
      BY <2>1 DEF Post
    <3>3. Quiet
      BY <1>0, <2>2, <3>2, RequestsConstants DEF Quiet, TableKept, table
    <3> QED
      BY <3>1, <3>3 DEF AgentNext
<1>5. CASE \E c \in Slots : Report(c)
  BY <1>0, <1>5, ReportStep DEF Report, quiet, table, Steps, Quiet, TableKept, AgentNext
<1> QED
  BY <1>1, <1>2, <1>3, <1>4, <1>5 DEF AgentNext, Browse

(* One request moves: its slot, the others and the answer. *)
LEMMA Moved ==
  ASSUME SlotsInv, NEW c \in Slots, NEW new, Move(c, new), Fine(c, new)
  PROVE  /\ slots' \in [Slots -> Serving \cup Resting]
         /\ \A d \in Slots \ {c} : slots'[d] = slots[d]
         /\ slots'[c] \in Serving => slots'[c] = new
         /\ slots'[c] \notin Serving =>
              /\ new \in Silent /\ new \notin Serving
              /\ slots'[c].stage = "returned" => slots'[c] = new
              /\ slots'[c].stage # "returned" => answer' = new
         /\ slots'[c].cut => slots'[c] = new
         /\ answer' = new \/ answer'.cut = FALSE
<1>1. slots \in [Slots -> Serving \cup Resting]
  BY DEF SlotsInv, RequestsTyped
<1>2. new \in Serving \cup Silent
  BY DEF Fine
<1>3. \A d \in Slots \ {c} : slots'[d] = slots[d]
  BY <1>1 DEF Move
<1>4. CASE new.stage = "answered"
  <2>1. slots' = [slots EXCEPT ![c] = NotAsked] /\ answer' = new
    BY <1>4 DEF Move
  <2>2. NotAsked \in Resting /\ NotAsked.stage = "free" /\ NotAsked.cut = FALSE /\ NotAsked \notin Serving
    BY NotAskedShape, ApartStages DEF Resting
  <2>3. slots'[c] = NotAsked
    BY <1>1, <2>1
  <2>4. new \in Silent /\ new \notin Serving
    BY <1>2, <1>4, ApartStages
  <2> QED
    BY <1>1, <1>3, <2>1, <2>2, <2>3, <2>4
<1>5. CASE new.stage # "answered"
  <2>1. slots' = [slots EXCEPT ![c] = new] /\ answer' = NotAsked
    BY <1>5 DEF Move
  <2>2. new \in Serving \cup Resting
    BY <1>1, <1>2, <1>5 DEF Resting, Fine
  <2>3. slots'[c] = new
    BY <1>1, <2>1
  <2>4. new \in Silent => new \notin Serving
    BY ApartStages
  <2>5. new \notin Serving => new.stage = "returned"
    BY <1>5, <1>2 DEF Fine, Serving, Silent
  <2> QED
    BY <1>1, <1>2, <1>3, <2>1, <2>2, <2>3, <2>4, <2>5, NotAskedShape
<1> QED
  BY <1>4, <1>5

(* What a caller has seen only grows while its request lasts. *)
LEMMA Observed ==
  ASSUME SlotsInv, Observe, slots' \in [Slots -> Serving \cup Resting]
  PROVE  /\ seen' \in [Slots -> SUBSET Rows]
         /\ \A d \in Slots : slots'[d] \in Serving =>
              /\ Scope(slots'[d].user, rows') \subseteq seen'[d]
              /\ slots[d] \in Serving => seen[d] \subseteq seen'[d]
<1>1. \A c \in Slots : (Asks(slots[c]) <=> slots[c] \in Serving) /\ (Asks(slots'[c]) <=> slots'[c] \in Serving)
  BY AsksIsServing DEF SlotsInv, RequestsTyped
<1>2. \A c \in Slots : seen[c] \subseteq Rows
  BY DEF SlotsInv, RequestsTyped
<1>3. DOMAIN seen' = Slots
  BY DEF Observe
<1>4. \A c \in Slots : seen'[c] = IF ~Asks(slots'[c]) THEN {}
        ELSE Scope(slots'[c].user, rows') \cup (IF Asks(slots[c]) THEN seen[c] ELSE {})
  BY DEF Observe
<1>5. \A c \in Slots : Scope(slots'[c].user, rows') \subseteq Rows
  BY ScopeInRows
<1>6. \A c \in Slots : seen'[c] \subseteq Rows
  BY <1>2, <1>4, <1>5, Zenon
<1>7. seen' = [c \in Slots |-> seen'[c]]
  BY <1>3 DEF Observe
<1>8. seen' \in [Slots -> SUBSET Rows]
  BY <1>6, <1>7
<1> QED
  BY <1>1, <1>4, <1>8

LEMMA GoodGrows ==
  ASSUME NEW s \in Serving, NEW z, NEW y, Good(s, z), z \subseteq y
  PROVE  Good(s, y)
  BY DEF Good

(* The inductive step of SlotsInv: a request keeps what it has passed while *)
(* others move, because what its caller has seen is never forgotten.        *)
LEMMA SlotsKept ==
  ASSUME SlotsInv, Observe, TableKept, slots' \in [Slots -> Serving \cup Resting],
         \A d \in Slots : slots'[d] \in Serving => slots'[d] = slots[d] \/ Good(slots'[d], Since(d))
  PROVE  Careful' /\ Scoped' /\ seen' \in [Slots -> SUBSET Rows]
<1>1. \A d \in Slots : slots[d] \in Serving => Good(slots[d], seen[d])
  BY DEF SlotsInv, Careful
<1>2. ASSUME NEW d \in Slots, slots'[d] \in Serving PROVE Good(slots'[d], seen'[d])
  <2>1. PICK s \in Serving : s = slots'[d]
    BY <1>2
  <2>2. PICK y : y = seen'[d]
    OBVIOUS
  <2>3. slots[d] \in Serving => seen[d] \subseteq y
    BY <1>2, <2>2, Observed
  <2>4. Since(d) \subseteq y
    BY <2>3 DEF Since
  <2>5. Good(s, Since(d))
    <3>1. CASE slots'[d] = slots[d]
      BY <1>1, <1>2, <2>1, <3>1 DEF Since
    <3>2. CASE Good(slots'[d], Since(d))
      BY <2>1, <3>2
    <3> QED
      BY <1>2, <3>1, <3>2
  <2>6. PICK z : z = Since(d)
    OBVIOUS
  <2>7. Good(s, y)
    BY <2>4, <2>5, <2>6, GoodGrows
  <2> QED
    BY <2>1, <2>2, <2>7
<1>3. Careful'
  BY <1>2 DEF Careful
<1>4. Scoped'
  BY Observed DEF Scoped
<1> QED
  BY <1>3, <1>4, Observed

LEMMA AdvanceKeeps ==
  ASSUME SlotsInv, Observe, TableKept, NEW c \in Slots, Advance(c)
  PROVE  /\ slots' \in [Slots -> Serving \cup Resting]
         /\ Careful' /\ Scoped' /\ seen' \in [Slots -> SUBSET Rows]
<1>1. PICK new : Move(c, new) /\ Fine(c, new)
  BY DEF Advance
<1>2. /\ slots' \in [Slots -> Serving \cup Resting]
      /\ \A d \in Slots \ {c} : slots'[d] = slots[d]
      /\ slots'[c] \in Serving => slots'[c] = new
  BY <1>1, Moved
<1>3. new \in Serving => Good(new, Since(c))
  BY <1>1, ApartStages DEF Fine
<1>4. \A d \in Slots : slots'[d] \in Serving => slots'[d] = slots[d] \/ Good(slots'[d], Since(d))
  BY <1>2, <1>3
<1> QED
  BY <1>2, <1>4, SlotsKept

LEMMA StillKeeps ==
  ASSUME SlotsInv, Observe, TableKept, Still
  PROVE  /\ slots' \in [Slots -> Serving \cup Resting]
         /\ Careful' /\ Scoped' /\ seen' \in [Slots -> SUBSET Rows]
<1>1. slots' = slots /\ slots' \in [Slots -> Serving \cup Resting]
  BY DEF Still, SlotsInv, RequestsTyped
<1>2. \A d \in Slots : slots'[d] \in Serving => slots'[d] = slots[d] \/ Good(slots'[d], Since(d))
  BY <1>1
<1> QED
  BY <1>1, <1>2, SlotsKept

LEMMA ProcessTyped ==
  ASSUME SlotsInv, Process
  PROVE  /\ Still /\ clock' \in 0..MaxClock /\ deadline' \in 0..MaxClock
         /\ phase' \in {"up", "draining", "closed"}
<1>1. clock \in 0..MaxClock /\ deadline \in 0..MaxClock /\ phase \in {"up", "draining", "closed"}
  BY DEF SlotsInv, RequestsTyped
<1>2. CASE Stop
  BY <1>1, <1>2, RequestsConstants DEF Stop
<1>3. CASE Disconnect
  BY <1>1, <1>3 DEF Disconnect
<1>4. CASE Tick
  BY <1>1, <1>4, RequestsConstants DEF Tick
<1> QED
  BY <1>2, <1>3, <1>4 DEF Process

LEMMA SlotsInductive ==
  ASSUME SlotsInv, AgentNext
  PROVE  SlotsInv'
<1>1. Steps /\ Quiet /\ Observe
  BY NextSteps
<1>2. served' \in 0..MaxRequests /\ TableKept
  BY <1>1 DEF Quiet
<1>3. CASE \E c \in Slots : Advance(c)
  <2>1. PICK c \in Slots : Advance(c)
    BY <1>3
  <2>2. clock' \in 0..MaxClock /\ deadline' \in 0..MaxClock /\ phase' \in {"up", "draining", "closed"}
    BY <2>1 DEF Advance, SlotsInv, RequestsTyped
  <2>3. /\ slots' \in [Slots -> Serving \cup Resting]
        /\ Careful' /\ Scoped' /\ seen' \in [Slots -> SUBSET Rows]
    BY <1>1, <1>2, <2>1, AdvanceKeeps
  <2> QED
    BY <1>2, <2>2, <2>3 DEF SlotsInv, RequestsTyped, TableKept
<1>4. CASE Process
  <2>1. /\ Still /\ clock' \in 0..MaxClock /\ deadline' \in 0..MaxClock
        /\ phase' \in {"up", "draining", "closed"}
    BY <1>4, ProcessTyped
  <2>2. /\ slots' \in [Slots -> Serving \cup Resting]
        /\ Careful' /\ Scoped' /\ seen' \in [Slots -> SUBSET Rows]
    BY <1>1, <1>2, <2>1, StillKeeps
  <2> QED
    BY <1>2, <2>1, <2>2 DEF SlotsInv, RequestsTyped, TableKept
<1> QED
  BY <1>1, <1>3, <1>4 DEF Steps

LEMMA SlotsStart ==
  ASSUME AgentInit
  PROVE  SlotsInv
<1>1. clock = 0 /\ phase = "up" /\ deadline = 0 /\ served = 0 /\ rows = Owned /\ unused \subseteq Rows
  BY DEF AgentInit, Init
<1>2. slots = [c \in Slots |-> NotAsked] /\ seen = [c \in Slots |-> {}]
  BY DEF AgentInit, Init
<1>3. NotAsked \in Resting /\ NotAsked \notin Serving
  BY NotAskedShape, ApartStages DEF Resting
<1>4. seen \in [Slots -> SUBSET Rows] /\ slots \in [Slots -> Serving \cup Resting]
  BY <1>2, <1>3
<1>5. Careful /\ Scoped
  BY <1>2, <1>3 DEF Careful, Scoped
<1>6. RequestsTyped
  BY <1>1, <1>4, RequestsConstants DEF RequestsTyped
<1> QED
  BY <1>5, <1>6 DEF SlotsInv

LEMMA SlotsStutter ==
  ASSUME SlotsInv, UNCHANGED allVars
  PROVE  SlotsInv'
  BY DEF SlotsInv, RequestsTyped, Careful, Scoped, Scope, Good, Unfit, BadBody, Relation, allVars, vars

LEMMA SlotsAlways == AgentSpec => []SlotsInv
<1>1. AgentInit => SlotsInv
  BY SlotsStart
<1>2. SlotsInv /\ [AgentNext]_allVars => SlotsInv'
  BY SlotsInductive, SlotsStutter
<1> QED
  BY <1>1, <1>2, PTL DEF AgentSpec

-----------------------------------------------------------------------------
(* Draining.  The server is only closed once nothing is in flight or the   *)
(* deadline has passed; in the first case nothing can be cut any more.     *)
LEMMA CutsInductive ==
  ASSUME SlotsInv, Cuts, AgentNext
  PROVE  Cuts'
<1>1. Steps
  BY NextSteps
<1>2. clock \in 0..MaxClock /\ deadline \in 0..MaxClock /\ slots \in [Slots -> Serving \cup Resting]
  BY DEF SlotsInv, RequestsTyped
<1>3. CASE \E c \in Slots : Advance(c)
  <2>1. PICK c \in Slots : Advance(c)
    BY <1>3
  <2>2. PICK new : Move(c, new) /\ Fine(c, new)
    BY <2>1 DEF Advance
  <2>3. UNCHANGED <<clock, phase, deadline>> /\ (slots[c].stage = "free" => phase = "up")
    BY <2>1 DEF Advance
  <2>4. /\ \A d \in Slots \ {c} : slots'[d] = slots[d]
        /\ slots'[c].cut => slots'[c] = new
        /\ answer' = new \/ answer'.cut = FALSE
    BY <2>2, Moved
  <2>5. new.cut => phase = "closed" /\ slots[c] \in Serving
    BY <2>2, ApartStages DEF Fine
  <2>6. phase = "closed" => clock >= deadline \/ \A d \in Slots : slots[d].stage = "free"
    BY DEF Cuts
  <2>7. phase = "closed" => clock >= deadline
    BY <2>3, <2>6
  <2>8. ASSUME NEW d \in Slots, slots'[d].cut PROVE clock' >= deadline' /\ phase' = "closed"
    BY <2>3, <2>4, <2>5, <2>7, <2>8 DEF Cuts
  <2>9. answer'.cut => clock' >= deadline' /\ phase' = "closed"
    BY <2>3, <2>4, <2>5, <2>7
  <2> QED
    BY <2>3, <2>7, <2>8, <2>9 DEF Cuts
<1>4. CASE Process
  <2>1. slots' = slots /\ answer' = NotAsked /\ NotAsked.cut = FALSE
    BY <1>4, NotAskedShape DEF Process, Stop, Disconnect, Tick, Still
  <2>2. CASE Stop
    <3>1. phase = "up" /\ phase' = "draining"
      BY <2>2 DEF Stop
    <3> QED
      BY <2>1, <3>1 DEF Cuts
  <2>3. CASE Disconnect
    <3>1. phase = "draining" /\ phase' = "closed" /\ UNCHANGED <<clock, deadline>>
      BY <2>3 DEF Disconnect
    <3>2. clock >= deadline \/ \A d \in Slots : slots[d].stage = "free"
      BY <2>3 DEF Disconnect, Drained, Pending, Live
    <3> QED
      BY <2>1, <3>1, <3>2 DEF Cuts
  <2>4. CASE Tick
    <3>1. clock' = clock + 1 /\ UNCHANGED <<phase, deadline>>
      BY <2>4 DEF Tick
    <3> QED
      BY <1>2, <2>1, <3>1 DEF Cuts
  <2> QED
    BY <1>4, <2>2, <2>3, <2>4 DEF Process
<1> QED
  BY <1>1, <1>3, <1>4 DEF Steps

(* No request meets a closed connection before the whole shutdown timeout  *)
(* has passed since the signal, however many there are and whatever they   *)
(* do meanwhile (core/project.ts, stop).                                   *)
THEOREM DrainsFirst == AgentSpec => []NoEarlyCut
<1>1. AgentInit => Cuts
  BY NotAskedShape DEF AgentInit, Init, Cuts
<1>2. SlotsInv /\ Cuts /\ [AgentNext]_allVars => Cuts'
  <2>1. SlotsInv /\ Cuts /\ UNCHANGED allVars => Cuts'
    BY DEF Cuts, allVars, vars
  <2> QED
    BY <2>1, CutsInductive
<1>3. Cuts => NoEarlyCut
  BY DEF Cuts, NoEarlyCut
<1> QED
  BY <1>1, <1>2, <1>3, SlotsAlways, PTL DEF AgentSpec

(* Whatever the route, a row that stands changes only in a request that     *)
(* passed the permissions of its route when it came and in whose caller's   *)
(* scope the row is when the statement runs, whatever happened since it was *)
(* looked up; and a key is used once (routing/viewset.ts, service.ts).      *)
Unspent == \A p \in unused : rows[p] = None
LEMMA Writers ==
  ASSUME AgentNext, table' # table
  PROVE  \E c \in Slots : Create(c) \/ Update(c) \/ Destroy(c) \/ CallService(c)
  BY DEF AgentNext, Browse, Arrive, Post, Report, Process, Stop, Disconnect, Tick, Serve,
         Admit, Cut, List, GetObject, Judge, Prepare, Finish, table
LEMMA UnspentKept ==
  ASSUME SlotsInv, Unspent, [AgentNext]_allVars
  PROVE  Unspent'
<1>0. rows \in [Rows -> Users \cup {None}] /\ unused \subseteq Rows
  BY DEF SlotsInv, RequestsTyped
<1>1. CASE table' = table
  BY <1>1 DEF table, Unspent
<1>2. CASE table' # table
  <2>1. AgentNext
    BY <1>2 DEF table, allVars, vars
  <2>2. PICK c \in Slots : Create(c) \/ Update(c) \/ Destroy(c) \/ CallService(c)
    BY <1>2, <2>1, Writers
  <2>3. CASE Create(c)
    <3>1. PICK q \in unused : rows' = [rows EXCEPT ![q] = Relation(slots[c])] /\ unused' = unused \ {q}
      BY <1>2, <2>3 DEF Create
    <3> QED
      BY <1>0, <3>1 DEF Unspent
  <2>4. CASE Update(c) \/ Destroy(c) \/ CallService(c)
    <3>1. unused' = unused
      BY <2>4 DEF Update, Destroy, CallService
    <3>2. ASSUME NEW p \in Rows, rows'[p] # rows[p] PROVE rows[p] # None
      BY <1>0, <2>4, <3>2 DEF Update, Changes, Destroy, CallService, Writable, Scope
    <3> QED
      BY <1>0, <3>1, <3>2 DEF Unspent
  <2> QED
    BY <2>2, <2>3, <2>4
<1> QED
  BY <1>1, <1>2

LEMMA WriteStep ==
  ASSUME SlotsInv, Unspent, [AgentNext]_allVars, NEW p \in Rows, rows'[p] # rows[p]
  PROVE  IF rows[p] = None THEN p \in unused /\ p \notin unused'
         ELSE \E c \in Slots : Serves(c, p)
<1>0. slots \in [Slots -> Serving \cup Resting] /\ rows \in [Rows -> Users \cup {None}] /\ unused \subseteq Rows
  BY DEF SlotsInv, RequestsTyped
<1>1. AgentNext /\ rows' # rows
  BY DEF allVars, vars
<1>2. PICK c \in Slots : Create(c) \/ Update(c) \/ Destroy(c) \/ CallService(c)
  BY <1>1, Writers DEF table
<1>3. /\ slots[c].stage \in {"handling", "writing"}
      /\ slots[c] \in Serving /\ Good(slots[c], seen[c])
  BY <1>2, ServingStages DEF Create, Update, Destroy, CallService
<1>4. Asks(slots[c]) /\ Permitted(slots[c])
  BY <1>3, ApartStages DEF Good
<1>5. slots'[c] # slots[c]
  <2>1. PICK new : Move(c, new) /\ new.stage \in {"written", "returned", "answered"}
    <3>1. CASE Create(c) \/ Update(c)
      <4>1. PICK t : t = To(slots[c], "written")
        OBVIOUS
      <4>2. t \in Serving /\ t.stage = "written"
        BY <1>3, <4>1, ToShape
      <4>3. ASSUME NEW row, NEW made
            PROVE  /\ [t EXCEPT !.made = made].stage = "written"
                   /\ [t EXCEPT !.row = row, !.made = made].stage = "written"
        BY <4>2 DEF Serving
      <4>4. ASSUME Create(c)
            PROVE  \/ Move(c, Failed(slots[c], "unique"))
                   \/ \E q \in unused : Move(c, [t EXCEPT !.row = q, !.made = q])
        BY <4>1, <4>4 DEF Create
      <4>5. ASSUME Update(c)
            PROVE  \E made : Move(c, [t EXCEPT !.made = made])
        BY <4>1, <4>5 DEF Update
      <4>6. Failed(slots[c], "unique").stage \in {"returned", "answered"}
        BY <1>3, FailedShape
      <4> QED
        BY <3>1, <4>3, <4>4, <4>5, <4>6
    <3>2. CASE Destroy(c) \/ CallService(c)
      <4>1. ASSUME NEW made, NEW status \in Nat, NEW shows \in SUBSET Rows,
                   NEW new, new = [Answered(slots[c], status, shows) EXCEPT !.made = made]
            PROVE  new.stage \in {"returned", "answered"}
        <5>1. PICK a : a = Answered(slots[c], status, shows) /\ Answers(a, slots[c], shows)
          BY <1>3, AnsweredShape
        <5> QED
          BY <4>1, <5>1 DEF Answers, Silent
      <4>2. ASSUME NEW error
            PROVE  Failed(slots[c], error).stage \in {"returned", "answered"}
        BY <1>3, FailedShape
      <4>3. CASE Destroy(c)
        <5>1. PICK shows \in SUBSET Rows : shows = {}
          OBVIOUS
        <5>2. PICK made, new : /\ new = [Answered(slots[c], 204, shows) EXCEPT !.made = made]
                               /\ Move(c, new)
          BY <4>3, <5>1 DEF Destroy
        <5>3. new.stage \in {"returned", "answered"}
          BY <4>1, <5>2
        <5> QED
          BY <5>2, <5>3
      <4>4. CASE CallService(c)
        <5>1. slots[c].row \in Rows
          BY <1>3, <4>4 DEF CallService, Good
        <5>2. PICK shows \in SUBSET Rows : shows = {slots[c].row}
          BY <5>1
        <5>3. \/ Move(c, Failed(slots[c], "NotFound"))
              \/ Move(c, Failed(slots[c], "handler"))
              \/ \E made, new : /\ new = [Answered(slots[c], 200, shows) EXCEPT !.made = made]
                                /\ Move(c, new)
          BY <4>4, <5>2 DEF CallService
        <5>4. CASE Move(c, Failed(slots[c], "NotFound")) \/ Move(c, Failed(slots[c], "handler"))
          BY <4>2, <5>4
        <5>5. ASSUME NEW made, NEW new, Move(c, new),
                     new = [Answered(slots[c], 200, shows) EXCEPT !.made = made]
              PROVE  new.stage \in {"returned", "answered"}
          BY <4>1, <5>5
        <5> QED
          BY <5>3, <5>4, <5>5
      <4> QED
        BY <3>2, <4>3, <4>4
    <3> QED
      BY <1>2, <3>1, <3>2
  <2>2. slots'[c].stage \notin {"handling", "writing"}
    BY <1>0, <2>1, NotAskedShape DEF Move
  <2> QED
    BY <1>3, <2>2
<1>6. CASE Create(c)
  <2>1. PICK q \in unused : rows' = [rows EXCEPT ![q] = Relation(slots[c])] /\ unused' = unused \ {q}
    BY <1>1, <1>6 DEF Create, table
  <2>2. q = p
    BY <1>0, <2>1
  <2>3. rows[p] = None
    BY <2>2 DEF Unspent
  <2> QED
    BY <2>1, <2>2, <2>3
<1>7. CASE Update(c) \/ Destroy(c)
  <2>1. p \in Writable(slots[c].user)
    BY <1>0, <1>7 DEF Update, Changes, Destroy
  <2> QED
    BY <1>3, <1>4, <1>5, <2>1 DEF Writable, Scope, Serves
<1>8. CASE CallService(c)
  <2>1. rows[p] # None /\ p = slots[c].row /\ slots[c].action = "service"
    BY <1>0, <1>8 DEF CallService
  <2>2. slots[c].user \in Superusers
    <3>1. "isStaff" \in PermissionsFor("service")
      BY DEF PermissionsFor, ActionPermissions
    <3> QED
      BY <1>4, <2>1, <3>1 DEF Permitted, Passes
  <2> QED
    BY <1>3, <1>4, <1>5, <2>1, <2>2 DEF Scope, Serves
<1> QED
  BY <1>2, <1>6, <1>7, <1>8

THEOREM WritesInScope == AgentSpec => ScopeAtWrite
<1>1. AgentInit => Unspent
  BY RequestsConstants DEF AgentInit, Init, Unspent
<1>2. SlotsInv /\ Unspent /\ [AgentNext]_allVars => Unspent'
  BY UnspentKept
<1>3. SlotsInv /\ Unspent /\ [AgentNext]_allVars =>
        [\A p \in Rows : rows'[p] # rows[p] =>
           IF rows[p] = None THEN p \in unused /\ p \notin unused'
           ELSE \E c \in Slots : Serves(c, p)]_vars
  BY WriteStep
<1> QED
  BY <1>1, <1>2, <1>3, SlotsAlways, PTL DEF AgentSpec, ScopeAtWrite

(* What an answer shows is what the request has passed.                    *)
LEMMA AnswerStep ==
  ASSUME SlotsInv, [AgentNext]_allVars, NEW c \in Slots, Asks(slots[c]), ~Asks(slots'[c])
  PROVE  Sent(c).shows \subseteq seen[c] \cup {Sent(c).made}
<1>1. slots[c] \in Serving
  BY AsksIsServing DEF SlotsInv, RequestsTyped
<1>2. slots' # slots /\ AgentNext
  BY DEF allVars, vars
<1>3. Steps
  BY <1>2, NextSteps
<1>4. ~Process
  BY <1>2 DEF Process, Stop, Disconnect, Tick, Still
<1>5. PICK d \in Slots : Advance(d)
  BY <1>3, <1>4 DEF Steps
<1>6. PICK new : Move(d, new) /\ Fine(d, new)
  BY <1>5 DEF Advance
<1>7. /\ \A e \in Slots \ {d} : slots'[e] = slots[e]
      /\ slots'[d] \in Serving => slots'[d] = new
      /\ slots'[d] \notin Serving =>
           /\ new \in Silent /\ new \notin Serving
           /\ slots'[d].stage = "returned" => slots'[d] = new
           /\ slots'[d].stage # "returned" => answer' = new
  BY <1>6, Moved
<1>8. d = c
  BY <1>7
<1>9. slots'[c] \notin Serving
  BY ApartStages
<1>10. Sent(c) = new /\ new \notin Serving
  BY <1>7, <1>8, <1>9 DEF Sent
<1>11. new.shows \subseteq seen[c] \cup {new.made}
  BY <1>1, <1>6, <1>8, <1>10 DEF Fine
<1> QED
  BY <1>10, <1>11

(* No answer shows a row that was in the caller's scope at no moment since *)
(* the request arrived, save the one that the caller itself has just       *)
(* created or, through a service, changed (routing/viewset.ts).            *)
THEOREM AnswersStayInScope == AgentSpec => AnswersInScope
<1>1. SlotsInv /\ [AgentNext]_allVars =>
        [\A c \in Slots : Asks(slots[c]) /\ ~Asks(slots'[c]) =>
           Sent(c).shows \subseteq seen[c] \cup {Sent(c).made}]_vars
  BY AnswerStep
<1> QED
  BY <1>1, SlotsAlways, PTL DEF AgentSpec, AnswersInScope

-----------------------------------------------------------------------------
LEMMA KeysTyped == ASSUME NEW s \in Serving PROVE KeyOf(s) \in Keys
  BY DEF KeyOf, ScopeOf, Keys, Serving

LEMMA HitTyped ==
  ASSUME SlotsInv, Counters, NEW key \in Keys, Hit(key, clock)
  PROVE  Counters'
<1>1. clock \in Nat
  BY RequestsConstants DEF SlotsInv, RequestsTyped
<1>2. NoCounter \in [count: Nat, expiresAt: Nat]
  BY DEF NoCounter
<1>3. Swept(clock) \in [Keys -> [count: Nat, expiresAt: Nat]]
  BY <1>2 DEF Counters, Swept
<1>4. PICK old \in [count: Nat, expiresAt: Nat] : old = Swept(clock)[key]
  BY <1>3
<1>5. PICK new : new = Counted(old, clock)
  OBVIOUS
<1>6. new \in [count: Nat, expiresAt: Nat]
  BY <1>1, <1>4, <1>5, RequestsConstants DEF Counted
<1>7. counters' = [Swept(clock) EXCEPT ![key] = new]
  BY <1>4, <1>5 DEF Hit
<1>8. lastSweep' \in Int
  BY <1>1 DEF Hit, Counters
<1> QED
  BY <1>3, <1>6, <1>7, <1>8 DEF Counters

LEMMA CountersInductive ==
  ASSUME SlotsInv, Counters, AgentNext
  PROVE  Counters'
<1>1. CASE UNCHANGED limiter
  BY <1>1 DEF limiter, Counters
<1>2. CASE \E c \in Slots : Hit(KeyOf(slots[c]), clock) /\ slots[c].stage = "received"
  <2>1. PICK c \in Slots : Hit(KeyOf(slots[c]), clock) /\ slots[c].stage = "received"
    BY <1>2
  <2>2. slots[c] \in Serving
    BY <2>1, ServingStages
  <2>3. PICK key \in Keys : key = KeyOf(slots[c])
    BY <2>2, KeysTyped
  <2> QED
    BY <2>1, <2>3, HitTyped
<1>3. ASSUME NEW c \in Slots, Serve(c) PROVE UNCHANGED limiter \/ (Hit(KeyOf(slots[c]), clock) /\ slots[c].stage = "received")
  BY <1>3 DEF Serve, Admit, Cut, List, GetObject, Judge, Prepare, Create, Update, Destroy, Finish, CallService
<1>4. \/ UNCHANGED limiter
      \/ \E c \in Slots : Serve(c)
  BY DEF AgentNext, Browse, Process, Arrive, Post, Report, Stop, Disconnect, Tick
<1> QED
  BY <1>1, <1>2, <1>3, <1>4

LEMMA RecordTyped ==
  ASSUME Heard, NEW tool \in Actions \cup {None}, NEW outcome \in {"ok", "error", "refused"}, NEW status \in Nat,
         Record(tool, outcome, status)
  PROVE  audit' \in Seq(Entry)
<1>1. [tool |-> tool, outcome |-> outcome, status |-> status] \in Entry
  BY DEF Entry
<1> QED
  BY <1>1 DEF Record, Heard

LEMMA HeardInductive ==
  ASSUME SlotsInv, Heard, AgentNext
  PROVE  Heard'
<1>1. policy' = policy
  BY DEF AgentNext, Post, Report
<1>2. CASE audit' = audit
  BY <1>1, <1>2 DEF Heard
<1>3. CASE \E c \in Slots, m \in Calls : Post(c, m)
  <2>1. PICK c \in Slots, m \in Calls : Post(c, m)
    BY <1>3
  <2>2. PICK tool \in Actions : tool = m.request.action
    BY AgentsConstants DEF Requested, Shape
  <2>3. \/ audit' = audit
        \/ Record(tool, "refused", 0)
        \/ Record(tool, "error", 0)
    BY <2>1, <2>2 DEF Post
  <2>4. 0 \in Nat
    OBVIOUS
  <2> QED
    BY <1>1, <1>2, <2>3, <2>4, RecordTyped DEF Heard
<1>4. CASE \E c \in Slots : Report(c)
  <2>1. PICK c \in Slots : Report(c)
    BY <1>4
  <2>2. slots[c] \in Silent
    BY <2>1, NotAskedShape DEF Report, SlotsInv, RequestsTyped, Serving, Resting
  <2>3. PICK tool \in Actions \cup {None}, status \in Nat : tool = slots[c].action /\ status = slots[c].status
    BY <2>2 DEF Silent
  <2>4. PICK outcome \in {"ok", "error"} : outcome = Outcome(status)
    BY DEF Outcome
  <2>5. Record(tool, outcome, status)
    BY <2>1, <2>3, <2>4 DEF Report
  <2> QED
    BY <1>1, <2>5, RecordTyped DEF Heard
<1> QED
  BY <1>2, <1>3, <1>4 DEF AgentNext

(* Type correctness of the server with its agents. *)
THEOREM TypeCorrect == AgentSpec => []AgentTypeOK
<1>1. AgentInit => Counters /\ Heard
  BY RequestsConstants DEF AgentInit, Init, Counters, Heard, NoCounter
<1>2. SlotsInv /\ Counters /\ Heard /\ [AgentNext]_allVars => (Counters /\ Heard)'
  <2>1. Counters /\ Heard /\ UNCHANGED allVars => (Counters /\ Heard)'
    BY DEF Counters, Heard, allVars, vars, agentVars
  <2> QED
    BY <2>1, CountersInductive, HeardInductive
<1>3. SlotsInv /\ Counters /\ Heard => AgentTypeOK
  <2>1. ASSUME SlotsInv, NEW c \in Slots PROVE slots[c].stage \in Stages
    BY <2>1, NotAskedShape DEF SlotsInv, RequestsTyped, Serving, Resting, Silent, Stages
  <2>2. ASSUME Heard, NEW i \in DOMAIN audit PROVE audit[i].outcome \in {"ok", "error", "refused"}
    <3>1. audit[i] \in Entry
      BY <2>2 DEF Heard
    <3> QED
      BY <3>1 DEF Entry
  <2> QED
    BY <2>1, <2>2 DEF SlotsInv, RequestsTyped, Counters, Heard, AgentTypeOK, TypeOK
<1> QED
  BY <1>1, <1>2, <1>3, SlotsAlways, PTL DEF AgentSpec

-----------------------------------------------------------------------------
(* The record of what agents changed.  A change is owed to the record from *)
(* the moment it is made until its call is reported; meanwhile its slot    *)
(* holds it.                                                               *)
Done(tool) == {e \in changed : e.tool = tool}
Owed(tool) == {c \in Slots : slots[c].agent /\ slots[c].action = tool /\ slots[c].made # None}
Tallied == IsFiniteSet(changed) /\ \A tool : Cardinality(Done(tool)) <= Cardinality(Told(tool)) + Cardinality(Owed(tool))
Exposed == \A c \in Slots : slots[c] \in Serving /\ slots[c].agent => Entitled(slots[c])
Justified == \A e \in changed :
  /\ e.tool \notin policy.deny /\ (policy.allow # None => e.tool \in policy.allow)
  /\ e.confirmed \/ e.tool \notin IF policy.confirm = None THEN {"destroy"} ELSE policy.confirm

(* One change at most, and then one more slot that owes it; one report at  *)
(* most, and then one slot less.                                           *)
LEMMA Tally ==
  ASSUME NEW D, NEW D1, NEW T, NEW T1, NEW M, NEW M1,
         IsFiniteSet(D), IsFiniteSet(T1), IsFiniteSet(M), IsFiniteSet(M1), T \subseteq T1,
         Cardinality(D) <= Cardinality(T) + Cardinality(M),
         \/ D1 = D /\ M \subseteq M1
         \/ \E e, d : D1 \subseteq D \cup {e} /\ d \notin M /\ M \cup {d} \subseteq M1
         \/ \E t, d : D1 = D /\ t \notin T /\ T \cup {t} \subseteq T1 /\ M \subseteq M1 \cup {d}
  PROVE  Cardinality(D1) <= Cardinality(T1) + Cardinality(M1)
<1>1. IsFiniteSet(T) /\ Cardinality(T) <= Cardinality(T1)
  BY FS_Subset
<1>2. /\ Cardinality(D) \in Nat /\ Cardinality(T) \in Nat /\ Cardinality(T1) \in Nat
      /\ Cardinality(M) \in Nat /\ Cardinality(M1) \in Nat
  BY <1>1, FS_CardinalityType
<1>3. CASE D1 = D /\ M \subseteq M1
  <2>1. Cardinality(M) <= Cardinality(M1)
    BY <1>3, FS_Subset
  <2> QED
    BY <1>1, <1>2, <1>3, <2>1
<1>4. CASE \E e, d : D1 \subseteq D \cup {e} /\ d \notin M /\ M \cup {d} \subseteq M1
  <2>1. PICK e, d : D1 \subseteq D \cup {e} /\ d \notin M /\ M \cup {d} \subseteq M1
    BY <1>4
  <2>2. IsFiniteSet(D \cup {e}) /\ (Cardinality(D \cup {e}) = Cardinality(D) \/ Cardinality(D \cup {e}) = Cardinality(D) + 1)
    BY FS_AddElement
  <2>3. Cardinality(D1) <= Cardinality(D \cup {e}) /\ Cardinality(D1) \in Nat
    BY <2>1, <2>2, FS_Subset, FS_CardinalityType
  <2>4. Cardinality(M \cup {d}) = Cardinality(M) + 1
    BY <2>1, FS_AddElement
  <2>5. Cardinality(M \cup {d}) <= Cardinality(M1)
    BY <2>1, FS_Subset
  <2> QED
    BY <1>1, <1>2, <2>2, <2>3, <2>4, <2>5
<1>5. CASE \E t, d : D1 = D /\ t \notin T /\ T \cup {t} \subseteq T1 /\ M \subseteq M1 \cup {d}
  <2>1. PICK t, d : D1 = D /\ t \notin T /\ T \cup {t} \subseteq T1 /\ M \subseteq M1 \cup {d}
    BY <1>5
  <2>2. Cardinality(T \cup {t}) = Cardinality(T) + 1
    BY <1>1, <2>1, FS_AddElement
  <2>3. Cardinality(T \cup {t}) <= Cardinality(T1)
    BY <2>1, FS_Subset
  <2>4. IsFiniteSet(M1 \cup {d}) /\ (Cardinality(M1 \cup {d}) = Cardinality(M1) \/ Cardinality(M1 \cup {d}) = Cardinality(M1) + 1)
    BY FS_AddElement
  <2>5. Cardinality(M) <= Cardinality(M1 \cup {d})
    BY <2>1, <2>4, FS_Subset
  <2> QED
    BY <1>2, <2>1, <2>2, <2>3, <2>4, <2>5
<1> QED
  BY <1>3, <1>4, <1>5

LEMMA ToldGrows ==
  ASSUME Heard, NEW tool, NEW other, NEW outcome, NEW status, Record(other, outcome, status)
  PROVE  /\ Told(tool) \subseteq Told(tool)'
         /\ tool = other /\ outcome # "refused" => Len(audit) + 1 \notin Told(tool) /\ Len(audit) + 1 \in Told(tool)'
<1>1. PICK e : e = [tool |-> other, outcome |-> outcome, status |-> status]
  OBVIOUS
<1>2. audit' = Append(audit, e) /\ e.tool = other /\ e.outcome = outcome
  BY <1>1 DEF Record
<1>3. audit \in Seq(Entry) /\ Len(audit) \in Nat /\ DOMAIN audit = 1..Len(audit)
  BY DEF Heard
<1>4. DOMAIN audit' = 1..(Len(audit) + 1)
  BY <1>2, <1>3
<1>5. \A i \in DOMAIN audit : i \in DOMAIN audit' /\ audit'[i] = audit[i]
  BY <1>2, <1>3, <1>4
<1>6. audit'[Len(audit) + 1] = e /\ Len(audit) + 1 \in DOMAIN audit' /\ Len(audit) + 1 \notin DOMAIN audit
  BY <1>2, <1>3, <1>4
<1> QED
  BY <1>2, <1>5, <1>6 DEF Told

LEMMA ToldFinite ==
  ASSUME audit \in Seq(Entry), NEW tool
  PROVE  IsFiniteSet(Told(tool))
<1>1. IsFiniteSet(1..Len(audit))
  BY FS_Interval
<1>2. Told(tool) \subseteq 1..Len(audit)
  BY DEF Told
<1> QED
  BY <1>1, <1>2, FS_Subset

LEMMA OwedFinite == \A tool : IsFiniteSet(Owed(tool))
<1> SUFFICES ASSUME NEW tool PROVE IsFiniteSet(Owed(tool))
  OBVIOUS
<1>1. IsFiniteSet(Slots) /\ Owed(tool) \subseteq Slots
  BY RequestsConstants DEF Owed
<1> QED
  BY <1>1, FS_Subset

(* What the history gains when the slot of d moves. *)
LEMMA Witnessed ==
  ASSUME SlotsInv, Witness, NEW d \in Slots, \A c \in Slots \ {d} : slots'[c] = slots[c]
  PROVE  \/ changed' = changed
         \/ /\ slots[d] \in Serving /\ slots[d].agent /\ slots[d].made = None /\ slots'[d].made # None
            /\ \E e : changed' = changed \cup {e} /\ e.tool = slots[d].action /\ e.confirmed = slots[d].confirmed
<1> DEFINE Making == {c \in Slots : Asks(slots[c]) /\ slots[c].agent /\ slots[c].made = None /\ slots'[c].made # None}
           Change(c) == [tool |-> slots[c].action, row |-> slots'[c].made, confirmed |-> slots[c].confirmed]
<1>1. changed' = changed \cup {Change(c) : c \in Making}
  BY DEF Witness
<1>2. Making \subseteq {d}
  OBVIOUS
<1>3. CASE Making = {}
  <2> HIDE DEF Making, Change
  <2> QED
    BY <1>1, <1>3
<1>4. CASE d \in Making
  <2>1. slots[d] \in Serving
    BY <1>4, AsksIsServing DEF SlotsInv, RequestsTyped
  <2>2. PICK e : e = Change(d)
    OBVIOUS
  <2>3. e.tool = slots[d].action /\ e.confirmed = slots[d].confirmed
    BY <2>2
  <2>4. {Change(c) : c \in Making} = {e}
    <3> HIDE DEF Change, Making
    <3> QED
      BY <1>2, <1>4, <2>2
  <2>5. changed' = changed \cup {e}
    BY <1>1, <2>4
  <2>6. slots[d].agent /\ slots[d].made = None /\ slots'[d].made # None
    BY <1>4
  <2> HIDE DEF Making, Change
  <2> QED
    BY <2>1, <2>3, <2>5, <2>6
<1> QED
  BY <1>2, <1>3, <1>4

LEMMA OwedMoves ==
  ASSUME SlotsInv, NEW d \in Slots, NEW new, Move(d, new), Fine(d, new), NEW tool
  PROVE  /\ slots[d] \in Serving =>
              /\ Owed(tool) \subseteq Owed(tool)'
              /\ slots[d].agent /\ slots[d].action = tool /\ slots[d].made = None /\ slots'[d].made # None =>
                   d \notin Owed(tool) /\ d \in Owed(tool)'
         /\ slots[d].stage = "free" => Owed(tool) \subseteq Owed(tool)'
         /\ Owed(tool) \subseteq Owed(tool)' \cup {d}
<1>1. /\ \A c \in Slots \ {d} : slots'[c] = slots[c]
      /\ slots'[d] \in Serving => slots'[d] = new
      /\ slots'[d] \notin Serving =>
           /\ new \in Silent /\ new \notin Serving
           /\ slots'[d].stage = "returned" => slots'[d] = new
           /\ slots'[d].stage # "returned" => answer' = new
  BY Moved
<1>2. \A c \in Slots \ {d} : c \in Owed(tool) => c \in Owed(tool)'
  BY <1>1 DEF Owed
<1>3. ASSUME slots[d].stage = "free" PROVE d \notin Owed(tool)
  <2>1. slots[d] = NotAsked
    BY <1>3 DEF SlotsInv, RequestsTyped, Resting, Serving
  <2> QED
    BY <2>1, NotAskedShape DEF Owed
<1>4. ASSUME slots[d] \in Serving, slots[d].agent
      PROVE  /\ slots'[d] = new /\ new.agent /\ new.action = slots[d].action
             /\ slots[d].made # None => new.made # None
  <2>1. new.agent = slots[d].agent
    BY <1>4 DEF Fine, Kept
  <2>2. new.agent /\ new.action = slots[d].action /\ new.stage # "answered" /\ (slots[d].made # None => new.made # None)
    BY <1>4, <2>1 DEF Fine, Kept
  <2>3. slots'[d] = new
    BY <2>2 DEF Move, SlotsInv, RequestsTyped
  <2> QED
    BY <2>2, <2>3
<1>5. ASSUME slots[d] \in Serving PROVE d \in Owed(tool) => d \in Owed(tool)'
  BY <1>4, <1>5 DEF Owed
<1>6. ASSUME slots[d] \in Serving, slots[d].agent, slots[d].action = tool, slots[d].made = None, slots'[d].made # None
      PROVE  d \notin Owed(tool) /\ d \in Owed(tool)'
  BY <1>4, <1>6 DEF Owed
<1>7. Owed(tool) \subseteq Slots
  BY DEF Owed
<1> QED
  BY <1>2, <1>3, <1>5, <1>6, <1>7

AccountInv == Heard /\ Tallied /\ Exposed /\ Justified

LEMMA DoneFinite == ASSUME IsFiniteSet(changed), NEW tool PROVE IsFiniteSet(Done(tool))
  BY FS_Subset DEF Done

(* A stage of one request: the record is untouched. *)
LEMMA ServeTally ==
  ASSUME SlotsInv, AccountInv, Witness, NEW d \in Slots, NEW new, Move(d, new), Fine(d, new), slots[d] \in Serving,
         audit' = audit, policy' = policy
  PROVE  Tallied' /\ Justified'
<1>1. \A c \in Slots \ {d} : slots'[c] = slots[c]
  BY Moved
<1>2. \/ changed' = changed
      \/ /\ slots[d].agent /\ slots[d].made = None /\ slots'[d].made # None
         /\ \E e : changed' = changed \cup {e} /\ e.tool = slots[d].action /\ e.confirmed = slots[d].confirmed
  BY <1>1, Witnessed
<1>3. IsFiniteSet(changed')
  BY <1>2, FS_AddElement DEF AccountInv, Tallied
<1>4. ASSUME NEW tool PROVE Cardinality(Done(tool)') <= Cardinality(Told(tool)') + Cardinality(Owed(tool)')
  <2>1. Told(tool)' = Told(tool)
    BY DEF Told
  <2>2. IsFiniteSet(Done(tool)) /\ IsFiniteSet(Told(tool)') /\ IsFiniteSet(Owed(tool)) /\ IsFiniteSet(Owed(tool)')
    <3>1. IsFiniteSet(Owed(tool)')
      <4>1. IsFiniteSet(Slots) /\ Owed(tool)' \subseteq Slots
        BY RequestsConstants DEF Owed
      <4> QED
        BY <4>1, FS_Subset
    <3> QED
      BY <2>1, <3>1, DoneFinite, ToldFinite, OwedFinite DEF AccountInv, Heard, Tallied
  <2>3. /\ Owed(tool) \subseteq Owed(tool)'
        /\ slots[d].agent /\ slots[d].action = tool /\ slots[d].made = None /\ slots'[d].made # None =>
             d \notin Owed(tool) /\ d \in Owed(tool)'
    BY OwedMoves
  <2>4. Cardinality(Done(tool)) <= Cardinality(Told(tool)) + Cardinality(Owed(tool))
    BY DEF AccountInv, Tallied
  <2>5. \/ Done(tool)' = Done(tool) /\ Owed(tool) \subseteq Owed(tool)'
        \/ \E e, c : Done(tool)' \subseteq Done(tool) \cup {e} /\ c \notin Owed(tool) /\ Owed(tool) \cup {c} \subseteq Owed(tool)'
    <3>1. CASE changed' = changed
      BY <2>3, <3>1 DEF Done
    <3>2. ASSUME NEW e, changed' = changed \cup {e}, e.tool = slots[d].action, e.tool # tool PROVE Done(tool)' = Done(tool)
      BY <3>2 DEF Done
    <3>3. ASSUME NEW e, changed' = changed \cup {e} PROVE Done(tool)' \subseteq Done(tool) \cup {e}
      BY <3>3 DEF Done
    <3> QED
      BY <1>2, <2>3, <3>1, <3>2, <3>3
  <2>6. PICK D, D1, T, T1, M, M1 : /\ D = Done(tool) /\ D1 = Done(tool)' /\ T = Told(tool) /\ T1 = Told(tool)'
                                   /\ M = Owed(tool) /\ M1 = Owed(tool)'
    OBVIOUS
  <2>7. Cardinality(D1) <= Cardinality(T1) + Cardinality(M1)
    <3>1. IsFiniteSet(D) /\ IsFiniteSet(T1) /\ IsFiniteSet(M) /\ IsFiniteSet(M1) /\ T \subseteq T1
      BY <2>1, <2>2, <2>6
    <3>2. Cardinality(D) <= Cardinality(T) + Cardinality(M)
      BY <2>4, <2>6
    <3>3. \/ D1 = D /\ M \subseteq M1
          \/ \E e, c : D1 \subseteq D \cup {e} /\ c \notin M /\ M \cup {c} \subseteq M1
      BY <2>5, <2>6
    <3> QED
      BY <3>1, <3>2, <3>3, Tally
  <2> QED
    BY <2>6, <2>7
<1>5. Justified'
  <2>1. slots[d].agent => Entitled(slots[d])
    BY DEF AccountInv, Exposed
  <2>2. ASSUME NEW e, e.tool = slots[d].action, e.confirmed = slots[d].confirmed, slots[d].agent
        PROVE  /\ e.tool \notin policy.deny /\ (policy.allow # None => e.tool \in policy.allow)
               /\ e.confirmed \/ e.tool \notin IF policy.confirm = None THEN {"destroy"} ELSE policy.confirm
    BY <2>1, <2>2 DEF Entitled
  <2>3. CASE changed' = changed
    BY <2>3 DEF AccountInv, Justified
  <2>4. ASSUME NEW e, changed' = changed \cup {e}, e.tool = slots[d].action, e.confirmed = slots[d].confirmed, slots[d].agent
        PROVE  Justified'
    BY <2>2, <2>4 DEF AccountInv, Justified
  <2> QED
    BY <1>2, <2>3, <2>4
<1> QED
  BY <1>3, <1>4, <1>5 DEF Tallied

(* Anything else: nothing changes, and at most one call is reported. *)
LEMMA OtherTally ==
  ASSUME SlotsInv, AccountInv, changed' = changed, policy' = policy, audit' \in Seq(Entry),
         \A tool : \/ Told(tool) \subseteq Told(tool)' /\ Owed(tool) \subseteq Owed(tool)'
                   \/ \E t, c : t \notin Told(tool) /\ Told(tool) \cup {t} \subseteq Told(tool)' /\ Owed(tool) \subseteq Owed(tool)' \cup {c}
  PROVE  Tallied' /\ Justified'
<1>1. ASSUME NEW tool PROVE Cardinality(Done(tool)') <= Cardinality(Told(tool)') + Cardinality(Owed(tool)')
  <2>1. IsFiniteSet(Told(tool)')
    <3>1. IsFiniteSet(1..Len(audit'))
      BY FS_Interval
    <3>2. Told(tool)' \subseteq 1..Len(audit')
      BY DEF Told
    <3> QED
      BY <3>1, <3>2, FS_Subset
  <2>2. IsFiniteSet(Owed(tool)')
    <3>1. IsFiniteSet(Slots) /\ Owed(tool)' \subseteq Slots
      BY RequestsConstants DEF Owed
    <3> QED
      BY <3>1, FS_Subset
  <2>3. PICK D, T, T1, M, M1 : /\ D = Done(tool) /\ D = Done(tool)' /\ T = Told(tool) /\ T1 = Told(tool)'
                               /\ M = Owed(tool) /\ M1 = Owed(tool)'
    BY DEF Done
  <2>4. IsFiniteSet(D) /\ IsFiniteSet(T1) /\ IsFiniteSet(M) /\ IsFiniteSet(M1)
    BY <2>1, <2>2, <2>3, DoneFinite, OwedFinite DEF AccountInv, Tallied
  <2>5. Cardinality(D) <= Cardinality(T) + Cardinality(M)
    BY <2>3 DEF AccountInv, Tallied
  <2>6. /\ T \subseteq T1
        /\ \/ M \subseteq M1
           \/ \E t, c : t \notin T /\ T \cup {t} \subseteq T1 /\ M \subseteq M1 \cup {c}
    BY <2>3
  <2>7. Cardinality(D) <= Cardinality(T1) + Cardinality(M1)
    BY <2>4, <2>5, <2>6, Tally
  <2> QED
    BY <2>3, <2>7
<1> QED
  BY <1>1 DEF AccountInv, Tallied, Justified

LEMMA ExposedKept ==
  ASSUME SlotsInv, Exposed, NEW d \in Slots, NEW new, Move(d, new), Fine(d, new), policy' = policy
  PROVE  Exposed'
<1>1. /\ \A c \in Slots \ {d} : slots'[c] = slots[c]
      /\ slots'[d] \in Serving => slots'[d] = new
  BY Moved
<1>2. ASSUME new \in Serving, new.agent PROVE Entitled(new)
  <2>1. CASE slots[d] \in Serving
    <3>1. slots[d].agent /\ new.action = slots[d].action /\ new.confirmed = slots[d].confirmed
      BY <1>2, <2>1 DEF Fine, Kept
    <3>2. Entitled(slots[d])
      BY <2>1, <3>1 DEF Exposed
    <3> QED
      BY <3>1, <3>2 DEF Entitled
  <2>2. CASE slots[d] \notin Serving
    BY <1>2, <2>2 DEF Fine, Kept
  <2> QED
    BY <2>1, <2>2
<1>3. ASSUME NEW c \in Slots, slots'[c] \in Serving, slots'[c].agent PROVE Entitled(slots'[c])
  <2>1. PICK s : s = slots'[c]
    OBVIOUS
  <2>2. Entitled(s)
    BY <1>1, <1>2, <1>3, <2>1 DEF Exposed
  <2> QED
    BY <2>1, <2>2
<1> QED
  BY <1>3 DEF Exposed, Entitled

LEMMA NothingMade ==
  ASSUME SlotsInv, Witness, \A c \in Slots : slots'[c] = slots[c] \/ slots[c] \notin Serving
  PROVE  changed' = changed
<1> DEFINE Making == {c \in Slots : Asks(slots[c]) /\ slots[c].agent /\ slots[c].made = None /\ slots'[c].made # None}
<1>1. Making = {}
  BY AsksIsServing DEF SlotsInv, RequestsTyped
<1>2. changed' = changed \cup {[tool |-> slots[c].action, row |-> slots'[c].made, confirmed |-> slots[c].confirmed] : c \in Making}
  BY DEF Witness
<1> HIDE DEF Making
<1> QED
  BY <1>1, <1>2

LEMMA AccountInductive ==
  ASSUME SlotsInv, AccountInv, AgentNext
  PROVE  AccountInv'
<1>1. Heard' /\ Witness
  BY HeardInductive DEF AccountInv, AgentNext
<1>2. policy' = policy /\ audit' \in Seq(Entry)
  BY <1>1 DEF Heard, AgentNext, Post, Report
<1>3. CASE \E c \in Slots : Serve(c) /\ audit' = audit
  <2>1. PICK d \in Slots : Serve(d) /\ audit' = audit
    BY <1>3
  <2>2. slots[d] \in Serving /\ Advance(d)
    BY <2>1, ServeStep
  <2>3. PICK new : Move(d, new) /\ Fine(d, new)
    BY <2>2 DEF Advance
  <2>4. Tallied' /\ Justified'
    BY <1>1, <1>2, <2>1, <2>2, <2>3, ServeTally
  <2>5. Exposed'
    BY <1>2, <2>3, ExposedKept DEF AccountInv
  <2> QED
    BY <1>1, <2>4, <2>5 DEF AccountInv
<1>4. CASE Process /\ audit' = audit
  <2>1. slots' = slots
    BY <1>4 DEF Process, Stop, Disconnect, Tick, Still
  <2>2. changed' = changed
    BY <1>1, <2>1, NothingMade
  <2>3. \A tool : Told(tool) \subseteq Told(tool)' /\ Owed(tool) \subseteq Owed(tool)'
    BY <1>4, <2>1 DEF Told, Owed
  <2>4. Tallied' /\ Justified'
    BY <1>2, <2>2, <2>3, OtherTally
  <2>5. Exposed'
    BY <1>2, <2>1 DEF AccountInv, Exposed, Entitled
  <2> QED
    BY <1>1, <2>4, <2>5 DEF AccountInv
<1>5. ASSUME NEW d \in Slots, Advance(d), slots[d] \notin Serving,
             \A tool : \/ Told(tool) \subseteq Told(tool)' /\ slots[d].stage = "free"
                       \/ Told(tool) \subseteq Told(tool)' /\ d \notin Owed(tool)
                       \/ \E t : t \notin Told(tool) /\ Told(tool) \cup {t} \subseteq Told(tool)'
      PROVE  AccountInv'
  <2>1. PICK new : Move(d, new) /\ Fine(d, new)
    BY <1>5 DEF Advance
  <2>2. \A c \in Slots \ {d} : slots'[c] = slots[c]
    BY <2>1, Moved
  <2>3. changed' = changed
    BY <1>1, <1>5, <2>2, NothingMade
  <2>4. ASSUME NEW tool
        PROVE  /\ slots[d].stage = "free" => Owed(tool) \subseteq Owed(tool)'
               /\ Owed(tool) \subseteq Owed(tool)' \cup {d}
    BY <2>1, OwedMoves
  <2>5. \A tool : \/ Told(tool) \subseteq Told(tool)' /\ Owed(tool) \subseteq Owed(tool)'
                  \/ \E t, c : t \notin Told(tool) /\ Told(tool) \cup {t} \subseteq Told(tool)' /\ Owed(tool) \subseteq Owed(tool)' \cup {c}
    <3> SUFFICES ASSUME NEW tool
                 PROVE  \/ Told(tool) \subseteq Told(tool)' /\ Owed(tool) \subseteq Owed(tool)'
                        \/ \E t, c : t \notin Told(tool) /\ Told(tool) \cup {t} \subseteq Told(tool)' /\ Owed(tool) \subseteq Owed(tool)' \cup {c}
      OBVIOUS
    <3>1. /\ slots[d].stage = "free" => Owed(tool) \subseteq Owed(tool)'
          /\ Owed(tool) \subseteq Owed(tool)' \cup {d}
      BY <2>4
    <3>2. \/ Told(tool) \subseteq Told(tool)' /\ slots[d].stage = "free"
          \/ Told(tool) \subseteq Told(tool)' /\ d \notin Owed(tool)
          \/ \E t : t \notin Told(tool) /\ Told(tool) \cup {t} \subseteq Told(tool)'
      BY <1>5
    <3> QED
      BY <3>1, <3>2
  <2>6. Tallied' /\ Justified'
    BY <1>2, <2>3, <2>5, OtherTally
  <2>7. Exposed'
    BY <1>2, <2>1, ExposedKept DEF AccountInv
  <2> QED
    BY <1>1, <2>6, <2>7 DEF AccountInv
<1>6. CASE (\E c \in Slots, r \in Asked : Arrive(c, r)) /\ audit' = audit
  <2>1. PICK c \in Slots, r \in Asked : Arrive(c, r)
    BY <1>6
  <2>2. slots[c] \notin Serving /\ Advance(c) /\ slots[c].stage = "free"
    BY <2>1, ArriveStep DEF Arrive, Free
  <2>3. \A tool : Told(tool) \subseteq Told(tool)'
    BY <1>6 DEF Told
  <2> QED
    BY <1>5, <2>2, <2>3
<1>7. CASE \E c \in Slots, m \in Calls : Post(c, m)
  <2>1. PICK c \in Slots, m \in Calls : Post(c, m)
    BY <1>7
  <2>2. slots[c] \notin Serving /\ Advance(c) /\ slots[c].stage = "free"
    BY <2>1, PostStep DEF Post, Free
  <2>3. \/ audit' = audit
        \/ Record(m.request.action, "refused", 0)
        \/ Record(m.request.action, "error", 0)
    BY <2>1 DEF Post
  <2>4. \A tool : Told(tool) \subseteq Told(tool)'
    <3>1. CASE audit' = audit
      BY <3>1 DEF Told
    <3>2. CASE audit' # audit
      BY <2>3, <3>2, ToldGrows DEF AccountInv
    <3> QED
      BY <3>1, <3>2
  <2> QED
    BY <1>5, <2>2, <2>4
<1>8. CASE \E c \in Slots : Report(c)
  <2>1. PICK c \in Slots : Report(c)
    BY <1>8
  <2>2. slots[c] \notin Serving /\ Advance(c)
    BY <2>1, ReportStep
  <2>3. PICK other, outcome, status : Record(other, outcome, status) /\ other = slots[c].action /\ outcome # "refused"
    BY <2>1 DEF Report, Outcome
  <2>4. ASSUME NEW tool, tool # slots[c].action PROVE Told(tool) \subseteq Told(tool)' /\ c \notin Owed(tool)
    BY <2>3, <2>4, ToldGrows DEF AccountInv, Owed
  <2>5. ASSUME NEW tool, tool = slots[c].action PROVE \E t : t \notin Told(tool) /\ Told(tool) \cup {t} \subseteq Told(tool)'
    BY <2>3, <2>5, ToldGrows DEF AccountInv
  <2>6. \A tool : \/ Told(tool) \subseteq Told(tool)' /\ c \notin Owed(tool)
                  \/ \E t : t \notin Told(tool) /\ Told(tool) \cup {t} \subseteq Told(tool)'
    BY <2>4, <2>5
  <2> QED
    BY <1>5, <2>2, <2>6
<1> QED
  BY <1>3, <1>4, <1>6, <1>7, <1>8 DEF AgentNext, Browse

(* Nothing ever changed through a tool that the policy withholds, nothing  *)
(* that must be confirmed changed without it, and the record has a call    *)
(* for each change once that call has ended, also when it ended in an      *)
(* error (mcp/policy.ts, mcp/audit.ts).                                    *)
THEOREM AgentsAnswerForChanges == AgentSpec => []AgentsAccountable
<1>1. AgentInit => AccountInv
  <2> SUFFICES ASSUME AgentInit PROVE AccountInv
    OBVIOUS
  <2>1. changed = {} /\ audit = <<>> /\ policy \in Policies /\ slots = [c \in Slots |-> NotAsked]
    BY DEF AgentInit, Init
  <2>2. Heard /\ Justified
    BY <2>1 DEF Heard, Justified
  <2>3. Exposed
    BY <2>1, NotAskedShape, ApartStages DEF Exposed
  <2>4. ASSUME NEW tool PROVE Cardinality(Done(tool)) <= Cardinality(Told(tool)) + Cardinality(Owed(tool))
    <3>1. Done(tool) = {} /\ Told(tool) = {} /\ Owed(tool) = {}
      BY <2>1, NotAskedShape DEF Done, Told, Owed
    <3> QED
      BY <3>1, FS_EmptySet
  <2>5. Tallied
    BY <2>1, <2>4, FS_EmptySet DEF Tallied
  <2> QED
    BY <2>2, <2>3, <2>5 DEF AccountInv
<1>2. SlotsInv /\ AccountInv /\ [AgentNext]_allVars => AccountInv'
  <2>1. AccountInv /\ UNCHANGED allVars => AccountInv'
    BY DEF AccountInv, Heard, Tallied, Exposed, Justified, Entitled, Done, Told, Owed, allVars, vars, agentVars
  <2> QED
    BY <2>1, AccountInductive
<1>3. AccountInv => AgentsAccountable
  <2> SUFFICES ASSUME AccountInv, NEW tool \in Actions
               PROVE  /\ \A e \in Done(tool) : /\ tool \notin policy.deny /\ (policy.allow # None => tool \in policy.allow)
                                               /\ e.confirmed \/ tool \notin IF policy.confirm = None THEN {"destroy"} ELSE policy.confirm
                      /\ Cardinality(Done(tool)) <= Cardinality(Told(tool)) + Cardinality(InFlight(tool))
    BY DEF AgentsAccountable, Done
  <2>1. \A e \in Done(tool) : /\ tool \notin policy.deny /\ (policy.allow # None => tool \in policy.allow)
                              /\ e.confirmed \/ tool \notin IF policy.confirm = None THEN {"destroy"} ELSE policy.confirm
    BY DEF AccountInv, Justified, Done
  <2>2. IsFiniteSet(InFlight(tool))
    <3>1. IsFiniteSet(Slots) /\ InFlight(tool) \subseteq Slots
      BY RequestsConstants DEF InFlight
    <3> QED
      BY <3>1, FS_Subset
  <2>3. Cardinality(Owed(tool)) <= Cardinality(InFlight(tool)) /\ Cardinality(Owed(tool)) \in Nat /\ Cardinality(InFlight(tool)) \in Nat
    <3>1. Owed(tool) \subseteq InFlight(tool)
      BY DEF Owed, InFlight
    <3> QED
      BY <2>2, <3>1, OwedFinite, FS_Subset, FS_CardinalityType
  <2>4. Cardinality(Done(tool)) <= Cardinality(Told(tool)) + Cardinality(Owed(tool))
    BY DEF AccountInv, Tallied
  <2>5. Cardinality(Done(tool)) \in Nat /\ Cardinality(Told(tool)) \in Nat
    BY DoneFinite, ToldFinite, FS_CardinalityType DEF AccountInv, Tallied, Heard
  <2> QED
    BY <2>1, <2>3, <2>4, <2>5
<1> QED
  BY <1>1, <1>2, <1>3, SlotsAlways, PTL DEF AgentSpec

-----------------------------------------------------------------------------
(* The rate limiter of src/src/http/throttle.ts: however its windows fall,   *)
(* whenever its sweep forgets a counter, and for any number of callers, it   *)
(* lets no more than twice the limit through in the length of one window.    *)
Counter == [count: Nat, expiresAt: Nat]

\* `a` is when a key was let through, `L` its limit, `ctr` its counter, `now` the clock.
Ordered(a, now) == /\ a \in Seq(Nat)
                   /\ \A i, j \in 1..Len(a) : i <= j => a[i] <= a[j] /\ a[j] <= now
Spread(a, L) == \A i \in 1..Len(a) : i + 2 * L <= Len(a) => a[i] + Window <= a[i + 2 * L]
Older(a, n, x) == \A j \in 1..Len(a) : j <= n => a[j] + Window <= x

\* Of those let through, how many the counter has counted, and when its window began.
Held(ctr, L) == IF ctr.count <= L THEN ctr.count ELSE L
Began(ctr) == ctr.expiresAt - Window
Running(a, L, ctr, now) ==
  /\ 0 <= Began(ctr) /\ Began(ctr) <= now
  /\ \A j \in 1..Len(a) : j <= Len(a) - Held(ctr, L) => a[j] <= Began(ctr)
  /\ Older(a, Len(a) - Held(ctr, L) - L, Began(ctr))
Limited(a, L, ctr, now) ==
  /\ Ordered(a, now) /\ Spread(a, L)
  /\ \/ ctr = NoCounter /\ Older(a, Len(a) - L, now)
     \/ ctr # NoCounter /\ Running(a, L, ctr, now)

LEMMA WindowPositive == Window \in Nat /\ Window > 0
  BY RequestsConstants

LEMMA HeldType == ASSUME NEW ctr \in Counter, NEW L \in Nat PROVE Held(ctr, L) \in 0..L /\ Held(ctr, L) <= ctr.count
  BY DEF Counter, Held

(* Time passes. *)
LEMMA LimitedLater ==
  ASSUME NEW a, NEW L \in Nat, NEW ctr \in Counter, NEW now \in Nat, NEW later \in Nat, now <= later, Limited(a, L, ctr, now)
  PROVE  Limited(a, L, ctr, later)
<1>1. a \in Seq(Nat) /\ Len(a) \in Nat /\ \A i \in 1..Len(a) : a[i] \in Nat
  BY DEF Limited, Ordered
<1>2. Ordered(a, later)
  BY <1>1 DEF Limited, Ordered
<1>3. CASE ctr = NoCounter /\ Older(a, Len(a) - L, now)
  BY <1>1, <1>2, <1>3, WindowPositive DEF Limited, Older
<1>4. CASE ctr # NoCounter /\ Running(a, L, ctr, now)
  BY <1>1, <1>2, <1>4, WindowPositive DEF Limited, Running, Began, Counter
<1> QED
  BY <1>3, <1>4 DEF Limited

(* The sweep forgets a counter whose window is over. *)
LEMMA LimitedSwept ==
  ASSUME NEW a, NEW L \in Nat, NEW ctr \in Counter, NEW now \in Nat, Limited(a, L, ctr, now), Expired(ctr, now)
  PROVE  Limited(a, L, NoCounter, now)
<1>1. a \in Seq(Nat) /\ Len(a) \in Nat /\ \A i \in 1..Len(a) : a[i] \in Nat
  BY DEF Limited, Ordered
<1>2. CASE ctr # NoCounter /\ Running(a, L, ctr, now)
  <2>1. Held(ctr, L) \in 0..L
    BY HeldType
  <2>2. ctr.expiresAt \in Nat /\ ctr.expiresAt <= now
    BY DEF Expired, Counter
  <2>3. \A j \in 1..Len(a) : j <= Len(a) - L => a[j] <= ctr.expiresAt - Window
    BY <1>1, <1>2, <2>1 DEF Running, Began
  <2>4. Older(a, Len(a) - L, now)
    BY <1>1, <2>2, <2>3, WindowPositive DEF Older
  <2> QED
    BY <2>4 DEF Limited
<1> QED
  BY <1>2 DEF Limited

LEMMA Appended ==
  ASSUME NEW a \in Seq(Nat), NEW now \in Nat
  PROVE  /\ Append(a, now) \in Seq(Nat) /\ Len(Append(a, now)) = Len(a) + 1 /\ Len(a) \in Nat
         /\ \A i \in 1..Len(a) : Append(a, now)[i] = a[i] /\ a[i] \in Nat
         /\ Append(a, now)[Len(a) + 1] = now
  OBVIOUS

LEMMA OlderAppended ==
  ASSUME NEW a \in Seq(Nat), NEW now \in Nat, NEW n \in Int, NEW x, n <= Len(a), Older(a, n, x)
  PROVE  Older(Append(a, now), n, x)
<1>1. PICK b : b = Append(a, now)
  OBVIOUS
<1>2. Len(b) = Len(a) + 1 /\ Len(a) \in Nat /\ \A i \in 1..Len(a) : b[i] = a[i]
  BY <1>1, Appended
<1>3. ASSUME NEW j \in 1..Len(b), j <= n PROVE b[j] + Window <= x
  <2>1. j \in 1..Len(a)
    BY <1>2, <1>3
  <2> QED
    BY <1>2, <1>3, <2>1 DEF Older
<1> QED
  BY <1>1, <1>3 DEF Older

(* One more is let through: `n` is how many are at least a window old. *)
LEMMA AppendOrdered ==
  ASSUME NEW a, NEW L \in Nat \ {0}, NEW now \in Nat, NEW n \in Int, Ordered(a, now), Spread(a, L),
         Older(a, n, now), n >= Len(a) + 1 - 2 * L
  PROVE  Ordered(Append(a, now), now) /\ Spread(Append(a, now), L)
<1> DEFINE b == Append(a, now)
<1>1. /\ a \in Seq(Nat) /\ b \in Seq(Nat) /\ Len(b) = Len(a) + 1 /\ Len(a) \in Nat
      /\ \A i \in 1..Len(a) : b[i] = a[i] /\ a[i] \in Nat
      /\ b[Len(a) + 1] = now
  BY Appended DEF Ordered
<1> HIDE DEF b
<1>2. ASSUME NEW i \in 1..Len(b), NEW j \in 1..Len(b), i <= j PROVE b[i] <= b[j] /\ b[j] <= now
  <2>1. CASE j = Len(a) + 1
    <3>1. CASE i = j
      BY <1>1, <2>1, <3>1
    <3>2. CASE i # j
      <4>1. i \in 1..Len(a)
        BY <1>1, <1>2, <2>1, <3>2
      <4>2. a[i] <= now
        BY <4>1 DEF Ordered
      <4> QED
        BY <1>1, <2>1, <4>1, <4>2
    <3> QED
      BY <3>1, <3>2
  <2>2. CASE j # Len(a) + 1
    <3>1. i \in 1..Len(a) /\ j \in 1..Len(a)
      BY <1>1, <1>2, <2>2
    <3> QED
      BY <1>1, <1>2, <3>1 DEF Ordered
  <2> QED
    BY <2>1, <2>2
<1>3. ASSUME NEW i \in 1..Len(b), i + 2 * L <= Len(b) PROVE b[i] + Window <= b[i + 2 * L]
  <2>0. 2 * L \in Nat /\ 2 * L > 0
    OBVIOUS
  <2>1. i \in 1..Len(a)
    BY <1>1, <1>3, <2>0
  <2>2. CASE i + 2 * L = Len(a) + 1
    <3>1. i <= n
      BY <1>1, <2>0, <2>2
    <3>2. a[i] + Window <= now
      BY <2>1, <3>1 DEF Older
    <3> QED
      BY <1>1, <2>1, <2>2, <3>2
  <2>3. CASE i + 2 * L # Len(a) + 1
    <3>1. i + 2 * L \in 1..Len(a) /\ i + 2 * L <= Len(a)
      <4>1. PICK k \in Nat : k = i + 2 * L
      BY <1>1, <2>0, <2>1
    <4>2. k <= Len(a) + 1 /\ k # Len(a) + 1 /\ k >= 1
      BY <1>1, <1>3, <2>0, <2>1, <2>3, <4>1
    <4>3. k \in 1..Len(a) /\ k <= Len(a)
      BY <1>1, <4>2
    <4> QED
      BY <4>1, <4>3
    <3>2. a[i] + Window <= a[i + 2 * L]
      BY <2>1, <3>1 DEF Spread
    <3> QED
      BY <1>1, <2>1, <3>1, <3>2
  <2> QED
    BY <2>2, <2>3
<1> QED
  BY <1>1, <1>2, <1>3 DEF Ordered, Spread, b

(* A request that finds no counter, or one whose window is over. *)
LEMMA LimitedRestart ==
  ASSUME NEW a, NEW L \in Nat \ {0}, NEW now \in Nat, Limited(a, L, NoCounter, now), NoCounter \in Counter,
         NEW new, new = [count |-> 1, expiresAt |-> now + Window]
  PROVE  new \in Counter /\ new # NoCounter /\ new.count <= L /\ Limited(Append(a, now), L, new, now)
<1> DEFINE b == Append(a, now)
<1>1. Ordered(a, now) /\ Spread(a, L) /\ Older(a, Len(a) - L, now)
  BY DEF Limited
<1>2. /\ a \in Seq(Nat) /\ b \in Seq(Nat) /\ Len(b) = Len(a) + 1 /\ Len(a) \in Nat
      /\ \A i \in 1..Len(a) : b[i] = a[i] /\ a[i] \in Nat
      /\ b[Len(a) + 1] = now
  BY <1>1, Appended DEF Ordered
<1>3. Ordered(b, now) /\ Spread(b, L)
  BY <1>1, <1>2, AppendOrdered
<1>4. new \in Counter /\ new # NoCounter /\ new.count = 1 /\ new.expiresAt = now + Window
  BY WindowPositive DEF Counter, NoCounter
<1>5. Held(new, L) = 1 /\ Began(new) = now
  BY <1>4, WindowPositive DEF Held, Began
<1> HIDE DEF b
<1>6. \A j \in 1..Len(b) : j <= Len(b) - 1 => b[j] <= now
  BY <1>3 DEF Ordered
<1>7. Older(b, Len(b) - 1 - L, now)
  <2>0. L \in Int /\ Len(a) \in Int
    BY <1>2
  <2>3. Len(a) - L \in Int
    BY <2>0
  <2>1. PICK n \in Int : n = Len(a) - L
    BY ONLY <2>3
  <2>2. n <= Len(a) /\ Len(b) - 1 - L = n
    BY <1>2, <2>1
  <2>4. Older(b, n, now)
    BY <1>1, <1>2, <2>1, <2>2, OlderAppended DEF b
  <2> QED
    BY <2>2, <2>4
<1>8. Running(b, L, new, now)
  BY <1>5, <1>6, <1>7 DEF Running
<1> QED
  BY <1>3, <1>4, <1>8 DEF Limited, b

(* A request in a window that runs. *)
LEMMA LimitedCounted ==
  ASSUME NEW a, NEW L \in Nat \ {0}, NEW now \in Nat, NEW ctr \in Counter, ctr # NoCounter, Limited(a, L, ctr, now),
         NEW new, new = [ctr EXCEPT !.count = ctr.count + 1]
  PROVE  /\ new \in Counter /\ new # NoCounter
         /\ new.count <= L => Limited(Append(a, now), L, new, now)
         /\ new.count > L => Limited(a, L, new, now)
<1> DEFINE b == Append(a, now)
<1>1. Ordered(a, now) /\ Spread(a, L) /\ Running(a, L, ctr, now)
  BY DEF Limited
<1>2. /\ a \in Seq(Nat) /\ b \in Seq(Nat) /\ Len(b) = Len(a) + 1 /\ Len(a) \in Nat
      /\ \A i \in 1..Len(a) : b[i] = a[i] /\ a[i] \in Nat
      /\ b[Len(a) + 1] = now
  BY <1>1, Appended DEF Ordered
<1>3. new \in Counter /\ new.count = ctr.count + 1 /\ new.expiresAt = ctr.expiresAt /\ new.count >= 1 /\ ctr.count \in Nat
  BY DEF Counter
<1>4. new # NoCounter /\ Began(new) = Began(ctr) /\ Began(ctr) \in Int /\ 0 <= Began(ctr) /\ Began(ctr) <= now
  BY <1>1, <1>3, WindowPositive DEF NoCounter, Began, Running, Counter
<1>5. CASE new.count <= L
  <2>1. Held(ctr, L) = ctr.count /\ Held(new, L) = ctr.count + 1
    BY <1>3, <1>5 DEF Held
  <2>2. PICK n \in Int : n = Len(a) - ctr.count - L
    BY <1>2, <1>3
  <2>3. n >= Len(a) + 1 - 2 * L /\ Older(a, n, Began(ctr))
    BY <1>1, <1>2, <1>3, <1>5, <2>1, <2>2 DEF Running
  <2>4. Older(a, n, now)
    BY <1>2, <1>4, <2>3, WindowPositive DEF Older
  <2>5. Ordered(b, now) /\ Spread(b, L)
    BY <1>1, <2>3, <2>4, AppendOrdered
  <2>6. \A j \in 1..Len(b) : j <= Len(b) - Held(new, L) => b[j] <= Began(new)
    BY <1>1, <1>2, <1>3, <1>4, <2>1 DEF Running
  <2>7. Older(b, Len(b) - Held(new, L) - L, Began(new))
    <3>1. n <= Len(a) /\ Len(b) - Held(new, L) - L = n
      BY <1>2, <1>3, <2>1, <2>2
    <3>2. Older(b, n, Began(ctr))
      BY <1>2, <2>3, <3>1, OlderAppended
    <3> QED
      BY <1>4, <3>1, <3>2
  <2> HIDE DEF b
  <2>8. Running(b, L, new, now)
    BY <1>4, <2>6, <2>7 DEF Running
  <2>9. Limited(b, L, new, now)
    BY <1>4, <2>5, <2>8 DEF Limited
  <2> QED
    BY <1>3, <1>4, <1>5, <2>9 DEF b
<1>6. CASE new.count > L
  <2>1. Held(ctr, L) = L /\ Held(new, L) = L
    BY <1>3, <1>6 DEF Held
  <2>2. Running(a, L, new, now)
    BY <1>1, <1>4, <2>1 DEF Running
  <2> QED
    BY <1>1, <1>3, <1>4, <1>6, <2>2 DEF Limited
<1> QED
  BY <1>3, <1>5, <1>6

-----------------------------------------------------------------------------
(* What the limiter keeps, key by key. *)
LimiterInv ==
  /\ counters \in [Keys -> Counter] /\ admitted \in [Keys -> Seq(Nat)]
  /\ \A key \in Keys : Limited(admitted[key], LimitOf(key), counters[key], clock)

LEMMA LimitType == \A key \in Keys : LimitOf(key) \in Nat \ {0}
  BY RequestsConstants DEF LimitOf

LEMMA NoCounterType == NoCounter \in Counter
  BY DEF NoCounter, Counter

LEMMA SweptKeeps ==
  ASSUME LimiterInv, clock \in Nat
  PROVE  /\ Swept(clock) \in [Keys -> Counter]
         /\ \A key \in Keys : Limited(admitted[key], LimitOf(key), Swept(clock)[key], clock)
<1>1. CASE ~Sweeps(clock)
  BY <1>1 DEF LimiterInv, Swept
<1>2. CASE Sweeps(clock)
  <2>1. Swept(clock) = [k \in Keys |-> IF Expired(counters[k], clock) THEN NoCounter ELSE counters[k]]
    BY <1>2 DEF Swept
  <2>2. Swept(clock) \in [Keys -> Counter]
    BY <2>1, NoCounterType DEF LimiterInv
  <2>3. ASSUME NEW key \in Keys PROVE Limited(admitted[key], LimitOf(key), Swept(clock)[key], clock)
    <3>1. PICK ctr \in Counter : ctr = counters[key]
      BY DEF LimiterInv
    <3>6. PICK a : a = admitted[key]
      OBVIOUS
    <3>7. PICK L \in Nat : L = LimitOf(key)
      BY LimitType
    <3>8. PICK now \in Nat : now = clock
      OBVIOUS
    <3>2. a = admitted[key] /\ L = LimitOf(key) /\ now = clock
      BY <3>6, <3>7, <3>8
    <3>3. Limited(a, L, ctr, now)
      BY <3>1, <3>2 DEF LimiterInv
    <3>4. Expired(ctr, now) => Limited(a, L, NoCounter, now)
      BY <3>3, LimitedSwept
    <3>5. Swept(clock)[key] = IF Expired(ctr, now) THEN NoCounter ELSE ctr
      BY <2>1, <3>1, <3>2
    <3> QED
      BY <3>2, <3>3, <3>4, <3>5
  <2> QED
    BY <2>2, <2>3
<1> QED
  BY <1>1, <1>2

(* One request of one key is counted, and let through or not. *)
LEMMA CountedKeeps ==
  ASSUME NEW a, NEW L \in Nat \ {0}, NEW now \in Nat, NEW ctr \in Counter, Limited(a, L, ctr, now),
         NEW new, new = Counted(ctr, now)
  PROVE  /\ new \in Counter
         /\ new.count <= L => Limited(Append(a, now), L, new, now)
         /\ ~(new.count <= L) => Limited(a, L, new, now)
<1>1. CASE ctr = NoCounter \/ Expired(ctr, now)
  <2>1. Limited(a, L, NoCounter, now)
    BY <1>1, LimitedSwept
  <2>2. new = [count |-> 1, expiresAt |-> now + Window]
    BY <1>1 DEF Counted
  <2> QED
    BY <2>1, <2>2, NoCounterType, LimitedRestart
<1>2. CASE ctr # NoCounter /\ ~Expired(ctr, now)
  <2>1. new = [ctr EXCEPT !.count = ctr.count + 1]
    BY <1>2 DEF Counted
  <2>2. /\ new \in Counter /\ new # NoCounter
        /\ new.count <= L => Limited(Append(a, now), L, new, now)
        /\ new.count > L => Limited(a, L, new, now)
    BY <1>2, <2>1, LimitedCounted
  <2>3. new.count \in Nat /\ L \in Nat
    BY <2>2 DEF Counter
  <2> QED
    BY <2>2, <2>3
<1> QED
  BY <1>1, <1>2

LEMMA HitKeeps ==
  ASSUME LimiterInv, clock \in Nat, clock' = clock, NEW key \in Keys, Hit(key, clock)
  PROVE  LimiterInv'
<1>1. PICK swept : swept = Swept(clock)
  OBVIOUS
<1>2. /\ swept \in [Keys -> Counter]
      /\ \A k \in Keys : Limited(admitted[k], LimitOf(k), swept[k], clock)
  BY <1>1, SweptKeeps
<1>3. PICK ctr \in Counter : ctr = swept[key]
  BY <1>2
<1>4. PICK new : new = Counted(ctr, clock)
  OBVIOUS
<1>5. PICK a \in Seq(Nat), L \in Nat \ {0}, now \in Nat : a = admitted[key] /\ L = LimitOf(key) /\ now = clock
  BY LimitType DEF LimiterInv
<1>6. Limited(a, L, ctr, now)
  BY <1>2, <1>3, <1>5
<1>7. /\ new \in Counter
      /\ new.count <= L => Limited(Append(a, now), L, new, now)
      /\ ~(new.count <= L) => Limited(a, L, new, now)
  BY <1>4, <1>5, <1>6, CountedKeeps
<1>8. /\ counters' = [swept EXCEPT ![key] = new]
      /\ admitted' = IF new.count <= L THEN [admitted EXCEPT ![key] = Append(a, now)] ELSE admitted
  BY <1>1, <1>3, <1>4, <1>5 DEF Hit, Allowed
<1>9. admitted \in [Keys -> Seq(Nat)]
  BY DEF LimiterInv
<1>14. Append(a, now) \in Seq(Nat)
  BY Appended
<1>10. counters' \in [Keys -> Counter] /\ admitted' \in [Keys -> Seq(Nat)]
  <2>1. counters' \in [Keys -> Counter]
    BY <1>2, <1>7, <1>8
  <2>2. admitted' \in [Keys -> Seq(Nat)]
    BY <1>8, <1>9, <1>14
  <2> QED
    BY <2>1, <2>2
<1>11. \A k \in Keys \ {key} : counters'[k] = swept[k] /\ admitted'[k] = admitted[k]
  BY <1>2, <1>8, <1>9
<1>12. /\ counters'[key] = new
       /\ admitted'[key] = IF new.count <= L THEN Append(a, now) ELSE a
  BY <1>2, <1>5, <1>8, <1>9
<1>13. ASSUME NEW k \in Keys PROVE Limited(admitted'[k], LimitOf(k), counters'[k], clock')
  <2>1. CASE k = key
    BY <1>5, <1>7, <1>12, <2>1
  <2>2. CASE k # key
    BY <1>2, <1>11, <2>2
  <2> QED
    BY <2>1, <2>2
<1> QED
  BY <1>10, <1>13 DEF LimiterInv

LEMMA LaterKeeps ==
  ASSUME LimiterInv, clock \in Nat, clock' \in Nat, clock <= clock', UNCHANGED limiter
  PROVE  LimiterInv'
<1>1. UNCHANGED <<counters, admitted>>
  BY DEF limiter
<1>2. ASSUME NEW k \in Keys PROVE Limited(admitted[k], LimitOf(k), counters[k], clock')
  <2>0. counters[k] \in Counter /\ LimitOf(k) \in Nat
    BY LimitType DEF LimiterInv
  <2>5. PICK a : a = admitted[k]
    OBVIOUS
  <2>6. PICK ctr \in Counter : ctr = counters[k]
    BY <2>0
  <2>7. PICK L \in Nat : L = LimitOf(k)
    BY <2>0
  <2>1. a = admitted[k] /\ ctr = counters[k] /\ L = LimitOf(k)
    BY <2>5, <2>6, <2>7
  <2>2. PICK now \in Nat, later \in Nat : now = clock /\ later = clock'
    OBVIOUS
  <2>3. Limited(a, L, ctr, now) /\ now <= later
    BY <2>1, <2>2 DEF LimiterInv
  <2>4. Limited(a, L, ctr, later)
    BY <2>3, LimitedLater
  <2> QED
    BY <2>1, <2>2, <2>4
<1> QED
  BY <1>1, <1>2 DEF LimiterInv

LEMMA LimiterInductive ==
  ASSUME SlotsInv, SlotsInv', LimiterInv, [AgentNext]_allVars
  PROVE  LimiterInv'
<1>0. clock \in Nat /\ clock' \in Nat
  BY RequestsConstants DEF SlotsInv, RequestsTyped
<1>1. CASE UNCHANGED allVars
  <2>1. UNCHANGED limiter /\ clock' = clock
    BY <1>1 DEF allVars, vars, limiter
  <2> QED
    BY <1>0, <2>1, LaterKeeps
<1>2. CASE UNCHANGED limiter /\ (clock' = clock \/ clock' = clock + 1)
  BY <1>0, <1>2, LaterKeeps
<1>3. CASE \E c \in Slots : Hit(KeyOf(slots[c]), clock) /\ slots[c].stage = "received" /\ clock' = clock
  <2>1. PICK c \in Slots : Hit(KeyOf(slots[c]), clock) /\ slots[c].stage = "received" /\ clock' = clock
    BY <1>3
  <2>2. slots[c] \in Serving
    BY <2>1, ServingStages
  <2>3. PICK key \in Keys : key = KeyOf(slots[c])
    BY <2>2, KeysTyped
  <2> QED
    BY <1>0, <2>1, <2>3, HitKeeps
<1>4. ASSUME NEW c \in Slots, Serve(c)
      PROVE  /\ clock' = clock
             /\ UNCHANGED limiter \/ (Hit(KeyOf(slots[c]), clock) /\ slots[c].stage = "received")
  BY <1>4 DEF Serve, Admit, Cut, List, GetObject, Judge, Prepare, Create, Update, Destroy, Finish, CallService, quiet
<1>5. \/ UNCHANGED allVars
      \/ UNCHANGED limiter /\ (clock' = clock \/ clock' = clock + 1)
      \/ \E c \in Slots : Serve(c)
  BY DEF AgentNext, Browse, Process, Arrive, Post, Report, Stop, Disconnect, Tick, quiet
<1> QED
  BY <1>1, <1>2, <1>3, <1>4, <1>5

-----------------------------------------------------------------------------
LEMMA Earliest ==
  ASSUME NEW S \in SUBSET Nat, S # {}
  PROVE  \E i \in S : \A j \in S : i <= j
<1>1. IsWellFoundedOn(OpToRel(<, Nat), Nat)
  BY NatLessThanWellFounded
<1>2. PICK i \in S : \A j \in S : ~(<<j, i>> \in OpToRel(<, Nat))
  BY <1>1, WFMin
<1>3. \A j \in S : ~(j < i)
  BY <1>2 DEF OpToRel
<1> QED
  BY <1>3

(* Counting: those within a window's length are fewer than those after     *)
(* which a window's length has passed.                                     *)
LEMMA AtMostTwice ==
  ASSUME NEW a, NEW L \in Nat \ {0}, NEW now, Ordered(a, now), Spread(a, L), NEW t \in Nat
  PROVE  Cardinality({i \in DOMAIN a : a[i] \in t..(t + Window - 1)}) <= 2 * L
<1> DEFINE S == {i \in DOMAIN a : a[i] \in t..(t + Window - 1)}
<1>1. /\ a \in Seq(Nat) /\ Len(a) \in Nat /\ DOMAIN a = 1..Len(a)
      /\ \A i \in 1..Len(a) : a[i] \in Nat
  BY DEF Ordered
<1>2. PICK K \in Nat : K = 2 * L /\ K > 0
  OBVIOUS
<1>3. CASE S = {}
  BY <1>2, <1>3, FS_EmptySet
<1>4. CASE S # {}
  <2>1. S \subseteq Nat
    BY <1>1
  <2>2. PICK i \in S : \A j \in S : i <= j
    BY <1>4, <2>1, Earliest
  <2>3. i \in 1..Len(a) /\ a[i] >= t
    BY <1>1, <2>2
  <2>4. ASSUME NEW j \in S PROVE j \in i..(i + K - 1)
    <3>1. j \in 1..Len(a) /\ a[j] <= t + Window - 1 /\ i <= j
      BY <1>1, <2>2, WindowPositive
    <3>2. ASSUME i + K <= j PROVE FALSE
      <4>1. PICK k \in Nat : k = i + K
        BY <1>2, <2>3
      <4>2. k \in 1..Len(a) /\ k <= j
        BY <1>1, <1>2, <2>3, <3>1, <3>2, <4>1
      <4>3. a[i] + Window <= a[k]
        BY <1>2, <2>3, <4>1, <4>2 DEF Spread
      <4>4. a[k] <= a[j]
        BY <3>1, <4>2 DEF Ordered
      <4> QED
        BY <1>1, <2>3, <3>1, <4>2, <4>3, <4>4, WindowPositive
    <3> QED
      BY <1>1, <1>2, <2>3, <3>1, <3>2
  <2>5. IsFiniteSet(i..(i + K - 1)) /\ Cardinality(i..(i + K - 1)) = K
    <3>1. i \in Int /\ i + K - 1 \in Int /\ ~(i > i + K - 1) /\ (i + K - 1) - i + 1 = K
      BY <1>2, <2>3
    <3> QED
      BY <3>1, FS_Interval
  <2>6. S \subseteq i..(i + K - 1)
    BY <2>4
  <2> HIDE DEF S
  <2>7. Cardinality(S) <= K
    BY <2>5, <2>6, FS_Subset
  <2> QED
    BY <1>2, <2>7 DEF S
<1> QED
  BY <1>3, <1>4

(* Wherever a window's length is laid over the requests that the limiter   *)
(* let through for a key, it holds at most twice the limit, whatever the   *)
(* limit, the window, the sweep's interval and the number of callers       *)
(* (http/throttle.ts).                                                     *)
THEOREM LimiterHolds == AgentSpec => []AdmitsAtMostTwice
<1>1. AgentInit => LimiterInv
  <2> SUFFICES ASSUME AgentInit PROVE LimiterInv
    OBVIOUS
  <2>1. counters = [k \in Keys |-> NoCounter] /\ admitted = [k \in Keys |-> <<>>] /\ clock = 0
    BY DEF AgentInit, Init
  <2>2. ASSUME NEW key \in Keys PROVE Limited(admitted[key], LimitOf(key), counters[key], clock)
    <3>1. admitted[key] = <<>> /\ counters[key] = NoCounter
      BY <2>1
    <3>2. \A L, now : Limited(<<>>, L, NoCounter, now)
      BY DEF Limited, Ordered, Spread, Older
    <3> QED
      BY <3>1, <3>2
  <2>3. counters \in [Keys -> Counter] /\ admitted \in [Keys -> Seq(Nat)]
    BY <2>1, NoCounterType
  <2> QED
    BY <2>2, <2>3 DEF LimiterInv
<1>2. SlotsInv /\ SlotsInv' /\ LimiterInv /\ [AgentNext]_allVars => LimiterInv'
  BY LimiterInductive
<1>3. LimiterInv => AdmitsAtMostTwice
  <2> SUFFICES ASSUME LimiterInv, NEW key \in Keys, NEW t \in 0..MaxClock
               PROVE  Cardinality({i \in DOMAIN admitted[key] : admitted[key][i] \in t..(t + Window - 1)}) <= 2 * LimitOf(key)
    BY DEF AdmitsAtMostTwice
  <2>1. PICK L \in Nat \ {0} : L = LimitOf(key)
    BY LimitType
  <2>2. PICK a : a = admitted[key]
    OBVIOUS
  <2>3. Ordered(a, clock) /\ Spread(a, L)
    BY <2>1, <2>2 DEF LimiterInv, Limited
  <2>4. t \in Nat
    BY RequestsConstants
  <2>5. Cardinality({i \in DOMAIN a : a[i] \in t..(t + Window - 1)}) <= 2 * L
    BY <2>3, <2>4, AtMostTwice
  <2> QED
    BY <2>1, <2>2, <2>5
<1> QED
  BY <1>1, <1>2, <1>3, SlotsAlways, PTL DEF AgentSpec

-----------------------------------------------------------------------------
(* The admin's forms (admin/site.ts, widgets.ts), for any registration,      *)
(* values, editors and forms, however long a form is kept open.              *)

(* A form posts every field that has an input; those that are no relation    *)
(* are rendered from the row itself.  "f" is the fields of a site.           *)
Posted(f) == {a \in DOMAIN f : f[a].editable}
Own(f) == {a \in Posted(f) : f[a].kind # "foreignKey"}

\* What the fields of a row hold that have an input and are no relation.
RowSays(f, row) == \A a \in Own(f) : Holds(f[a], row[a])
RowsSay(f, held) == \A pk \in Pks : held[pk] \notin {Gone, Unborn} => RowSays(f, held[pk])

ShownAs(spec, value) ==
  IF value = Null \/ (spec.kind = "boolean" /\ value # "on") THEN "" ELSE Carried[value]
Lacks(spec, raw) ==
  Carried[raw] = "" /\ spec.kind # "boolean" /\ ~spec.null /\ ~spec.hasDefault /\ ~spec.blank

\* A form shows the row it was opened on, except where it was filled in.
Shows(f, form, a, input) == form.pk # 0 /\ a \notin form.touched => input = ShownAs(f[a], form.row[a])
FormShows(f, form) ==
  /\ form.pk \in Pks \cup {0}
  /\ form.pc \in {"none", "rendering", "open", "saving", "deleting"}
  /\ form.pc = "deleting" => form.pk # 0
  /\ form.pc \in {"rendering", "open", "saving"} /\ form.pk # 0 => RowSays(f, form.row)
  /\ form.pc = "rendering" => \A a \in Own(f) :
       /\ form.values[a] \in DOMAIN Carried \cup {Null}
       /\ Shows(f, form, a, ShownAs(f[a], form.values[a]))
  /\ form.pc \in {"open", "saving"} =>
       /\ form.inputs \in [Posted(f) -> DOMAIN Carried]
       /\ \A a \in Own(f) : Shows(f, form, a, form.inputs[a])
  /\ form.pc = "saving" => \A a \in Posted(f) : ~Lacks(f[a], form.inputs[a])

FormFields == {"pc", "pk", "values", "inputs", "row", "touched"}
AdminInv ==
  /\ site \in Sites
  /\ DOMAIN records = Pks /\ RowsSay(site.fields, records)
  /\ DOMAIN forms = Editors
  /\ \A e \in Editors : DOMAIN forms[e] = FormFields /\ FormShows(site.fields, forms[e])

LeavesOut(spec, raw) == Carried[raw] = "" /\ spec.kind # "boolean" /\ ~spec.null /\ spec.hasDefault
ParsedAs(spec, raw) ==
  IF spec.kind = "boolean" THEN IF raw = "on" THEN "on" ELSE "off"
  ELSE IF Carried[raw] = "" /\ spec.null THEN Null ELSE Carried[raw]
ReadAs(spec, raw, old) == IF ~spec.editable \/ LeavesOut(spec, raw) THEN old ELSE ParsedAs(spec, raw)

(* The operators of the model are those of a field's declaration. *)
LEMMA OfFields ==
  /\ \A a, v : Shown(a, v) = ShownAs(site.fields[a], v)
  /\ \A a, raw : Required(a, raw) = Lacks(site.fields[a], raw)
  /\ \A e, row : Read(e, row) = [a \in DOMAIN site.fields |-> ReadAs(site.fields[a], forms[e].inputs[a], row[a])]
<1>1. \A a, v : Shown(a, v) = ShownAs(site.fields[a], v)
  BY DEF Shown, ShownAs, Kind
<1>2. \A a, raw : Required(a, raw) = Lacks(site.fields[a], raw)
  BY DEF Required, Lacks, Blank
<1>3. \A a, raw, old : (IF ~Editable(a) \/ LeftOut(a, raw) THEN old ELSE Parsed(a, raw))
                         = ReadAs(site.fields[a], raw, old)
  BY DEF ReadAs, Editable, LeftOut, LeavesOut, Parsed, ParsedAs, Kind, Blank
<1>4. \A e, row : Read(e, row) = [a \in DOMAIN site.fields |-> ReadAs(site.fields[a], forms[e].inputs[a], row[a])]
  BY <1>3 DEF Read, Attrs
<1> QED
  BY <1>1, <1>2, <1>4

(* What a form shows of a value is read back as the value, or as what the    *)
(* inputs cannot say of it makes it.                                         *)
LostAs(spec, before, after) ==
  \/ before = Null /\ spec.kind = "boolean" /\ after = "off"
  \/ before # Null /\ after = Carried[before]
  \/ before # Null /\ Carried[before] = "" /\ spec.null /\ after = Null
LEMMA ReadBack ==
  ASSUME NEW spec, NEW v, Holds(spec, v), ~Lacks(spec, ShownAs(spec, v))
  PROVE  LET read == ReadAs(spec, ShownAs(spec, v), v) IN read = v \/ LostAs(spec, v, read)
<1>1. CASE spec.kind = "boolean"
  BY <1>1, FormConstants DEF Holds, LostAs, ShownAs, ReadAs, ParsedAs, LeavesOut
<1>2. CASE spec.kind # "boolean" /\ v = Null
  BY <1>2, FormConstants DEF Holds, LostAs, ShownAs, ReadAs, ParsedAs, LeavesOut
<1>3. CASE spec.kind # "boolean" /\ v # Null
  <2>1. v \in DOMAIN Carried
    BY <1>3 DEF Holds
  <2>2. ShownAs(spec, v) = Carried[v] /\ Carried[Carried[v]] = Carried[v]
    BY <1>3, <2>1, FormConstants DEF ShownAs
  <2> QED
    BY <1>3, <2>1, <2>2 DEF ReadAs, ParsedAs, LeavesOut, LostAs
<1> QED
  BY <1>1, <1>2, <1>3

(* What is read is again something that a form can say. *)
LEMMA ReadHolds ==
  ASSUME NEW spec, NEW raw \in DOMAIN Carried, NEW old, spec.editable,
         LeavesOut(spec, raw) => Holds(spec, old)
  PROVE  Holds(spec, ReadAs(spec, raw, old))
<1>1. Carried[raw] \in DOMAIN Carried /\ Carried[Carried[raw]] = Carried[raw]
  BY FormConstants
<1>2. CASE LeavesOut(spec, raw)
  BY <1>2 DEF ReadAs
<1>3. CASE ~LeavesOut(spec, raw)
  BY <1>1, <1>3 DEF ReadAs, ParsedAs, Holds
<1> QED
  BY <1>2, <1>3

LEMMA ShownType ==
  ASSUME NEW spec, NEW v \in DOMAIN Carried \cup {Null}
  PROVE  /\ ShownAs(spec, v) \in DOMAIN Carried
         /\ ShownAs(spec, ShownAs(spec, v)) = ShownAs(spec, v)
<1>1. "" \in DOMAIN Carried /\ Carried[""] = "" /\ Carried["on"] = "on" /\ Null # ""
  BY FormConstants
<1>2. CASE v = Null \/ (spec.kind = "boolean" /\ v # "on")
  BY <1>1, <1>2 DEF ShownAs
<1>3. CASE ~(v = Null \/ (spec.kind = "boolean" /\ v # "on"))
  <2>1. ShownAs(spec, v) = Carried[v] /\ v \in DOMAIN Carried
    BY <1>3 DEF ShownAs
  <2>2. Carried[v] \in DOMAIN Carried /\ Carried[Carried[v]] = Carried[v] /\ Carried[v] # Null
    BY <2>1, FormConstants
  <2>3. spec.kind = "boolean" => Carried[v] = "on"
    BY <1>1, <1>3
  <2> QED
    BY <2>1, <2>2, <2>3 DEF ShownAs
<1> QED
  BY <1>2, <1>3

LEMMA SaysShown ==
  ASSUME NEW spec, NEW v, Holds(spec, v)
  PROVE  v \in DOMAIN Carried \cup {Null}
  BY FormConstants DEF Holds

LEMMA NoFormShows ==
  ASSUME NEW f
  PROVE  DOMAIN NoForm = FormFields /\ FormShows(f, NoForm)
  BY DEF NoForm, FormFields, FormShows

(* A step of one editor moves one form. *)
LEMMA FormMoved ==
  ASSUME AdminInv, NEW e \in Editors, NEW g, DOMAIN g = FormFields, FormShows(site.fields, g),
         forms' = [forms EXCEPT ![e] = g],
         site' = site, DOMAIN records' = Pks, RowsSay(site.fields, records')
  PROVE  AdminInv'
<1>1. DOMAIN forms' = Editors
  BY DEF AdminInv
<1>2. ASSUME NEW d \in Editors
      PROVE  DOMAIN forms'[d] = FormFields /\ FormShows(site.fields, forms'[d])
  <2>1. CASE d = e
    BY <2>1 DEF AdminInv
  <2>2. CASE d # e
    BY <2>2 DEF AdminInv
  <2> QED
    BY <2>1, <2>2
<1> QED
  BY <1>1, <1>2 DEF AdminInv

LEMMA PostedAre == /\ {b \in Attrs : Editable(b)} = Posted(site.fields)
                   /\ Own(site.fields) = {a \in Posted(site.fields) : Kind(a) # "foreignKey"}
                   /\ Attrs = DOMAIN site.fields
  BY DEF Attrs, Editable, Posted, Own, Kind

LEMMA RenderShows ==
  ASSUME AdminInv, NEW e \in Editors, Render(e)
  PROVE  AdminInv'
<1> DEFINE f == site.fields
           form == forms[e]
<1>1. PICK picked \in [{a \in Attrs : Editable(a) /\ Kind(a) = "foreignKey"} -> Targets \cup {""}] :
        forms' = [forms EXCEPT ![e].pc = "open",
            ![e].inputs = [a \in {b \in Attrs : Editable(b)} |->
                             IF a \in DOMAIN picked THEN picked[a] ELSE Shown(a, forms[e].values[a])]]
  BY DEF Render
<1>2. PICK inputs : inputs = [a \in Posted(f) |->
                                IF a \in DOMAIN picked THEN picked[a] ELSE ShownAs(f[a], form.values[a])]
  OBVIOUS
<1>3. PICK g : g = [form EXCEPT !.pc = "open", !.inputs = inputs]
  OBVIOUS
<1>4. forms' = [forms EXCEPT ![e] = g]
  <2>1. inputs = [a \in {b \in Attrs : Editable(b)} |->
                             IF a \in DOMAIN picked THEN picked[a] ELSE Shown(a, forms[e].values[a])]
    BY <1>2, OfFields, PostedAre
  <2> QED
    BY <1>1, <1>3, <2>1 DEF AdminInv
<1>5. /\ DOMAIN form = FormFields /\ FormShows(f, form) /\ form.pc = "rendering"
  BY DEF AdminInv, Render, At
<1>6. /\ DOMAIN g = FormFields /\ g.pc = "open" /\ g.inputs = inputs
      /\ g.pk = form.pk /\ g.row = form.row /\ g.touched = form.touched
  BY <1>3, <1>5 DEF FormFields
<1>7. DOMAIN picked = {a \in Posted(f) : Kind(a) = "foreignKey"} /\ \A a \in DOMAIN picked : picked[a] \in DOMAIN Carried
  BY PostedAre, FormConstants DEF Attrs, Posted, Editable
<1>8. ASSUME NEW a \in Own(f) PROVE inputs[a] = ShownAs(f[a], form.values[a]) /\ inputs[a] \in DOMAIN Carried
  <2>1. a \notin DOMAIN picked /\ a \in Posted(f)
    BY <1>7, PostedAre
  <2>2. form.values[a] \in DOMAIN Carried \cup {Null}
    BY <1>5 DEF FormShows
  <2> QED
    BY <1>2, <2>1, <2>2, ShownType
<1>9. inputs \in [Posted(f) -> DOMAIN Carried]
  <2>1. ASSUME NEW a \in Posted(f) PROVE inputs[a] \in DOMAIN Carried
    <3>1. CASE a \in DOMAIN picked
      BY <1>2, <1>7, <3>1
    <3>2. CASE a \notin DOMAIN picked
      BY <1>7, <1>8, <3>2, PostedAre
    <3> QED
      BY <3>1, <3>2
  <2> QED
    BY <1>2, <2>1
<1>10. ASSUME NEW a \in Own(f) PROVE Shows(f, g, a, inputs[a])
  BY <1>5, <1>6, <1>8 DEF FormShows, Shows
<1>11. FormShows(f, g)
  <2>1. g.pk \in Pks \cup {0} /\ (g.pk # 0 => RowSays(f, g.row))
    BY <1>5, <1>6 DEF FormShows
  <2> QED
    BY <1>6, <1>9, <1>10, <2>1 DEF FormShows
<1> QED
  BY <1>4, <1>6, <1>11, FormMoved DEF Render, AdminInv

LEMMA AddFormShows ==
  ASSUME AdminInv, NEW e \in Editors, AddForm(e)
  PROVE  AdminInv'
<1> DEFINE f == site.fields
<1>1. PICK g : g = [NoForm EXCEPT !.pc = "rendering", !.values = Defaults]
  OBVIOUS
<1>2. /\ DOMAIN g = FormFields /\ g.pc = "rendering" /\ g.pk = 0 /\ g.values = Defaults
  BY <1>1 DEF NoForm, FormFields
<1>3. ASSUME NEW a \in Own(f) PROVE Defaults[a] \in DOMAIN Carried \cup {Null}
  BY FormConstants DEF Defaults, Attrs, Own, Posted, AdminInv
<1>4. FormShows(f, g)
  BY <1>2, <1>3 DEF FormShows, Shows
<1> QED
  BY <1>1, <1>2, <1>4, FormMoved DEF AddForm, AdminInv

LEMMA ChangeFormShows ==
  ASSUME AdminInv, NEW e \in Editors, NEW pk \in Pks, ChangeForm(e, pk)
  PROVE  AdminInv'
<1> DEFINE f == site.fields
<1>1. PICK g : g = [NoForm EXCEPT !.pc = "rendering", !.pk = pk,
                                      !.values = Fetched(records[pk]), !.row = records[pk]]
  OBVIOUS
<1>2. /\ DOMAIN g = FormFields /\ g.pc = "rendering" /\ g.pk = pk
      /\ g.values = Fetched(records[pk]) /\ g.row = records[pk]
  BY <1>1 DEF NoForm, FormFields
<1>3. RowSays(f, records[pk])
  BY DEF ChangeForm, Alive, AdminInv, RowsSay
<1>4. ASSUME NEW a \in Own(f)
      PROVE  g.values[a] = g.row[a] /\ g.values[a] \in DOMAIN Carried \cup {Null}
  <2>1. g.values[a] = g.row[a]
    BY <1>2, PostedAre DEF Fetched, Posted
  <2> QED
    BY <1>2, <1>3, <2>1, SaysShown DEF RowSays
<1>5. FormShows(f, g)
  BY <1>2, <1>3, <1>4 DEF FormShows, Shows
<1> QED
  BY <1>1, <1>2, <1>5, FormMoved DEF ChangeForm, AdminInv

LEMMA FillShows ==
  ASSUME AdminInv, NEW e \in Editors, NEW attr \in Attrs, NEW raw \in Typed[Kind(attr)], Fill(e, attr, raw)
  PROVE  AdminInv'
<1> DEFINE f == site.fields
           form == forms[e]
<1>1. PICK g : g = [form EXCEPT !.inputs[attr] = raw, !.touched = {attr}]
  OBVIOUS
<1>2. /\ DOMAIN form = FormFields /\ FormShows(f, form) /\ form.pc = "open" /\ form.touched = {}
  BY DEF AdminInv, Fill, At
<1>3. forms' = [forms EXCEPT ![e] = g]
  BY <1>1 DEF Fill, AdminInv
<1>4. /\ DOMAIN g = FormFields /\ g.pc = "open" /\ g.inputs = [form.inputs EXCEPT ![attr] = raw]
      /\ g.pk = form.pk /\ g.row = form.row /\ g.touched = {attr}
  BY <1>1, <1>2 DEF FormFields
<1>5. raw \in DOMAIN Carried
  BY FormConstants DEF Attrs, Kind, AdminInv
<1>6. form.inputs \in [Posted(f) -> DOMAIN Carried] /\ g.inputs \in [Posted(f) -> DOMAIN Carried]
  <2>1. form.inputs \in [Posted(f) -> DOMAIN Carried]
    BY <1>2 DEF FormShows
  <2> QED
    BY <1>4, <1>5, <2>1
<1>7. ASSUME NEW a \in Own(f) PROVE Shows(f, g, a, g.inputs[a])
  <2>1. CASE a = attr
    BY <1>4, <2>1 DEF Shows
  <2>2. CASE a # attr
    <3>1. g.inputs[a] = form.inputs[a]
      BY <1>4, <1>6, <2>2
    <3>2. Shows(f, form, a, form.inputs[a])
      BY <1>2 DEF FormShows
    <3> QED
      BY <1>2, <1>4, <3>1, <3>2 DEF Shows
  <2> QED
    BY <2>1, <2>2
<1>8. FormShows(f, g)
  <2>1. g.pk \in Pks \cup {0} /\ (g.pk # 0 => RowSays(f, g.row))
    BY <1>2, <1>4 DEF FormShows
  <2> QED
    BY <1>4, <1>6, <1>7, <2>1 DEF FormShows
<1> QED
  BY <1>3, <1>4, <1>8, FormMoved DEF Fill, AdminInv

LEMMA AgainShows ==
  ASSUME AdminInv, NEW e \in Editors, forms[e].pc \in {"open", "saving"}, Again(e),
         site' = site, DOMAIN records' = Pks, RowsSay(site.fields, records')
  PROVE  AdminInv'
<1> DEFINE f == site.fields
           form == forms[e]
<1>1. PICK values : values = [a \in Attrs |-> IF Editable(a) THEN form.inputs[a] ELSE form.values[a]]
  OBVIOUS
<1>2. PICK g : g = [form EXCEPT !.pc = "rendering", !.values = values]
  OBVIOUS
<1>3. forms' = [forms EXCEPT ![e] = g]
  BY <1>1, <1>2 DEF Again, AdminInv
<1>4. DOMAIN form = FormFields /\ FormShows(f, form)
  BY DEF AdminInv
<1>5. /\ DOMAIN g = FormFields /\ g.pc = "rendering" /\ g.values = values
      /\ g.pk = form.pk /\ g.row = form.row /\ g.touched = form.touched
  BY <1>2, <1>4 DEF FormFields
<1>6. g.pk \in Pks \cup {0} /\ (g.pk # 0 => RowSays(f, g.row))
  BY <1>4, <1>5 DEF FormShows
<1>7. ASSUME NEW a \in Own(f)
      PROVE  values[a] \in DOMAIN Carried /\ Shows(f, g, a, ShownAs(f[a], values[a]))
  <2>1. values[a] = form.inputs[a]
    BY <1>1, PostedAre DEF Posted
  <2>2. form.inputs[a] \in DOMAIN Carried /\ Shows(f, form, a, form.inputs[a])
    BY <1>4, PostedAre DEF FormShows
  <2>3. ASSUME g.pk # 0, a \notin g.touched
        PROVE  ShownAs(f[a], values[a]) = ShownAs(f[a], g.row[a])
    <3>1. values[a] = ShownAs(f[a], g.row[a])
      BY <1>5, <2>1, <2>2, <2>3 DEF Shows
    <3>2. g.row[a] \in DOMAIN Carried \cup {Null}
      BY <1>6, <2>3, SaysShown DEF RowSays
    <3> QED
      BY <3>1, <3>2, ShownType
  <2> QED
    BY <2>1, <2>2, <2>3 DEF Shows
<1>8. FormShows(f, g)
  BY <1>5, <1>6, <1>7 DEF FormShows
<1> QED
  BY <1>3, <1>5, <1>8, FormMoved

LEMMA SubmitShows ==
  ASSUME AdminInv, NEW e \in Editors, Submit(e)
  PROVE  AdminInv'
<1> DEFINE f == site.fields
           form == forms[e]
<1>1. /\ site' = site /\ DOMAIN records' = Pks /\ RowsSay(site.fields, records')
      /\ DOMAIN form = FormFields /\ FormShows(f, form) /\ form.pc = "open"
  BY DEF Submit, At, AdminInv
<1>2. CASE forms' = [forms EXCEPT ![e] = NoForm]
  BY <1>1, <1>2, NoFormShows, FormMoved
<1>3. CASE Again(e)
  BY <1>1, <1>3, AgainShows
<1>4. CASE /\ forms' = [forms EXCEPT ![e].pc = "saving"]
           /\ ~ \E a \in DOMAIN form.inputs : Required(a, form.inputs[a])
  <2>1. PICK g : g = [form EXCEPT !.pc = "saving"]
    OBVIOUS
  <2>2. forms' = [forms EXCEPT ![e] = g]
    BY <1>4, <2>1 DEF AdminInv
  <2>3. /\ DOMAIN g = FormFields /\ g.pc = "saving" /\ g.inputs = form.inputs
        /\ g.pk = form.pk /\ g.row = form.row /\ g.touched = form.touched
    BY <1>1, <2>1 DEF FormFields
  <2>4. form.inputs \in [Posted(f) -> DOMAIN Carried]
    BY <1>1 DEF FormShows
  <2>5. \A a \in Posted(f) : ~Lacks(f[a], g.inputs[a])
    BY <1>4, <2>3, <2>4, OfFields
  <2>6. \A a \in Own(f) : Shows(f, g, a, g.inputs[a])
    BY <1>1, <2>3 DEF FormShows, Shows
  <2>7. FormShows(f, g)
    BY <1>1, <2>3, <2>4, <2>5, <2>6 DEF FormShows
  <2> QED
    BY <1>1, <2>2, <2>3, <2>7, FormMoved
<1> QED
  BY <1>2, <1>3, <1>4 DEF Submit

LEMMA DestroyRowShows ==
  ASSUME AdminInv, NEW e \in Editors, NEW pk \in Pks, DestroyRow(e, pk)
  PROVE  AdminInv'
<1>1. PICK g : g = [NoForm EXCEPT !.pc = "deleting", !.pk = pk]
  OBVIOUS
<1>2. DOMAIN g = FormFields /\ g.pc = "deleting" /\ g.pk = pk
  BY <1>1 DEF NoForm, FormFields
<1>3. pk # 0
  BY AdminConstants
<1>4. FormShows(site.fields, g)
  BY <1>2, <1>3 DEF FormShows
<1> QED
  BY <1>1, <1>2, <1>4, FormMoved DEF DestroyRow, AdminInv

(* The row that is written: a new one, or the one the form was opened on. *)
Places == {pk \in Pks : records[pk] = Unborn}
FirstPlace == CHOOSE p \in Places : \A q \in Places : p <= q
LEMMA NextPlace ==
  ASSUME Places # {}
  PROVE  FirstPlace \in Pks /\ records[FirstPlace] = Unborn
<1>1. Places \subseteq Nat
  BY AdminConstants DEF Places
<1>2. \E p \in Places : \A q \in Places : p <= q
  BY <1>1, Earliest
<1>3. FirstPlace \in Places
  BY <1>2 DEF FirstPlace
<1> QED
  BY <1>3 DEF Places

Place(e) == IF forms[e].pk # 0 THEN forms[e].pk ELSE FirstPlace
Written(e) == Read(e, IF forms[e].pk # 0 THEN records[Place(e)] ELSE Defaults)

(* What a save does, the database's refusal included. *)
LEMMA SaveDoes ==
  ASSUME AdminInv, NEW e \in Editors, Save(e)
  PROVE  /\ site' = site /\ forms[e].pc = "saving" /\ Place(e) \in Pks
         /\ forms[e].pk = 0 => records[Place(e)] = Unborn
         /\ \/ Again(e) /\ records' = records
            \/ forms' = [forms EXCEPT ![e] = NoForm] /\ records' = records
            \/ /\ forms' = [forms EXCEPT ![e] = NoForm]
               /\ records' = [records EXCEPT ![Place(e)] = Written(e)]
               /\ forms[e].pk = 0 \/ Alive(Place(e))
<1>1. forms[e].pk = 0 => Places # {}
  BY DEF Save, Places
<1>2. forms[e].pk \in Pks \cup {0}
  BY DEF AdminInv, FormShows
<1>3. Place(e) \in Pks /\ (forms[e].pk = 0 => records[Place(e)] = Unborn)
  BY <1>1, <1>2, NextPlace DEF Place
<1>4. site' = site /\ forms[e].pc = "saving"
  BY DEF Save, At
<1>5. \/ Again(e) /\ records' = records
      \/ forms' = [forms EXCEPT ![e] = NoForm] /\ records' = records
      \/ /\ forms' = [forms EXCEPT ![e] = NoForm]
         /\ records' = [records EXCEPT ![Place(e)] = Written(e)]
         /\ forms[e].pk = 0 \/ Alive(Place(e))
  BY DEF Save, Place, Written, FirstPlace, Places
<1> QED
  BY <1>3, <1>4, <1>5

LEMMA SaveShows ==
  ASSUME AdminInv, NEW e \in Editors, Save(e)
  PROVE  AdminInv'
<1> DEFINE f == site.fields
           form == forms[e]
<1>1. /\ site \in Sites /\ DOMAIN form = FormFields /\ FormShows(f, form) /\ DOMAIN records = Pks
      /\ RowsSay(f, records)
  BY DEF AdminInv
<1>2. CASE Again(e) /\ records' = records
  BY <1>1, <1>2, SaveDoes, AgainShows
<1>3. CASE forms' = [forms EXCEPT ![e] = NoForm] /\ records' = records
  BY <1>1, <1>3, SaveDoes, NoFormShows, FormMoved
<1>4. CASE /\ forms' = [forms EXCEPT ![e] = NoForm]
           /\ records' = [records EXCEPT ![Place(e)] = Written(e)]
           /\ forms[e].pk = 0 \/ Alive(Place(e))
  <2>1. PICK old : old = IF form.pk # 0 THEN records[Place(e)] ELSE Defaults
    OBVIOUS
  <2>2. Written(e) = [a \in DOMAIN f |-> ReadAs(f[a], form.inputs[a], old[a])]
    BY <2>1, OfFields DEF Written
  <2>3. ASSUME NEW a \in Own(f) PROVE Holds(f[a], Written(e)[a])
    <3>1. form.inputs[a] \in DOMAIN Carried /\ f[a].editable /\ a \in DOMAIN f
      BY <1>1, SaveDoes DEF FormShows, Own, Posted
    <3>2. ASSUME LeavesOut(f[a], form.inputs[a]) PROVE Holds(f[a], old[a])
      <4>1. CASE form.pk # 0
        BY <1>1, <1>4, <2>1, <4>1, SaveDoes DEF RowsSay, RowSays, Alive
      <4>2. CASE form.pk = 0
        <5>1. f[a].hasDefault /\ ~f[a].null /\ f[a].kind # "boolean"
          BY <3>2 DEF LeavesOut
        <5>2. old[a] = f[a].default
          BY <2>1, <3>1, <4>2, <5>1 DEF Defaults, Attrs
        <5> QED
          BY <1>1, <3>1, <5>1, <5>2, FormConstants DEF Holds
      <4> QED
        BY <4>1, <4>2
    <3> QED
      BY <2>2, <3>1, <3>2, ReadHolds
  <2>4. RowsSay(f, records')
    <3> SUFFICES ASSUME NEW pk \in Pks, records'[pk] \notin {Gone, Unborn} PROVE RowSays(f, records'[pk])
      BY DEF RowsSay
    <3>1. CASE pk = Place(e)
      BY <1>1, <1>4, <2>3, <3>1 DEF RowSays
    <3>2. CASE pk # Place(e)
      BY <1>1, <1>4, <3>2 DEF RowsSay
    <3> QED
      BY <3>1, <3>2
  <2>5. DOMAIN records' = Pks
    BY <1>1, <1>4
  <2> QED
    BY <1>1, <1>4, <2>4, <2>5, SaveDoes, NoFormShows, FormMoved
<1> QED
  BY <1>2, <1>3, <1>4, SaveDoes

LEMMA DeleteShows ==
  ASSUME AdminInv, NEW e \in Editors, Delete(e)
  PROVE  AdminInv'
<1>1. /\ forms' = [forms EXCEPT ![e] = NoForm] /\ site' = site
      /\ records' = [records EXCEPT ![forms[e].pk] = Gone]
  BY DEF Delete
<1>2. DOMAIN records' = Pks /\ RowsSay(site.fields, records')
  BY <1>1 DEF AdminInv, RowsSay
<1> QED
  BY <1>1, <1>2, NoFormShows, FormMoved

LEMMA TargetGoesShows ==
  ASSUME AdminInv, NEW t \in Targets, TargetGoes(t)
  PROVE  AdminInv'
<1>1. ASSUME NEW pk \in Pks
      PROVE  \/ records'[pk] \in {records[pk], Gone}
             \/ /\ Alive(pk)
                /\ records'[pk] = [a \in Attrs |-> IF Kind(a) = "foreignKey" /\ records[pk][a] = t
                                                 THEN Null ELSE records[pk][a]]
  BY DEF TargetGoes
<1>2. DOMAIN records' = Pks /\ forms' = forms /\ site' = site
  BY DEF TargetGoes
<1>3. ASSUME NEW pk \in Pks, records'[pk] \notin {Gone, Unborn}, NEW a \in Own(site.fields)
      PROVE  Holds(site.fields[a], records'[pk][a])
  <2>1. a \in Attrs /\ Kind(a) # "foreignKey"
    BY PostedAre DEF Own, Posted
  <2>2. CASE records'[pk] = records[pk]
    BY <1>3, <2>2 DEF AdminInv, RowsSay, RowSays
  <2>3. CASE Alive(pk) /\ records'[pk][a] = records[pk][a]
    BY <2>3 DEF AdminInv, RowsSay, RowSays, Alive
  <2> QED
    BY <1>1, <1>3, <2>1, <2>2, <2>3
<1>4. RowsSay(site.fields, records')
  BY <1>3 DEF RowsSay, RowSays
<1> QED
  BY <1>2, <1>4 DEF AdminInv

LEMMA AdminInductive == AdminInv /\ [AdminNext]_adminVars => AdminInv'
<1> SUFFICES ASSUME AdminInv, [AdminNext]_adminVars PROVE AdminInv'
  OBVIOUS
<1>1. ASSUME NEW e \in Editors, AddForm(e) \/ Render(e) \/ Save(e) \/ Delete(e) \/ Submit(e)
      PROVE  AdminInv'
  BY <1>1, AddFormShows, RenderShows, SaveShows, DeleteShows, SubmitShows
<1>2. ASSUME NEW e \in Editors, NEW pk \in Pks, ChangeForm(e, pk) \/ DestroyRow(e, pk)
      PROVE  AdminInv'
  BY <1>2, ChangeFormShows, DestroyRowShows
<1>3. ASSUME NEW e \in Editors, NEW attr \in Attrs, NEW raw \in Typed[Kind(attr)], Fill(e, attr, raw)
      PROVE  AdminInv'
  BY <1>3, FillShows
<1>4. ASSUME NEW t \in Targets, TargetGoes(t)
      PROVE  AdminInv'
  BY <1>4, TargetGoesShows
<1>5. CASE UNCHANGED adminVars
  BY <1>5 DEF adminVars, AdminInv
<1> QED
  BY <1>1, <1>2, <1>3, <1>4, <1>5 DEF AdminNext

(* The untouched inputs of a save say what the row held when the form was    *)
(* opened; of the other steps only the deletions change a row.               *)
ByASave(pk, a) ==
  \E e \in Editors : /\ Saves(e, pk) /\ Editable(a)
                     /\ \/ a \in forms[e].touched \/ forms[e].row[a] # records[pk][a]
                        \/ Kind(a) = "foreignKey" \/ Lost(a, records[pk][a], records'[pk][a])
LEMMA SaveChanges ==
  ASSUME AdminInv, NEW e \in Editors, Save(e), NEW pk \in Pks, NEW a \in Attrs, Changed(pk, a)
  PROVE  ByASave(pk, a)
<1> DEFINE f == site.fields
           form == forms[e]
<1>1. FormShows(f, form) /\ DOMAIN form = FormFields /\ DOMAIN forms = Editors
  BY DEF AdminInv
<1>2. /\ forms' = [forms EXCEPT ![e] = NoForm]
      /\ records' = [records EXCEPT ![Place(e)] = Written(e)]
  BY SaveDoes DEF Changed
<1>3. pk = Place(e) /\ form.pk # 0 /\ pk = form.pk
  <2>1. pk = Place(e)
    BY <1>2, SaveDoes DEF Changed
  <2>2. form.pk # 0
    BY <2>1, SaveDoes DEF Changed, Alive
  <2> QED
    BY <2>1, <2>2 DEF Place
<1>4. Saves(e, pk)
  BY <1>1, <1>2, <1>3, SaveDoes DEF Saves, At, NoForm
<1>5. records'[pk][a] = ReadAs(f[a], form.inputs[a], records[pk][a])
  <2>1. records'[pk] = Read(e, records[pk])
    BY <1>2, <1>3, SaveDoes DEF Written, AdminInv
  <2> QED
    BY <2>1, OfFields DEF Attrs
<1>6. Editable(a)
  BY <1>5 DEF ReadAs, Changed, Editable
<1>7. ASSUME a \notin form.touched, form.row[a] = records[pk][a], Kind(a) # "foreignKey"
      PROVE  Lost(a, records[pk][a], records'[pk][a])
  <2>1. a \in Own(f) /\ a \in Posted(f)
    BY <1>6, <1>7, PostedAre
  <2>2. form.inputs[a] = ShownAs(f[a], records[pk][a])
    BY <1>1, <1>3, <1>7, <2>1, SaveDoes DEF FormShows, Shows
  <2>3. Holds(f[a], records[pk][a])
    BY <1>1, <1>3, <1>7, <2>1, SaveDoes DEF FormShows, RowSays
  <2>4. ~Lacks(f[a], ShownAs(f[a], records[pk][a]))
    BY <1>1, <2>1, <2>2, SaveDoes DEF FormShows
  <2>5. records'[pk][a] = records[pk][a] \/ LostAs(f[a], records[pk][a], records'[pk][a])
    BY <1>5, <2>2, <2>3, <2>4, ReadBack
  <2> QED
    BY <2>5 DEF Changed, Lost, LostAs, Kind, Blank
<1> QED
  BY <1>4, <1>6, <1>7 DEF ByASave

(* A save writes every field of its form, and what the editor left alone     *)
(* stays as it was, a relation, what others changed meanwhile and what an    *)
(* input cannot say ("Lost") excepted: for any fields, values, editors and   *)
(* forms that come back with errors.                                         *)
THEOREM UntouchedStay == AdminSpec => UntouchedFieldsStay
<1>1. AdminInit => AdminInv
  <2> SUFFICES ASSUME AdminInit PROVE AdminInv
    OBVIOUS
  <2>1. PICK first \in FirstRows : /\ \A a \in Attrs : Holds(site.fields[a], first[a])
                                  /\ records = [pk \in Pks |-> IF pk = 1 THEN first ELSE Unborn]
    BY DEF AdminInit
  <2>2. site \in Sites /\ forms = [e \in Editors |-> NoForm]
    BY DEF AdminInit
  <2>3. RowsSay(site.fields, records)
    BY <2>1, <2>2, PostedAre DEF RowSays, RowsSay, Own, Posted
  <2> QED
    BY <2>1, <2>2, <2>3, NoFormShows DEF AdminInv
<1>2. AdminInv /\ [AdminNext]_adminVars => [\A pk \in Pks : \A a \in Attrs : Changed(pk, a) =>
         \/ ByASave(pk, a)
         \/ related' # related /\ Kind(a) = "foreignKey" /\ records'[pk][a] = Null]_adminVars
  <2> SUFFICES ASSUME AdminInv, AdminNext, NEW pk \in Pks, NEW a \in Attrs, Changed(pk, a)
               PROVE  \/ ByASave(pk, a)
                      \/ related' # related /\ Kind(a) = "foreignKey" /\ records'[pk][a] = Null
    BY DEF adminVars
  <2>1. records' # records
    BY DEF Changed
  <2>2. ASSUME NEW e \in Editors, Save(e) PROVE ByASave(pk, a)
    BY <2>2, SaveChanges
  <2>3. ASSUME NEW e \in Editors, Delete(e) PROVE FALSE
    <3>1. records' = [records EXCEPT ![forms[e].pk] = Gone]
      BY <2>3 DEF Delete
    <3> QED
      BY <3>1 DEF Changed, AdminInv
  <2>4. ASSUME NEW t \in Targets, TargetGoes(t)
        PROVE  related' # related /\ Kind(a) = "foreignKey" /\ records'[pk][a] = Null
    <3>1. \/ records'[pk] \in {records[pk], Gone}
          \/ records'[pk] = [b \in Attrs |-> IF Kind(b) = "foreignKey" /\ records[pk][b] = t
                                             THEN Null ELSE records[pk][b]]
      BY <2>4 DEF TargetGoes
    <3>2. Kind(a) = "foreignKey" /\ records'[pk][a] = Null
      BY <3>1 DEF Changed
    <3>3. related' # related
      BY <2>4 DEF TargetGoes
    <3> QED
      BY <3>2, <3>3
  <2> QED
    BY <2>1, <2>2, <2>3, <2>4 DEF AdminNext, AddForm, Render, ChangeForm, DestroyRow, Fill, Submit
<1>3. AdminInv /\ [AdminNext]_adminVars => AdminInv'
  BY AdminInductive
<1>4. [][\A pk \in Pks : \A a \in Attrs : Changed(pk, a) =>
         \/ ByASave(pk, a)
         \/ related' # related /\ Kind(a) = "foreignKey" /\ records'[pk][a] = Null]_adminVars
      => UntouchedFieldsStay
  BY DEF UntouchedFieldsStay, ByASave
<1> QED
  BY <1>1, <1>2, <1>3, <1>4, PTL DEF AdminSpec
=============================================================================
