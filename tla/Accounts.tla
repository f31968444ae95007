------------------------------ MODULE Accounts ------------------------------
(***************************************************************************)
(* The accounts of src/src/auth: users, sessions, single-use reset tokens  *)
(* and the links of provider identities to users.                          *)
(*                                                                         *)
(* A user is named by its address, which is unique: an email, or for an    *)
(* identity that came without one the address made from the identity.  A   *)
(* request is the code between its awaits; requests that are refused at    *)
(* their first look change nothing and are left out.  Serializable tells   *)
(* SQLite (one transaction at a time) from Postgres at READ COMMITTED.  A  *)
(* password is present or not; "epoch" counts its changes.                 *)
(***************************************************************************)
EXTENDS Integers, FiniteSets

CONSTANTS
  Emails,        \* addresses people have
  Identities,    \* (provider, subject) pairs
  providerOf,    \* the provider of an identity
  Sessions,      \* rows of auth_sessions
  Tokens,        \* rows of auth_verification_tokens
  Requests,      \* requests in flight at a time
  Nobody,
  LinkPolicy,    \* linkPolicy
  SignUp,        \* signUp
  SessionTtl,    \* sessionTtlSeconds
  TokenTtl,      \* ttlSeconds of a reset token
  Serializable,  \* TRUE: SQLite; FALSE: Postgres at READ COMMITTED
  Horizon,       \* bound: the clock stops here
  MaxChanges     \* bound: changes of one user's password

ASSUME AccountConstants ==
  /\ Emails \cap Identities = {} /\ Nobody \notin Emails \cup Identities \cup Sessions \cup Tokens
  /\ DOMAIN providerOf = Identities /\ IsFiniteSet(Identities)
  /\ LinkPolicy \in {"verified-email", "any-email", "never"}
  /\ SignUp \in BOOLEAN /\ Serializable \in BOOLEAN
  /\ SessionTtl \in Nat /\ TokenTtl \in Nat /\ Horizon \in Nat /\ MaxChanges \in Nat

VARIABLES
  now,        \* the clock
  users,      \* per address: its user
  links,      \* per identity: the user it is linked to
  sessions,   \* rows of auth_sessions
  tokens,     \* rows of auth_verification_tokens
  requests,   \* what each request is doing
  uses,       \* history: per token, how often it was accepted
  stranded    \* history: users whose last links, several of one provider, went in one unlink

accountsVars == <<now, users, links, sessions, tokens, requests, uses, stranded>>

Addresses == Emails \cup Identities
Providers == {providerOf[i] : i \in Identities}
Forever == -1

User == [status: {"absent", "active", "inactive"}, password: BOOLEAN, epoch: Nat]

\* "born" is the epoch of the user its request had read; "raced" is history: the
\* password had changed by the time the row was written.
Session == [user: Addresses \cup {Nobody}, kind: {"session", "token"},
            expiresAt: Nat \cup {Forever}, revoked: BOOLEAN, born: Nat, raced: BOOLEAN]

Token == [user: Addresses \cup {Nobody}, expiresAt: Nat, used: BOOLEAN]

Request == [pc: {"idle", "registering", "issuing", "authenticated", "changing", "mailing",
                 "consuming", "linking", "signingUp", "unlinking"},
            user: Addresses \cup {Nobody}, epoch: Nat, kind: {"session", "token"},
            session: Sessions \cup {Nobody}, token: Tokens \cup {Nobody},
            identity: Identities \cup {Nobody}, provider: Providers \cup {Nobody}]

NoUser == [status |-> "absent", password |-> FALSE, epoch |-> 0]
NoSession == [user |-> Nobody, kind |-> "session", expiresAt |-> 0, revoked |-> FALSE,
              born |-> 0, raced |-> FALSE]
NoToken == [user |-> Nobody, expiresAt |-> 0, used |-> FALSE]
Idle == [pc |-> "idle", user |-> Nobody, epoch |-> 0, kind |-> "session", session |-> Nobody,
         token |-> Nobody, identity |-> Nobody, provider |-> Nobody]

Exists(u) == users[u].status # "absent"
Active(u) == users[u].status = "active"
At(r, pc) == requests[r].pc = pc

\* A request that goes on as pc for user u, as it has read it.
On(r, pc, u) == [requests[r] EXCEPT !.pc = pc, !.user = u, !.epoch = users[u].epoch]
Becomes(r, next) == requests' = [requests EXCEPT ![r] = next]

\* SQLite: atomic() waits for the open transaction.
InTransaction(r) == requests[r].pc \in {"consuming", "linking", "signingUp", "unlinking"}
Free == Serializable => \A r \in Requests : ~InTransaction(r)

-----------------------------------------------------------------------------
(* Sessions *)

\* authenticate(email, password): the user as it was read, whose hash matches.  An
\* address made from an identity is no email, and the routes that take one refuse it.
Login(r, u) ==
  /\ At(r, "idle") /\ Active(u) /\ users[u].password
  /\ Becomes(r, On(r, "issuing", u))
  /\ UNCHANGED <<now, users, links, sessions, tokens, uses, stranded>>

\* issueCredential.  An API token does not expire unless asked to.
IssueCredential(r, s) ==
  LET u == requests[r].user
  IN /\ At(r, "issuing") /\ sessions[s].user = Nobody
     /\ \E expiresAt \in {now + SessionTtl} \cup (IF requests[r].kind = "token" THEN {Forever} ELSE {}) :
          sessions' = [sessions EXCEPT ![s] =
            [user |-> u, kind |-> requests[r].kind, expiresAt |-> expiresAt, revoked |-> FALSE,
             born |-> requests[r].epoch, raced |-> requests[r].epoch # users[u].epoch]]
     /\ Becomes(r, Idle)
     /\ UNCHANGED <<now, users, links, tokens, uses, stranded>>

\* resolveCredential accepts the row.
Usable(s) ==
  /\ sessions[s].user # Nobody /\ ~sessions[s].revoked
  /\ sessions[s].expiresAt = Forever \/ sessions[s].expiresAt > now
  /\ Active(sessions[s].user)

\* The authenticate hook: what follows is the handler's.
Authenticate(r, s) ==
  /\ At(r, "idle") /\ Usable(s)
  /\ Becomes(r, [On(r, "authenticated", sessions[s].user) EXCEPT !.session = s])
  /\ UNCHANGED <<now, users, links, sessions, tokens, uses, stranded>>

Revoked(row) == [row EXCEPT !.revoked = TRUE]

\* /logout: revokeSession of the request's own.
Logout(r) ==
  /\ At(r, "authenticated")
  /\ sessions' = [sessions EXCEPT ![requests[r].session] = Revoked(@)]
  /\ Becomes(r, Idle)
  /\ UNCHANGED <<now, users, links, tokens, uses, stranded>>

\* DELETE /tokens/:id, of any session or token of the user.
RevokeToken(r, s) ==
  /\ At(r, "authenticated") /\ sessions[s].user = requests[r].user
  /\ sessions' = [sessions EXCEPT ![s] = Revoked(@)]
  /\ Becomes(r, Idle)
  /\ UNCHANGED <<now, users, links, tokens, uses, stranded>>

\* POST /tokens.
CreateToken(r) ==
  /\ At(r, "authenticated")
  /\ Becomes(r, [requests[r] EXCEPT !.pc = "issuing", !.kind = "token"])
  /\ UNCHANGED <<now, users, links, sessions, tokens, uses, stranded>>

-----------------------------------------------------------------------------
(* Registration and passwords *)

\* /register looks for the address first,
Register(r, u) ==
  /\ At(r, "idle") /\ ~Exists(u)
  /\ Becomes(r, [requests[r] EXCEPT !.pc = "registering", !.user = u])
  /\ UNCHANGED <<now, users, links, sessions, tokens, uses, stranded>>

\* and inserts after the password has been hashed, when the address may be taken.
CreateUser(r) ==
  LET u == requests[r].user
  IN /\ At(r, "registering")
     /\ IF Exists(u) THEN Becomes(r, Idle) /\ UNCHANGED users
        ELSE /\ users' = [users EXCEPT ![u] = [NoUser EXCEPT !.status = "active", !.password = TRUE]]
             /\ Becomes(r, [requests[r] EXCEPT !.pc = "issuing"])
     /\ UNCHANGED <<now, links, sessions, tokens, uses, stranded>>

\* POST /password: the current password is verified against a second read.
VerifyCurrent(r) ==
  /\ At(r, "authenticated")
  /\ Active(requests[r].user) /\ users[requests[r].user].password
  /\ Becomes(r, [requests[r] EXCEPT !.pc = "changing"])
  /\ UNCHANGED <<now, users, links, sessions, tokens, uses, stranded>>

\* revokeAllSessions of a user's sessions that expire later than others.
WithoutSessionsButOne(u, kept) ==
  [s \in Sessions |-> IF sessions[s].user = u /\ sessions[s].kind = "session" /\ s # kept
                      THEN Revoked(sessions[s]) ELSE sessions[s]]

\* revokeAllSessions, of kind "session".
WithoutSessions(u) ==
  [s \in Sessions |-> IF sessions[s].user = u /\ sessions[s].kind = "session"
                      THEN Revoked(sessions[s]) ELSE sessions[s]]

\* A setPassword that spares the session of the request.
SetPasswordSparing(r) ==
  LET u == requests[r].user
  IN /\ At(r, "changing") /\ Free /\ users[u].epoch < MaxChanges
     /\ users' = [users EXCEPT ![u] = [@ EXCEPT !.password = TRUE, !.epoch = users[u].epoch + 1]]
     /\ sessions' = WithoutSessionsButOne(u, requests[r].session)
     /\ Becomes(r, Idle)
     /\ UNCHANGED <<now, links, tokens, uses, stranded>>

\* setPassword: the hash and the revocations, in one transaction.
SetPassword(r) ==
  LET u == requests[r].user
  IN /\ At(r, "changing") /\ Free /\ users[u].epoch < MaxChanges
     /\ users' = [users EXCEPT ![u] = [@ EXCEPT !.password = TRUE, !.epoch = users[u].epoch + 1]]
     /\ sessions' = WithoutSessions(u)
     /\ Becomes(r, Idle)
     /\ UNCHANGED <<now, links, tokens, uses, stranded>>

\* POST /password-reset.
RequestReset(r, u) ==
  /\ At(r, "idle") /\ Active(u)
  /\ Becomes(r, On(r, "mailing", u))
  /\ UNCHANGED <<now, users, links, sessions, tokens, uses, stranded>>

IssueToken(r, t) ==
  /\ At(r, "mailing") /\ tokens[t].user = Nobody
  /\ tokens' = [tokens EXCEPT ![t] =
       [user |-> requests[r].user, expiresAt |-> now + TokenTtl, used |-> FALSE]]
  /\ Becomes(r, Idle)
  /\ UNCHANGED <<now, users, links, sessions, uses, stranded>>

\* consumeVerificationToken reads outside a transaction.
ConsumeOutside(r, t) ==
  /\ At(r, "idle")
  /\ tokens[t].user # Nobody /\ ~tokens[t].used /\ tokens[t].expiresAt > now
  /\ Becomes(r, [requests[r] EXCEPT !.pc = "consuming", !.token = t])
  /\ UNCHANGED <<now, users, links, sessions, tokens, uses, stranded>>

\* consumeVerificationToken: its transaction reads the token,
Consume(r, t) ==
  /\ At(r, "idle") /\ Free
  /\ tokens[t].user # Nobody /\ ~tokens[t].used /\ tokens[t].expiresAt > now
  /\ Becomes(r, [requests[r] EXCEPT !.pc = "consuming", !.token = t])
  /\ UNCHANGED <<now, users, links, sessions, tokens, uses, stranded>>

\* and marks it, by its id alone.  setPassword follows if the user is active.
MarkUsed(r) ==
  LET t == requests[r].token
      u == tokens[t].user
  IN /\ At(r, "consuming")
     /\ tokens' = [tokens EXCEPT ![t].used = TRUE]
     /\ uses' = [uses EXCEPT ![t] = @ + 1]
     /\ Becomes(r, IF Active(u) THEN [Idle EXCEPT !.pc = "changing", !.user = u] ELSE Idle)
     /\ UNCHANGED <<now, users, links, sessions, stranded>>

-----------------------------------------------------------------------------
(* Provider identities *)

\* resolveSocialUser, for an identity that is linked.
SocialLogin(r, i) ==
  /\ At(r, "idle") /\ Free
  /\ links[i] # Nobody /\ Active(links[i])
  /\ Becomes(r, On(r, "issuing", links[i]))
  /\ UNCHANGED <<now, users, links, sessions, tokens, uses, stranded>>

\* For one that is not, whose profile names an address that has a user.
SocialMatch(r, i, u, verified) ==
  /\ At(r, "idle") /\ Free
  /\ links[i] = Nobody /\ Active(u)
  /\ LinkPolicy # "never" /\ (LinkPolicy = "verified-email" => verified)
  /\ Becomes(r, [On(r, "linking", u) EXCEPT !.identity = i])
  /\ UNCHANGED <<now, users, links, sessions, tokens, uses, stranded>>

\* For one that matches nobody: a new user, at the profile's email or, without one,
\* at an address made from the identity (which is not looked for first).
SocialSignUp(r, i, address) ==
  /\ At(r, "idle") /\ Free
  /\ SignUp /\ links[i] = Nobody
  /\ address = i \/ (address \in Emails /\ ~Exists(address))
  /\ Becomes(r, [requests[r] EXCEPT !.pc = "signingUp", !.user = address, !.identity = i])
  /\ UNCHANGED <<now, users, links, sessions, tokens, uses, stranded>>

Linked(r) == [requests[r] EXCEPT !.pc = "issuing", !.identity = Nobody]

\* linkAccount; (provider, subject) is unique, and a violation rolls back.
LinkAccount(r) ==
  /\ At(r, "linking")
  /\ IF links[requests[r].identity] # Nobody THEN Becomes(r, Idle) /\ UNCHANGED links
     ELSE /\ links' = [links EXCEPT ![requests[r].identity] = requests[r].user]
          /\ Becomes(r, Linked(r))
  /\ UNCHANGED <<now, users, sessions, tokens, uses, stranded>>

\* A sign-up that does not roll the user back with the link.
SignUpHalf(r) ==
  LET u == requests[r].user
  IN /\ At(r, "signingUp")
     /\ users' = IF Exists(u) THEN users ELSE [users EXCEPT ![u] = [NoUser EXCEPT !.status = "active"]]
     /\ Becomes(r, Idle)
     /\ UNCHANGED <<now, links, sessions, tokens, uses, stranded>>

\* The user and its link are inserted together, or neither is.
SignUpUser(r) ==
  LET u == requests[r].user
      i == requests[r].identity
  IN /\ At(r, "signingUp")
     /\ IF Exists(u) \/ links[i] # Nobody THEN Becomes(r, Idle) /\ UNCHANGED <<users, links>>
        ELSE /\ users' = [users EXCEPT ![u] = [NoUser EXCEPT !.status = "active"]]
             /\ links' = [links EXCEPT ![i] = u]
             /\ Becomes(r, Linked(r))
     /\ UNCHANGED <<now, sessions, tokens, uses, stranded>>

LinksOf(u) == {i \in Identities : links[i] = u}

\* unlinkProvider counts the links that are left,
Unlink(r, u, provider) ==
  /\ At(r, "idle") /\ Free /\ Exists(u)
  /\ users[u].password \/ Cardinality(LinksOf(u)) > 1
  /\ Becomes(r, [requests[r] EXCEPT !.pc = "unlinking", !.user = u, !.provider = provider])
  /\ UNCHANGED <<now, users, links, sessions, tokens, uses, stranded>>

\* and deletes all of the provider's.
DeleteLinks(r) ==
  LET u == requests[r].user
      ended == {i \in LinksOf(u) : providerOf[i] = requests[r].provider}
  IN /\ At(r, "unlinking")
     /\ links' = [i \in Identities |-> IF i \in ended THEN Nobody ELSE links[i]]
     /\ stranded' = IF Cardinality(ended) > 1 /\ LinksOf(u) = ended /\ ~users[u].password
                    THEN stranded \cup {u} ELSE stranded \ {u}
     /\ Becomes(r, Idle)
     /\ UNCHANGED <<now, users, sessions, tokens, uses>>

-----------------------------------------------------------------------------
\* A query fails, onCreate throws or the process dies: what is committed stays.
Fails(r) ==
  /\ ~At(r, "idle")
  /\ Becomes(r, Idle)
  /\ UNCHANGED <<now, users, links, sessions, tokens, uses, stranded>>

\* The admin edits isActive.
SetActive(u, status) ==
  /\ Exists(u) /\ status # users[u].status
  /\ users' = [users EXCEPT ![u].status = status]
  /\ UNCHANGED <<now, links, sessions, tokens, requests, uses, stranded>>

Tick ==
  /\ now < Horizon
  /\ now' = now + 1
  /\ UNCHANGED <<users, links, sessions, tokens, requests, uses, stranded>>

AccountsInit ==
  /\ now = 0
  /\ users = [u \in Addresses |-> NoUser]
  /\ links = [i \in Identities |-> Nobody]
  /\ sessions = [s \in Sessions |-> NoSession]
  /\ tokens = [t \in Tokens |-> NoToken]
  /\ requests = [r \in Requests |-> Idle]
  /\ uses = [t \in Tokens |-> 0]
  /\ stranded = {}

SessionStep(r) ==
  \/ \E u \in Emails : Login(r, u)
  \/ \E s \in Sessions : IssueCredential(r, s) \/ Authenticate(r, s) \/ RevokeToken(r, s)
  \/ Logout(r) \/ CreateToken(r)

PasswordStep(r) ==
  \/ \E u \in Emails : Register(r, u)
  \/ \E u \in Emails : RequestReset(r, u)
  \/ \E t \in Tokens : IssueToken(r, t) \/ Consume(r, t)
  \/ CreateUser(r) \/ VerifyCurrent(r) \/ SetPassword(r) \/ MarkUsed(r)

SocialStep(r) ==
  \/ \E i \in Identities :
       \/ SocialLogin(r, i)
       \/ \E u \in Emails, verified \in BOOLEAN : SocialMatch(r, i, u, verified)
       \/ \E address \in Addresses : SocialSignUp(r, i, address)
  \/ \E u \in Addresses, provider \in Providers : Unlink(r, u, provider)
  \/ LinkAccount(r) \/ SignUpUser(r) \/ DeleteLinks(r)

AccountsNext ==
  \/ \E r \in Requests : SessionStep(r) \/ PasswordStep(r) \/ SocialStep(r) \/ Fails(r)
  \/ \E u \in Addresses, status \in {"active", "inactive"} : SetActive(u, status)
  \/ Tick

AccountsSpec == AccountsInit /\ [][AccountsNext]_accountsVars

-----------------------------------------------------------------------------
(* Properties *)

AccountsTypeOK ==
  /\ now \in Nat
  /\ users \in [Addresses -> User]
  /\ links \in [Identities -> Addresses \cup {Nobody}]
  /\ sessions \in [Sessions -> Session]
  /\ tokens \in [Tokens -> Token]
  /\ requests \in [Requests -> Request]
  /\ uses \in [Tokens -> Nat]
  /\ stranded \subseteq Addresses

\* setPassword signs a user out everywhere: a browser session that still works was
\* issued on the password of today, whatever requests were in flight, unless its own
\* request had read the user before the change and wrote the session after it.
SessionsFollowPassword == \A s \in Sessions :
  LET row == sessions[s]
  IN  row.user # Nobody /\ row.kind = "session" /\ ~row.revoked /\ ~row.raced =>
        row.born = users[row.user].epoch

\* consumeVerificationToken: on SQLite a token is accepted once, however many requests
\* present it at the same time.
TokensUsedOnce == Serializable => \A t \in Tokens : uses[t] <= 1

\* On SQLite neither sign-ups that fail halfway nor unlinks leave a user without both a
\* password and a link, but for an unlink that ends the last links of a provider of which
\* the user had several: they are counted one by one and deleted together.
KeepsAWayIn == Serializable =>
  \A u \in Addresses : Exists(u) => users[u].password \/ LinksOf(u) # {} \/ u \in stranded

\* What unlinkProvider's comment says: it refuses to remove the last way in.
RefusesLastWayIn == Serializable =>
  \A u \in Addresses : Exists(u) => users[u].password \/ LinksOf(u) # {}

-----------------------------------------------------------------------------
(* Inductive strengthenings *)

\* Whatever a request at work refers to exists,
WithUser == {"issuing", "authenticated", "changing", "mailing", "linking"}
RequestGrounded(r) ==
  /\ requests[r].pc \in WithUser => requests[r].user \in Addresses /\ Exists(requests[r].user)
  /\ requests[r].pc \in {"registering", "signingUp", "unlinking"} => requests[r].user \in Addresses
  /\ requests[r].pc = "consuming" =>
       requests[r].token \in Tokens /\ tokens[requests[r].token].user # Nobody

\* and so does whatever a row or a link refers to.
RowsGrounded ==
  /\ \A s \in Sessions : sessions[s].user # Nobody => Exists(sessions[s].user)
  /\ \A t \in Tokens : tokens[t].user # Nobody => Exists(tokens[t].user)
  /\ \A i \in Identities : links[i] # Nobody => Exists(links[i])

Grounded == RowsGrounded /\ \A r \in Requests : RequestGrounded(r)

\* atomic() lets one transaction in at a time.
OneTransaction == Serializable =>
  \A q, r \in Requests : InTransaction(q) /\ InTransaction(r) => q = r

\* An accepted token is marked, and one about to be accepted is not.
TokensCounted == Serializable =>
  /\ \A t \in Tokens : /\ tokens[t].used => tokens[t].user # Nobody
                       /\ uses[t] = 0 \/ (uses[t] = 1 /\ tokens[t].used)
  /\ \A r \in Requests : At(r, "consuming") => ~tokens[requests[r].token].used
=============================================================================
