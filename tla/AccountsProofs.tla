--------------------------- MODULE AccountsProofs ---------------------------
(* Theorems about Accounts, for any number of users, sessions and requests. *)
EXTENDS Accounts, FiniteSetTheorems, TLAPS

-----------------------------------------------------------------------------
(* Types *)

LEMMA OnType ==
  ASSUME AccountsTypeOK, NEW r \in Requests, NEW u \in Addresses,
         NEW pc \in {"issuing", "authenticated", "mailing", "linking"}
  PROVE  On(r, pc, u) \in Request
<1>1. users[u].epoch \in Nat
  BY DEF AccountsTypeOK, User
<1>2. QED
  BY <1>1 DEF AccountsTypeOK, On, Request

\* Steps of a request that leave the tables alone.
Reads(r) ==
  \/ \E u \in Emails : Login(r, u) \/ Register(r, u) \/ RequestReset(r, u)
  \/ \E s \in Sessions : Authenticate(r, s)
  \/ \E t \in Tokens : Consume(r, t)
  \/ \E i \in Identities :
       \/ SocialLogin(r, i)
       \/ \E u \in Emails, verified \in BOOLEAN : SocialMatch(r, i, u, verified)
       \/ \E address \in Addresses : SocialSignUp(r, i, address)
  \/ \E u \in Addresses, provider \in Providers : Unlink(r, u, provider)
  \/ CreateToken(r) \/ VerifyCurrent(r) \/ Fails(r)

\* Steps of a request that write.
Writes(r) ==
  \/ \E s \in Sessions : IssueCredential(r, s) \/ RevokeToken(r, s)
  \/ \E t \in Tokens : IssueToken(r, t)
  \/ Logout(r) \/ CreateUser(r) \/ SetPassword(r) \/ MarkUsed(r)
  \/ LinkAccount(r) \/ SignUpUser(r) \/ DeleteLinks(r)

LEMMA NextSplits ==
  ASSUME AccountsNext
  PROVE  \/ \E r \in Requests : Reads(r) \/ Writes(r)
         \/ \E u \in Addresses, status \in {"active", "inactive"} : SetActive(u, status)
         \/ Tick
BY DEF AccountsNext, SessionStep, PasswordStep, SocialStep, Reads, Writes

\* A reading step keeps the tables, and what the request becomes is well formed.
LEMMA ReadsType ==
  ASSUME AccountsTypeOK, NEW r \in Requests, Reads(r)
  PROVE  /\ UNCHANGED <<now, users, links, sessions, tokens, uses, stranded>>
         /\ \E next \in Request : requests' = [requests EXCEPT ![r] = next]
<1>. requests[r] \in Request
  BY DEF AccountsTypeOK
<1>. USE AccountConstants
<1>1. ASSUME NEW u \in Emails, Login(r, u) \/ Register(r, u) \/ RequestReset(r, u)
      PROVE  \E next \in Request : requests' = [requests EXCEPT ![r] = next]
  <2>1. u \in Addresses
    BY DEF Addresses
  <2>2. On(r, "issuing", u) \in Request /\ On(r, "mailing", u) \in Request
    BY <2>1, OnType
  <2>3. [requests[r] EXCEPT !.pc = "registering", !.user = u] \in Request
    BY <2>1 DEF Request
  <2>4. QED
    BY <1>1, <2>2, <2>3 DEF Login, Register, RequestReset, Becomes
<1>2. ASSUME NEW s \in Sessions, Authenticate(r, s)
      PROVE  \E next \in Request : requests' = [requests EXCEPT ![r] = next]
  <2>1. sessions[s].user \in Addresses
    BY <1>2 DEF Authenticate, Usable, AccountsTypeOK, Session
  <2>2. On(r, "authenticated", sessions[s].user) \in Request
    BY <2>1, OnType
  <2>3. [On(r, "authenticated", sessions[s].user) EXCEPT !.session = s] \in Request
    BY <2>2 DEF Request
  <2>4. QED
    BY <1>2, <2>3 DEF Authenticate, Becomes
<1>3. ASSUME NEW t \in Tokens, Consume(r, t)
      PROVE  \E next \in Request : requests' = [requests EXCEPT ![r] = next]
  <2>1. [requests[r] EXCEPT !.pc = "consuming", !.token = t] \in Request
    BY DEF Request
  <2>2. QED
    BY <1>3, <2>1 DEF Consume, Becomes
<1>4. ASSUME NEW i \in Identities,
             \/ SocialLogin(r, i)
             \/ \E u \in Emails, verified \in BOOLEAN : SocialMatch(r, i, u, verified)
             \/ \E address \in Addresses : SocialSignUp(r, i, address)
      PROVE  \E next \in Request : requests' = [requests EXCEPT ![r] = next]
  <2>1. ASSUME SocialLogin(r, i)
        PROVE  \E next \in Request : requests' = [requests EXCEPT ![r] = next]
    <3>1. links[i] \in Addresses
      BY <2>1 DEF SocialLogin, AccountsTypeOK
    <3>2. On(r, "issuing", links[i]) \in Request
      BY <3>1, OnType
    <3>3. QED
      BY <2>1, <3>2 DEF SocialLogin, Becomes
  <2>2. ASSUME NEW u \in Emails, NEW verified \in BOOLEAN, SocialMatch(r, i, u, verified)
        PROVE  \E next \in Request : requests' = [requests EXCEPT ![r] = next]
    <3>1. On(r, "linking", u) \in Request
      BY OnType DEF Addresses
    <3>2. [On(r, "linking", u) EXCEPT !.identity = i] \in Request
      BY <3>1 DEF Request
    <3>3. QED
      BY <2>2, <3>2 DEF SocialMatch, Becomes
  <2>3. ASSUME NEW address \in Addresses, SocialSignUp(r, i, address)
        PROVE  \E next \in Request : requests' = [requests EXCEPT ![r] = next]
    <3>1. [requests[r] EXCEPT !.pc = "signingUp", !.user = address, !.identity = i] \in Request
      BY DEF Request
    <3>2. QED
      BY <2>3, <3>1 DEF SocialSignUp, Becomes
  <2>4. QED
    BY <1>4, <2>1, <2>2, <2>3
<1>5. ASSUME NEW u \in Addresses, NEW provider \in Providers, Unlink(r, u, provider)
      PROVE  \E next \in Request : requests' = [requests EXCEPT ![r] = next]
  <2>1. [requests[r] EXCEPT !.pc = "unlinking", !.user = u, !.provider = provider] \in Request
    BY DEF Request
  <2>2. QED
    BY <1>5, <2>1 DEF Unlink, Becomes
<1>6. ASSUME CreateToken(r) \/ VerifyCurrent(r) \/ Fails(r)
      PROVE  \E next \in Request : requests' = [requests EXCEPT ![r] = next]
  <2>1. /\ [requests[r] EXCEPT !.pc = "issuing", !.kind = "token"] \in Request
        /\ [requests[r] EXCEPT !.pc = "changing"] \in Request /\ Idle \in Request
    BY DEF Request, Idle
  <2>2. QED
    BY <1>6, <2>1 DEF CreateToken, VerifyCurrent, Fails, Becomes
<1>7. UNCHANGED <<now, users, links, sessions, tokens, uses, stranded>>
  BY DEF Reads, Login, Register, RequestReset, Authenticate, Consume, SocialLogin, SocialMatch,
         SocialSignUp, Unlink, CreateToken, VerifyCurrent, Fails
<1>8. QED
  BY <1>1, <1>2, <1>3, <1>4, <1>5, <1>6, <1>7 DEF Reads

\* A writing step, too, leaves a well-formed request.
LEMMA WritesRequests ==
  ASSUME AccountsTypeOK, Grounded, NEW r \in Requests, Writes(r)
  PROVE  \E next \in Request : requests' = [requests EXCEPT ![r] = next]
<1>1. requests[r] \in Request
  BY DEF AccountsTypeOK
<1>2. /\ Idle \in Request /\ Linked(r) \in Request
      /\ [requests[r] EXCEPT !.pc = "issuing"] \in Request
  BY <1>1 DEF Request, Idle, Linked
<1>3. ASSUME MarkUsed(r)
      PROVE  \E next \in Request : requests' = [requests EXCEPT ![r] = next]
  <2>1. tokens[requests[r].token].user \in Addresses
    BY <1>3 DEF MarkUsed, Grounded, RequestGrounded, At, AccountsTypeOK, Token
  <2>2. [Idle EXCEPT !.pc = "changing", !.user = tokens[requests[r].token].user] \in Request
    BY <1>2, <2>1 DEF Request
  <2>3. QED
    BY <1>2, <1>3, <2>2 DEF MarkUsed, Becomes
<1>4. CASE ~MarkUsed(r)
  BY <1>2, <1>4 DEF Writes, IssueCredential, RevokeToken, IssueToken, Logout, CreateUser,
                    SetPassword, LinkAccount, SignUpUser, DeleteLinks, Becomes
<1>5. QED
  BY <1>3, <1>4

\* What setPassword writes to the user.
LEMMA SetPasswordUsers ==
  ASSUME AccountsTypeOK, Grounded, NEW r \in Requests, SetPassword(r)
  PROVE  \E row \in User :
           /\ users' = [users EXCEPT ![requests[r].user] = row]
           /\ row.status = users[requests[r].user].status
<1>. DEFINE u == requests[r].user
            row == [users[u] EXCEPT !.password = TRUE, !.epoch = users[u].epoch + 1]
<1>1. u \in Addresses
  BY DEF SetPassword, Grounded, RequestGrounded, At, WithUser
<1>2. users[u] \in User /\ users[u].epoch + 1 \in Nat
  BY <1>1 DEF AccountsTypeOK, User
<1>3. row \in User /\ row.status = users[u].status
  BY <1>2 DEF User
<1>4. users' = [users EXCEPT ![u] = row]
  BY <1>1 DEF SetPassword, AccountsTypeOK
<1>5. QED
  BY <1>3, <1>4

\* What the consumption of a token writes.
LEMMA MarkUsedRows ==
  ASSUME AccountsTypeOK, Grounded, NEW r \in Requests, MarkUsed(r)
  PROVE  \E t \in Tokens :
           /\ t = requests[r].token
           /\ tokens' = [tokens EXCEPT ![t] = [tokens[t] EXCEPT !.used = TRUE]]
           /\ uses' = [uses EXCEPT ![t] = uses[t] + 1]
<1>1. requests[r].token \in Tokens
  BY DEF MarkUsed, Grounded, RequestGrounded, At
<1>2. QED
  BY <1>1 DEF MarkUsed, AccountsTypeOK

LEMMA WritesTables ==
  ASSUME AccountsTypeOK, Grounded, NEW r \in Requests, Writes(r)
  PROVE  /\ now' \in Nat
         /\ users' \in [Addresses -> User]
         /\ links' \in [Identities -> Addresses \cup {Nobody}]
         /\ sessions' \in [Sessions -> Session]
         /\ tokens' \in [Tokens -> Token]
         /\ uses' \in [Tokens -> Nat]
         /\ stranded' \subseteq Addresses
<1>. USE AccountConstants
<1>. requests[r] \in Request
  BY DEF AccountsTypeOK
<1>. DEFINE TablesOK == /\ now' \in Nat
                        /\ users' \in [Addresses -> User]
                        /\ links' \in [Identities -> Addresses \cup {Nobody}]
                        /\ sessions' \in [Sessions -> Session]
                        /\ tokens' \in [Tokens -> Token]
                        /\ uses' \in [Tokens -> Nat]
                        /\ stranded' \subseteq Addresses
<1>1. ASSUME NEW s \in Sessions, IssueCredential(r, s) PROVE TablesOK
  <2>1. requests[r].user \in Addresses \cup {Nobody} /\ requests[r].epoch \in Nat
        /\ requests[r].kind \in {"session", "token"}
    BY DEF Request
  <2>2. {now + SessionTtl} \cup (IF requests[r].kind = "token" THEN {Forever} ELSE {})
          \subseteq Nat \cup {Forever}
    BY DEF AccountsTypeOK
  <2>3. PICK expiresAt \in Nat \cup {Forever} :
          sessions' = [sessions EXCEPT ![s] =
            [user |-> requests[r].user, kind |-> requests[r].kind, expiresAt |-> expiresAt,
             revoked |-> FALSE, born |-> requests[r].epoch,
             raced |-> requests[r].epoch # users[requests[r].user].epoch]]
    BY <1>1, <2>2, Zenon DEF IssueCredential
  <2>4. sessions' \in [Sessions -> Session]
    BY <2>1, <2>3 DEF AccountsTypeOK, Session
  <2>5. QED
    BY <1>1, <2>4 DEF IssueCredential, AccountsTypeOK
<1>2. ASSUME Logout(r) \/ \E s \in Sessions : RevokeToken(r, s) PROVE TablesOK
  <2>1. \A row \in Session : Revoked(row) \in Session
    BY DEF Revoked, Session
  <2>2. QED
    BY <1>2, <2>1 DEF Logout, RevokeToken, AccountsTypeOK
<1>3. ASSUME CreateUser(r) PROVE TablesOK
  <2>1. [NoUser EXCEPT !.status = "active", !.password = TRUE] \in User
    BY DEF NoUser, User
  <2>2. QED
    BY <1>3, <2>1 DEF CreateUser, AccountsTypeOK
<1>4. ASSUME SetPassword(r) PROVE TablesOK
  <2>1. users' \in [Addresses -> User]
    BY <1>4, SetPasswordUsers DEF AccountsTypeOK
  <2>2. WithoutSessions(requests[r].user) \in [Sessions -> Session]
    BY DEF WithoutSessions, Revoked, AccountsTypeOK, Session
  <2>3. QED
    BY <1>4, <2>1, <2>2 DEF SetPassword, AccountsTypeOK
<1>5. ASSUME NEW t \in Tokens, IssueToken(r, t) PROVE TablesOK
  <2>1. [user |-> requests[r].user, expiresAt |-> now + TokenTtl, used |-> FALSE] \in Token
    BY DEF Token, Request, AccountsTypeOK
  <2>2. QED
    BY <1>5, <2>1 DEF IssueToken, AccountsTypeOK
<1>6. ASSUME MarkUsed(r) PROVE TablesOK
  <2>1. tokens' \in [Tokens -> Token] /\ uses' \in [Tokens -> Nat]
    <3>1. PICK t \in Tokens : /\ tokens' = [tokens EXCEPT ![t] = [tokens[t] EXCEPT !.used = TRUE]]
                              /\ uses' = [uses EXCEPT ![t] = uses[t] + 1]
      BY <1>6, MarkUsedRows
    <3>2. tokens[t] \in Token /\ uses[t] \in Nat
      BY DEF AccountsTypeOK
    <3>3. [tokens[t] EXCEPT !.used = TRUE] \in Token
      BY <3>2 DEF Token
    <3>4. QED
      BY <3>1, <3>2, <3>3 DEF AccountsTypeOK
  <2>2. QED
    BY <1>6, <2>1 DEF MarkUsed, AccountsTypeOK
<1>7. ASSUME LinkAccount(r) \/ DeleteLinks(r) PROVE TablesOK
  <2>1. requests[r].user \in Addresses \cup {Nobody}
    BY DEF Request
  <2>2. CASE LinkAccount(r)
    BY <2>1, <2>2 DEF LinkAccount, AccountsTypeOK
  <2>3. CASE DeleteLinks(r)
    <3>1. requests[r].user \in Addresses
      BY <2>3 DEF DeleteLinks, At, Grounded, RequestGrounded
    <3>2. stranded' \in {stranded \cup {requests[r].user}, stranded \ {requests[r].user}}
      BY <2>3 DEF DeleteLinks
    <3>3. UNCHANGED <<now, users, sessions, tokens, uses>>
      BY <2>3 DEF DeleteLinks
    <3>4. links' \in [Identities -> Addresses \cup {Nobody}]
      BY <2>3 DEF DeleteLinks, AccountsTypeOK
    <3>5. QED
      BY <3>1, <3>2, <3>3, <3>4 DEF AccountsTypeOK
  <2>4. QED
    BY <1>7, <2>2, <2>3
<1>8. ASSUME SignUpUser(r) PROVE TablesOK
  <2>1. [NoUser EXCEPT !.status = "active"] \in User /\ requests[r].user \in Addresses \cup {Nobody}
    BY DEF NoUser, User, Request
  <2>2. QED
    BY <1>8, <2>1 DEF SignUpUser, AccountsTypeOK
<1>9. QED
  BY <1>1, <1>2, <1>3, <1>4, <1>5, <1>6, <1>7, <1>8 DEF Writes

LEMMA SetActiveType ==
  ASSUME AccountsTypeOK, NEW u \in Addresses, NEW status \in {"active", "inactive"}, SetActive(u, status)
  PROVE  /\ users' \in [Addresses -> User]
         /\ users' = [users EXCEPT ![u] = [users[u] EXCEPT !.status = status]]
<1>1. users' = [users EXCEPT ![u] = [users[u] EXCEPT !.status = status]]
  BY DEF SetActive, AccountsTypeOK
<1>2. [users[u] EXCEPT !.status = status] \in User
  BY DEF AccountsTypeOK, User
<1>3. QED
  BY <1>1, <1>2 DEF AccountsTypeOK

LEMMA TypeStep ==
  ASSUME AccountsTypeOK, Grounded, [AccountsNext]_accountsVars
  PROVE  AccountsTypeOK'
<1>1. ASSUME NEW r \in Requests, Reads(r) PROVE AccountsTypeOK'
  BY <1>1, ReadsType DEF AccountsTypeOK
<1>2. ASSUME NEW r \in Requests, Writes(r) PROVE AccountsTypeOK'
  BY <1>2, WritesRequests, WritesTables DEF AccountsTypeOK
<1>3. ASSUME NEW u \in Addresses, NEW status \in {"active", "inactive"}, SetActive(u, status)
      PROVE  AccountsTypeOK'
  BY <1>3, SetActiveType DEF AccountsTypeOK, SetActive
<1>4. CASE Tick
  BY <1>4 DEF Tick, AccountsTypeOK
<1>5. CASE UNCHANGED accountsVars
  BY <1>5 DEF accountsVars, AccountsTypeOK
<1>6. QED
  BY <1>1, <1>2, <1>3, <1>4, <1>5, NextSplits

-----------------------------------------------------------------------------
(* Nothing refers to what does not exist *)

LEMMA UsersStay ==
  ASSUME AccountsTypeOK, Grounded, [AccountsNext]_accountsVars, NEW u \in Addresses, Exists(u)
  PROVE  Exists(u)'
<1>1. ASSUME NEW r \in Requests, Writes(r) PROVE Exists(u)'
  <2>1. CASE CreateUser(r)
    BY <2>1 DEF CreateUser, Exists, AccountsTypeOK
  <2>2. CASE SignUpUser(r)
    BY <2>2 DEF SignUpUser, Exists, AccountsTypeOK
  <2>3. CASE SetPassword(r)
    <3>1. PICK row \in User : /\ users' = [users EXCEPT ![requests[r].user] = row]
                              /\ row.status = users[requests[r].user].status
      BY <2>3, SetPasswordUsers
    <3>2. QED
      BY <3>1 DEF Exists, AccountsTypeOK
  <2>4. CASE ~CreateUser(r) /\ ~SignUpUser(r) /\ ~SetPassword(r)
    <3>1. users' = users
      BY <1>1, <2>4 DEF Writes, IssueCredential, RevokeToken, IssueToken, Logout, MarkUsed,
                        LinkAccount, DeleteLinks
    <3>2. QED
      BY <3>1 DEF Exists
  <2>5. QED
    BY <2>1, <2>2, <2>3, <2>4
<1>2. ASSUME NEW v \in Addresses, NEW status \in {"active", "inactive"}, SetActive(v, status)
      PROVE  Exists(u)'
  <2>1. users' = [users EXCEPT ![v] = [users[v] EXCEPT !.status = status]]
    BY <1>2, SetActiveType
  <2>2. users[v] \in User
    BY DEF AccountsTypeOK
  <2>3. [users[v] EXCEPT !.status = status].status = status
    BY <2>2 DEF User
  <2>4. QED
    BY <2>1, <2>3 DEF Exists, AccountsTypeOK
<1>3. ASSUME \/ \E r \in Requests : Reads(r)
             \/ Tick \/ UNCHANGED accountsVars
      PROVE  Exists(u)'
  <2>1. users' = users
    BY <1>3, ReadsType DEF Tick, accountsVars
  <2>2. QED
    BY <2>1 DEF Exists
<1>4. QED
  BY <1>1, <1>2, <1>3, NextSplits

\* A row in use stays in use, by the same user.
LEMMA RowsStay ==
  ASSUME AccountsTypeOK, Grounded, [AccountsNext]_accountsVars, NEW t \in Tokens, tokens[t].user # Nobody
  PROVE  tokens'[t].user = tokens[t].user
<1>1. ASSUME NEW r \in Requests, Writes(r) PROVE tokens'[t].user = tokens[t].user
  <2>1. CASE MarkUsed(r)
    <3>1. PICK x \in Tokens : tokens' = [tokens EXCEPT ![x] = [tokens[x] EXCEPT !.used = TRUE]]
      BY <2>1, MarkUsedRows
    <3>2. tokens[x] \in Token
      BY DEF AccountsTypeOK
    <3>3. [tokens[x] EXCEPT !.used = TRUE].user = tokens[x].user
      BY <3>2 DEF Token
    <3>4. QED
      BY <3>1, <3>3 DEF AccountsTypeOK
  <2>2. ASSUME NEW x \in Tokens, IssueToken(r, x) PROVE tokens'[t].user = tokens[t].user
    BY <2>2 DEF IssueToken, AccountsTypeOK
  <2>3. CASE ~MarkUsed(r) /\ ~\E x \in Tokens : IssueToken(r, x)
    BY <1>1, <2>3 DEF Writes, IssueCredential, RevokeToken, Logout, CreateUser, SetPassword,
                      LinkAccount, SignUpUser, DeleteLinks
  <2>4. QED
    BY <2>1, <2>2, <2>3
<1>2. ASSUME \/ \E r \in Requests : Reads(r)
             \/ \E u \in Addresses, status \in {"active", "inactive"} : SetActive(u, status)
             \/ Tick \/ UNCHANGED accountsVars
      PROVE  tokens'[t].user = tokens[t].user
  BY <1>2, ReadsType DEF SetActive, Tick, accountsVars
<1>3. QED
  BY <1>1, <1>2, NextSplits

LEMMA RowsGroundedStep ==
  ASSUME AccountsTypeOK, AccountsTypeOK', Grounded, [AccountsNext]_accountsVars
  PROVE  RowsGrounded'
<1>. USE AccountConstants
<1>1. \A u \in Addresses : Exists(u) => Exists(u)'
  BY UsersStay
<1>2. ASSUME NEW s \in Sessions, sessions'[s].user # Nobody
      PROVE  \E u \in Addresses : u = sessions'[s].user /\ Exists(u)'
  <2>1. CASE sessions'[s].user = sessions[s].user
    <3>1. sessions[s].user \in Addresses
      BY <1>2, <2>1 DEF AccountsTypeOK, Session
    <3>2. PICK u \in Addresses : u = sessions[s].user
      BY <3>1
    <3>3. Exists(u)'
      BY <1>1, <1>2, <2>1, <3>2 DEF Grounded, RowsGrounded
    <3>4. QED
      BY <2>1, <3>2, <3>3
  <2>2. ASSUME NEW r \in Requests, IssueCredential(r, s)
        PROVE  \E u \in Addresses : u = sessions'[s].user /\ Exists(u)'
    <3>1. PICK u \in Addresses : u = requests[r].user /\ Exists(u)
      BY <2>2 DEF IssueCredential, At, Grounded, RequestGrounded, WithUser
    <3>2. sessions'[s].user = u
      BY <2>2, <3>1 DEF IssueCredential, AccountsTypeOK
    <3>3. Exists(u)'
      BY <1>1, <3>1
    <3>4. QED
      BY <3>1, <3>2, <3>3
  <2>3. CASE ~\E r \in Requests : IssueCredential(r, s)
    <3>1. ASSUME NEW r \in Requests, Writes(r) PROVE sessions'[s].user = sessions[s].user
      <4>1. ASSUME NEW x \in Sessions, IssueCredential(r, x)
            PROVE  sessions'[s].user = sessions[s].user
        <5>1. x # s
          BY <2>3, <4>1
        <5>2. QED
          BY <4>1, <5>1 DEF IssueCredential, AccountsTypeOK
      <4>2. CASE Logout(r) \/ \E x \in Sessions : RevokeToken(r, x)
        <5>1. \A row \in Session : Revoked(row).user = row.user
          BY DEF Revoked, Session
        <5>2. QED
          BY <4>2, <5>1 DEF Logout, RevokeToken, AccountsTypeOK
      <4>3. CASE SetPassword(r)
        <5>1. \A row \in Session : Revoked(row).user = row.user
          BY DEF Revoked, Session
        <5>2. QED
          BY <4>3, <5>1 DEF SetPassword, WithoutSessions, AccountsTypeOK
      <4>4. CASE sessions' = sessions
        BY <4>4
      <4>5. QED
        BY <3>1, <4>1, <4>2, <4>3, <4>4 DEF Writes, IssueToken, CreateUser, MarkUsed, LinkAccount,
                                       SignUpUser, DeleteLinks
    <3>2. ASSUME \/ \E r \in Requests : Reads(r)
                 \/ \E u \in Addresses, status \in {"active", "inactive"} : SetActive(u, status)
                 \/ Tick \/ UNCHANGED accountsVars
          PROVE  sessions'[s].user = sessions[s].user
      BY <3>2, ReadsType DEF SetActive, Tick, accountsVars
    <3>3. QED
      BY <2>1, <3>1, <3>2, NextSplits
  <2>4. QED
    BY <2>2, <2>3
<1>3. ASSUME NEW t \in Tokens, tokens'[t].user # Nobody
      PROVE  \E u \in Addresses : u = tokens'[t].user /\ Exists(u)'
  <2>1. PICK u \in Addresses : u = tokens'[t].user
    BY <1>3 DEF AccountsTypeOK, Token
  <2>2. Exists(u)
    <3>1. CASE tokens[t].user # Nobody
      BY <2>1, <3>1, RowsStay DEF Grounded, RowsGrounded
    <3>2. CASE tokens[t].user = Nobody
      <4>1. ASSUME NEW r \in Requests, IssueToken(r, t) PROVE Exists(u)
        BY <2>1, <4>1 DEF IssueToken, AccountsTypeOK, At, Grounded, RequestGrounded, WithUser
      <4>2. CASE ~\E r \in Requests : IssueToken(r, t)
        <5>1. ASSUME NEW r \in Requests, Writes(r) PROVE tokens'[t].user = Nobody
          <6>1. CASE MarkUsed(r)
            <7>1. PICK x \in Tokens :
                    /\ tokens' = [tokens EXCEPT ![x] = [tokens[x] EXCEPT !.used = TRUE]]
              BY <6>1, MarkUsedRows
            <7>2. tokens[x] \in Token
              BY DEF AccountsTypeOK
            <7>3. [tokens[x] EXCEPT !.used = TRUE].user = tokens[x].user
              BY <7>2 DEF Token
            <7>4. QED
              BY <3>2, <7>1, <7>3 DEF AccountsTypeOK
          <6>2. ASSUME NEW x \in Tokens, IssueToken(r, x) PROVE tokens'[t].user = Nobody
            <7>1. x # t
              BY <4>2, <6>2
            <7>2. QED
              BY <3>2, <6>2, <7>1 DEF IssueToken, AccountsTypeOK
          <6>3. CASE tokens' = tokens
            BY <3>2, <6>3
          <6>4. QED
            BY <5>1, <6>1, <6>2, <6>3 DEF Writes, IssueCredential, RevokeToken, Logout, CreateUser,
                                     SetPassword, LinkAccount, SignUpUser, DeleteLinks
        <5>2. ASSUME \/ \E r \in Requests : Reads(r)
                     \/ \E v \in Addresses, status \in {"active", "inactive"} : SetActive(v, status)
                     \/ Tick \/ UNCHANGED accountsVars
              PROVE  tokens'[t].user = Nobody
          BY <3>2, <5>2, ReadsType DEF SetActive, Tick, accountsVars
        <5>3. QED
          BY <1>3, <5>1, <5>2, NextSplits
      <4>3. QED
        BY <4>1, <4>2
    <3>3. QED
      BY <3>1, <3>2
  <2>3. Exists(u)'
    BY <1>1, <2>2
  <2>4. QED
    BY <2>1, <2>3
<1>4. ASSUME NEW i \in Identities, links'[i] # Nobody
      PROVE  \E u \in Addresses : u = links'[i] /\ Exists(u)'
  <2>1. PICK u \in Addresses : u = links'[i]
    BY <1>4 DEF AccountsTypeOK
  <2>2. Exists(u)'
    <3>1. CASE links[i] = u
      BY <1>1, <1>4, <2>1, <3>1 DEF Grounded, RowsGrounded, Exists
    <3>2. ASSUME NEW r \in Requests, LinkAccount(r), links[i] # u PROVE Exists(u)'
      <4>1. requests[r].user \in Addresses /\ Exists(requests[r].user)
        BY <3>2 DEF LinkAccount, At, Grounded, RequestGrounded, WithUser
      <4>2. u = requests[r].user
        BY <2>1, <3>2 DEF LinkAccount, AccountsTypeOK
      <4>3. QED
        BY <1>1, <4>1, <4>2
    <3>3. ASSUME NEW r \in Requests, SignUpUser(r), links[i] # u PROVE Exists(u)'
      <4>1. u = requests[r].user
        BY <2>1, <3>3 DEF SignUpUser, AccountsTypeOK
      <4>2. users' = [users EXCEPT ![u] = [NoUser EXCEPT !.status = "active"]]
        BY <2>1, <3>3, <4>1 DEF SignUpUser
      <4>3. [NoUser EXCEPT !.status = "active"].status = "active"
        BY DEF NoUser
      <4>4. QED
        BY <4>2, <4>3 DEF Exists, AccountsTypeOK
    <3>4. ASSUME NEW r \in Requests, DeleteLinks(r) PROVE links[i] = u
      BY <1>4, <2>1, <3>4 DEF DeleteLinks
    <3>5. ASSUME NEW r \in Requests, Writes(r) PROVE Exists(u)'
      <4>1. CASE links' = links
        BY <2>1, <3>1, <4>1
      <4>2. QED
        BY <3>1, <3>2, <3>3, <3>4, <3>5, <4>1
           DEF Writes, IssueCredential, RevokeToken, IssueToken, Logout, CreateUser, SetPassword, MarkUsed
    <3>6. ASSUME \/ \E r \in Requests : Reads(r)
                 \/ \E v \in Addresses, status \in {"active", "inactive"} : SetActive(v, status)
                 \/ Tick \/ UNCHANGED accountsVars
          PROVE  Exists(u)'
      <4>1. links' = links
        BY <3>6, ReadsType DEF SetActive, Tick, accountsVars
      <4>2. QED
        BY <2>1, <3>1, <4>1
    <3>7. QED
      BY <3>5, <3>6, NextSplits
  <2>3. QED
    BY <2>1, <2>2
<1>5. QED
  BY <1>2, <1>3, <1>4 DEF RowsGrounded, Exists

\* A request that has not moved is still about what exists.
LEMMA StillGrounded ==
  ASSUME AccountsTypeOK, Grounded, [AccountsNext]_accountsVars, NEW q \in Requests, requests'[q] = requests[q]
  PROVE  RequestGrounded(q)'
<1>. USE AccountConstants
<1>1. RequestGrounded(q)
  BY DEF Grounded
<1>2. ASSUME requests[q].pc \in WithUser
      PROVE  requests[q].user \in Addresses /\ \E u \in Addresses : u = requests[q].user /\ Exists(u)'
  BY <1>1, <1>2, UsersStay DEF RequestGrounded
<1>3. ASSUME requests[q].pc = "consuming"
      PROVE  \E t \in Tokens : t = requests[q].token /\ tokens'[t].user # Nobody
  BY <1>1, <1>3, RowsStay DEF RequestGrounded
<1>4. QED
  BY <1>1, <1>2, <1>3 DEF RequestGrounded, Exists

\* One that moves for a user, or ends.
LEMMA MovedGrounded ==
  ASSUME AccountsTypeOK, Grounded, [AccountsNext]_accountsVars, NEW q \in Requests, NEW u \in Addresses,
         requests'[q].user = u, requests'[q].pc # "consuming",
         requests'[q].pc \in WithUser => Exists(u)
  PROVE  RequestGrounded(q)'
<1>1. Exists(u) => Exists(u)'
  BY UsersStay
<1>2. QED
  BY <1>1 DEF RequestGrounded, Exists

LEMMA ReadsGrounded ==
  ASSUME AccountsTypeOK, Grounded, [AccountsNext]_accountsVars, NEW q \in Requests, Reads(q)
  PROVE  RequestGrounded(q)'
<1>. USE AccountConstants
<1>. requests[q] \in Request /\ requests \in [Requests -> Request] /\ RequestGrounded(q)
  BY DEF AccountsTypeOK, Grounded
<1>1. ASSUME NEW u \in Emails, Login(q, u) \/ Register(q, u) \/ RequestReset(q, u)
      PROVE  RequestGrounded(q)'
  <2>1. u \in Addresses
    BY DEF Addresses
  <2>2. CASE Login(q, u) \/ RequestReset(q, u)
    <3>1. Exists(u)
      BY <2>2 DEF Login, RequestReset, Active, Exists
    <3>2. /\ On(q, "issuing", u).user = u /\ On(q, "issuing", u).pc = "issuing"
          /\ On(q, "mailing", u).user = u /\ On(q, "mailing", u).pc = "mailing"
      BY DEF On, Request
    <3>3. requests'[q] = On(q, "issuing", u) \/ requests'[q] = On(q, "mailing", u)
      BY <2>2 DEF Login, RequestReset, Becomes
    <3>4. QED
      BY <2>1, <3>1, <3>2, <3>3, MovedGrounded
  <2>3. CASE Register(q, u)
    <3>1. requests'[q] = [requests[q] EXCEPT !.pc = "registering", !.user = u]
      BY <2>3 DEF Register, Becomes
    <3>2. requests'[q].user = u /\ requests'[q].pc = "registering"
      BY <3>1 DEF Request
    <3>3. QED
      BY <2>1, <3>2, MovedGrounded DEF WithUser
  <2>4. QED
    BY <1>1, <2>2, <2>3
<1>2. ASSUME NEW s \in Sessions, Authenticate(q, s) PROVE RequestGrounded(q)'
  <2>1. sessions[s].user \in Addresses /\ Exists(sessions[s].user)
    BY <1>2 DEF Authenticate, Usable, AccountsTypeOK, Session, Active, Exists
  <2>2. requests'[q].user = sessions[s].user /\ requests'[q].pc # "consuming"
    BY <1>2 DEF Authenticate, Becomes, On, Request
  <2>3. QED
    BY <2>1, <2>2, MovedGrounded
<1>3. ASSUME NEW t \in Tokens, Consume(q, t) PROVE RequestGrounded(q)'
  <2>1. requests'[q].pc = "consuming" /\ requests'[q].token = t
    BY <1>3 DEF Consume, Becomes, Request
  <2>2. tokens'[t].user # Nobody
    BY <1>3 DEF Consume
  <2>3. QED
    BY <2>1, <2>2 DEF RequestGrounded, WithUser
<1>4. ASSUME NEW i \in Identities, SocialLogin(q, i) PROVE RequestGrounded(q)'
  <2>1. links[i] \in Addresses /\ Exists(links[i])
    BY <1>4 DEF SocialLogin, AccountsTypeOK, Active, Exists
  <2>2. requests'[q].user = links[i] /\ requests'[q].pc # "consuming"
    BY <1>4 DEF SocialLogin, Becomes, On, Request
  <2>3. QED
    BY <2>1, <2>2, MovedGrounded
<1>5. ASSUME NEW i \in Identities, NEW u \in Emails, NEW verified \in BOOLEAN,
             SocialMatch(q, i, u, verified)
      PROVE  RequestGrounded(q)'
  <2>1. u \in Addresses /\ Exists(u)
    BY <1>5 DEF SocialMatch, Addresses, Active, Exists
  <2>2. requests'[q].user = u /\ requests'[q].pc # "consuming"
    BY <1>5 DEF SocialMatch, Becomes, On, Request
  <2>3. QED
    BY <2>1, <2>2, MovedGrounded
<1>6. ASSUME NEW i \in Identities, NEW address \in Addresses, SocialSignUp(q, i, address)
      PROVE  RequestGrounded(q)'
  <2>1. requests'[q].user = address /\ requests'[q].pc = "signingUp"
    BY <1>6 DEF SocialSignUp, Becomes, Request
  <2>2. QED
    BY <2>1, MovedGrounded DEF WithUser
<1>7. ASSUME NEW u \in Addresses, NEW provider \in Providers, Unlink(q, u, provider)
      PROVE  RequestGrounded(q)'
  <2>1. requests'[q].user = u /\ requests'[q].pc = "unlinking"
    BY <1>7 DEF Unlink, Becomes, Request
  <2>2. QED
    BY <2>1, MovedGrounded DEF WithUser
<1>8. ASSUME CreateToken(q) \/ VerifyCurrent(q) PROVE RequestGrounded(q)'
  <2>1. requests'[q].user = requests[q].user /\ requests'[q].pc # "consuming"
    <3>1. \/ requests'[q] = [requests[q] EXCEPT !.pc = "issuing", !.kind = "token"]
          \/ requests'[q] = [requests[q] EXCEPT !.pc = "changing"]
      BY <1>8 DEF CreateToken, VerifyCurrent, Becomes
    <3>2. QED
      BY <3>1 DEF Request
  <2>2. requests[q].user \in Addresses /\ Exists(requests[q].user)
    BY <1>8 DEF CreateToken, VerifyCurrent, At, RequestGrounded, WithUser
  <2>3. QED
    BY <2>1, <2>2, MovedGrounded
<1>9. ASSUME Fails(q) PROVE RequestGrounded(q)'
  <2>1. requests'[q].pc = "idle"
    BY <1>9 DEF Fails, Becomes, Idle
  <2>2. QED
    BY <2>1 DEF RequestGrounded, WithUser
<1>10. QED
  BY <1>1, <1>2, <1>3, <1>4, <1>5, <1>6, <1>7, <1>8, <1>9 DEF Reads

LEMMA WritesGrounded ==
  ASSUME AccountsTypeOK, Grounded, [AccountsNext]_accountsVars, NEW q \in Requests, Writes(q)
  PROVE  RequestGrounded(q)'
<1>. USE AccountConstants
<1>. requests[q] \in Request /\ requests \in [Requests -> Request] /\ RequestGrounded(q)
  BY DEF AccountsTypeOK, Grounded
<1>1. CASE requests' = [requests EXCEPT ![q] = Idle]
  <2>1. requests'[q].pc = "idle"
    BY <1>1 DEF Idle
  <2>2. QED
    BY <2>1 DEF RequestGrounded, WithUser
<1>2. ASSUME MarkUsed(q), requests' # [requests EXCEPT ![q] = Idle]
      PROVE  RequestGrounded(q)'
  <2>1. PICK u \in Addresses : u = tokens[requests[q].token].user
    BY <1>2 DEF MarkUsed, At, RequestGrounded, AccountsTypeOK, Token
  <2>2. Active(u) /\ requests' = [requests EXCEPT ![q] = [Idle EXCEPT !.pc = "changing", !.user = u]]
    BY <1>2, <2>1 DEF MarkUsed, Becomes
  <2>3. requests'[q].user = u /\ requests'[q].pc = "changing"
    BY <2>2 DEF Idle
  <2>4. QED
    BY <2>2, <2>3, MovedGrounded DEF Active, Exists
<1>3. ASSUME CreateUser(q) \/ SignUpUser(q), requests' # [requests EXCEPT ![q] = Idle]
      PROVE  RequestGrounded(q)'
  <2>1. PICK u \in Addresses : u = requests[q].user
    BY <1>3 DEF CreateUser, SignUpUser, At, RequestGrounded
  <2>2. requests'[q].user = u /\ requests'[q].pc = "issuing"
    <3>1. \/ requests'[q] = [requests[q] EXCEPT !.pc = "issuing"]
          \/ requests'[q] = [requests[q] EXCEPT !.pc = "issuing", !.identity = Nobody]
      BY <1>3 DEF CreateUser, SignUpUser, Becomes, Linked
    <3>2. QED
      BY <2>1, <3>1 DEF Request
  <2>3. \/ users' = [users EXCEPT ![u] = [NoUser EXCEPT !.status = "active", !.password = TRUE]]
        \/ users' = [users EXCEPT ![u] = [NoUser EXCEPT !.status = "active"]]
    BY <1>3, <2>1 DEF CreateUser, SignUpUser, Becomes
  <2>4. users'[u].status = "active"
    <3>1. /\ [NoUser EXCEPT !.status = "active", !.password = TRUE].status = "active"
          /\ [NoUser EXCEPT !.status = "active"].status = "active"
      BY DEF NoUser
    <3>2. QED
      BY <2>3, <3>1 DEF AccountsTypeOK
  <2>5. QED
    BY <2>2, <2>4 DEF RequestGrounded, Exists, WithUser
<1>4. ASSUME LinkAccount(q), requests' # [requests EXCEPT ![q] = Idle]
      PROVE  RequestGrounded(q)'
  <2>1. requests[q].user \in Addresses /\ Exists(requests[q].user)
    BY <1>4 DEF LinkAccount, At, RequestGrounded, WithUser
  <2>2. requests'[q].user = requests[q].user /\ requests'[q].pc = "issuing"
    <3>1. requests'[q] = [requests[q] EXCEPT !.pc = "issuing", !.identity = Nobody]
      BY <1>4 DEF LinkAccount, Becomes, Linked
    <3>2. QED
      BY <3>1 DEF Request
  <2>3. QED
    BY <2>1, <2>2, MovedGrounded
<1>5. QED
  BY <1>1, <1>2, <1>3, <1>4 DEF Writes, IssueCredential, RevokeToken, IssueToken, Logout,
                                SetPassword, DeleteLinks, Becomes

LEMMA GroundedStep ==
  ASSUME AccountsTypeOK, AccountsTypeOK', Grounded, [AccountsNext]_accountsVars
  PROVE  Grounded'
<1>1. ASSUME NEW q \in Requests PROVE RequestGrounded(q)'
  <2>1. ASSUME NEW r \in Requests, Reads(r) \/ Writes(r), r # q PROVE requests'[q] = requests[q]
    BY <2>1, ReadsType, WritesRequests DEF AccountsTypeOK
  <2>2. ASSUME \/ \E u \in Addresses, status \in {"active", "inactive"} : SetActive(u, status)
               \/ Tick \/ UNCHANGED accountsVars
        PROVE  requests'[q] = requests[q]
    BY <2>2 DEF SetActive, Tick, accountsVars
  <2>3. QED
    BY <2>1, <2>2, ReadsGrounded, WritesGrounded, StillGrounded, NextSplits
<1>2. QED
  BY <1>1, RowsGroundedStep DEF Grounded

\* Types, and what they need: what a request, a row or a link refers to exists.
THEOREM TypeCorrect == AccountsSpec => [](AccountsTypeOK /\ Grounded)
<1>1. AccountsInit => AccountsTypeOK /\ Grounded
  BY AccountConstants DEF AccountsInit, AccountsTypeOK, Grounded, RowsGrounded, RequestGrounded, WithUser, NoUser,
     User, NoSession, Session, NoToken, Token, Idle, Request
<1>2. AccountsTypeOK /\ Grounded /\ [AccountsNext]_accountsVars => (AccountsTypeOK /\ Grounded)'
  BY TypeStep, GroundedStep
<1>3. QED
  BY <1>1, <1>2, PTL DEF AccountsSpec

-----------------------------------------------------------------------------
(* Sessions follow the password *)

\* Only setPassword turns a password over.
LEMMA EpochStays ==
  ASSUME AccountsTypeOK, Grounded, [AccountsNext]_accountsVars, NEW u \in Addresses, Exists(u),
         \A r \in Requests : SetPassword(r) => requests[r].user # u
  PROVE  users'[u].epoch = users[u].epoch
<1>1. ASSUME NEW r \in Requests, Writes(r) PROVE users'[u].epoch = users[u].epoch
  <2>1. CASE CreateUser(r) \/ SignUpUser(r)
    BY <2>1 DEF CreateUser, SignUpUser, AccountsTypeOK
  <2>2. CASE SetPassword(r)
    BY <2>2, SetPasswordUsers DEF AccountsTypeOK
  <2>3. CASE users' = users
    BY <2>3
  <2>4. QED
    BY <1>1, <2>1, <2>2, <2>3 DEF Writes, IssueCredential, RevokeToken, IssueToken, Logout, MarkUsed,
                             LinkAccount, DeleteLinks
<1>2. ASSUME NEW v \in Addresses, NEW status \in {"active", "inactive"}, SetActive(v, status)
      PROVE  users'[u].epoch = users[u].epoch
  <2>1. users' = [users EXCEPT ![v] = [users[v] EXCEPT !.status = status]]
    BY <1>2, SetActiveType
  <2>2. users[v] \in User
    BY DEF AccountsTypeOK
  <2>3. [users[v] EXCEPT !.status = status].epoch = users[v].epoch
    BY <2>2 DEF User
  <2>4. QED
    BY <2>1, <2>3 DEF AccountsTypeOK
<1>3. ASSUME \/ \E r \in Requests : Reads(r)
             \/ Tick \/ UNCHANGED accountsVars
      PROVE  users'[u].epoch = users[u].epoch
  BY <1>3, ReadsType DEF Tick, accountsVars
<1>4. QED
  BY <1>1, <1>2, <1>3, NextSplits

\* A row that is written is a new one, of a request that knows the password it was
\* issued on, or is revoked.
LEMMA SessionRows ==
  ASSUME AccountsTypeOK, Grounded, [AccountsNext]_accountsVars, NEW s \in Sessions
  PROVE  \/ sessions'[s] = sessions[s]
         \/ sessions'[s].revoked
         \/ /\ sessions'[s].raced \/ sessions'[s].born = users[sessions'[s].user].epoch
            /\ users' = users
<1>1. \A row \in Session : Revoked(row).revoked
  BY DEF Revoked, Session
<1>2. ASSUME NEW r \in Requests, Writes(r)
      PROVE  \/ sessions'[s] = sessions[s]
             \/ sessions'[s].revoked
             \/ /\ sessions'[s].raced \/ sessions'[s].born = users[sessions'[s].user].epoch
                /\ users' = users
  <2>1. ASSUME NEW x \in Sessions, IssueCredential(r, x), x # s
        PROVE  sessions'[s] = sessions[s]
    BY <2>1 DEF IssueCredential, AccountsTypeOK
  <2>2. ASSUME IssueCredential(r, s)
        PROVE  /\ sessions'[s].raced \/ sessions'[s].born = users[sessions'[s].user].epoch
               /\ users' = users
    <3>1. PICK expiresAt :
            sessions' = [sessions EXCEPT ![s] =
              [user |-> requests[r].user, kind |-> requests[r].kind, expiresAt |-> expiresAt,
               revoked |-> FALSE, born |-> requests[r].epoch,
               raced |-> requests[r].epoch # users[requests[r].user].epoch]]
      BY <2>2, Zenon DEF IssueCredential
    <3>2. /\ sessions'[s].user = requests[r].user /\ sessions'[s].born = requests[r].epoch
          /\ sessions'[s].raced = (requests[r].epoch # users[requests[r].user].epoch)
      BY <3>1 DEF AccountsTypeOK
    <3>3. users' = users
      BY <2>2 DEF IssueCredential
    <3>4. QED
      BY <3>2, <3>3
  <2>3. ASSUME Logout(r) \/ \E x \in Sessions : RevokeToken(r, x)
        PROVE  sessions'[s] = sessions[s] \/ sessions'[s].revoked
    BY <1>1, <2>3 DEF Logout, RevokeToken, AccountsTypeOK
  <2>4. ASSUME SetPassword(r)
        PROVE  sessions'[s] = sessions[s] \/ sessions'[s].revoked
    BY <1>1, <2>4 DEF SetPassword, WithoutSessions, AccountsTypeOK
  <2>5. ASSUME sessions' = sessions PROVE sessions'[s] = sessions[s]
    BY <2>5
  <2>6. QED
    BY <1>2, <2>1, <2>2, <2>3, <2>4, <2>5
       DEF Writes, IssueToken, CreateUser, MarkUsed, LinkAccount, SignUpUser, DeleteLinks
<1>3. ASSUME \/ \E r \in Requests : Reads(r)
             \/ \E u \in Addresses, status \in {"active", "inactive"} : SetActive(u, status)
             \/ Tick \/ UNCHANGED accountsVars
      PROVE  sessions'[s] = sessions[s]
  BY <1>3, ReadsType DEF SetActive, Tick, accountsVars
<1>4. QED
  BY <1>2, <1>3, NextSplits

LEMMA FollowStep ==
  ASSUME AccountsTypeOK, Grounded, SessionsFollowPassword, [AccountsNext]_accountsVars
  PROVE  SessionsFollowPassword'
<1>. USE AccountConstants
<1>1. ASSUME NEW s \in Sessions, sessions'[s].user # Nobody, sessions'[s].kind = "session",
             ~sessions'[s].revoked, ~sessions'[s].raced
      PROVE  sessions'[s].born = users'[sessions'[s].user].epoch
  <2>1. CASE sessions'[s] = sessions[s]
    <3>1. PICK u \in Addresses : u = sessions[s].user
      BY <1>1, <2>1 DEF AccountsTypeOK, Session
    <3>2. sessions[s].born = users[u].epoch
      BY <1>1, <2>1, <3>1 DEF SessionsFollowPassword
    <3>3. Exists(u)
      BY <1>1, <2>1, <3>1 DEF Grounded, RowsGrounded
    <3>4. ASSUME NEW r \in Requests, SetPassword(r), requests[r].user = u PROVE FALSE
      <4>1. sessions'[s] = Revoked(sessions[s])
        BY <1>1, <2>1, <3>1, <3>4 DEF SetPassword, WithoutSessions
      <4>2. Revoked(sessions[s]).revoked
        BY DEF Revoked, AccountsTypeOK, Session
      <4>3. QED
        BY <1>1, <4>1, <4>2
    <3>5. users'[u].epoch = users[u].epoch
      BY <3>3, <3>4, EpochStays
    <3>6. QED
      BY <2>1, <3>1, <3>2, <3>5
  <2>2. QED
    BY <1>1, <2>1, SessionRows
<1>2. QED
  BY <1>1 DEF SessionsFollowPassword

\* setPassword signs a user out everywhere: a browser session that still works, and was
\* not written by a request that had read the user before the change, was issued on the
\* password of today, for any number of users, sessions and requests.
THEOREM SessionsFollow == AccountsSpec => []SessionsFollowPassword
<1>1. AccountsInit => SessionsFollowPassword
  BY DEF AccountsInit, SessionsFollowPassword, NoSession
<1>2. AccountsTypeOK /\ Grounded /\ SessionsFollowPassword /\ [AccountsNext]_accountsVars => SessionsFollowPassword'
  BY FollowStep
<1>3. QED
  BY <1>1, <1>2, TypeCorrect, PTL DEF AccountsSpec

-----------------------------------------------------------------------------
(* Tokens are accepted once on SQLite *)

\* The steps that open a transaction.
Opens(r) ==
  \/ \E t \in Tokens : Consume(r, t)
  \/ \E i \in Identities :
       \/ \E u \in Emails, verified \in BOOLEAN : SocialMatch(r, i, u, verified)
       \/ \E address \in Addresses : SocialSignUp(r, i, address)
  \/ \E u \in Addresses, provider \in Providers : Unlink(r, u, provider)

LEMMA OthersStayOut ==
  ASSUME AccountsTypeOK, NEW r \in Requests, Reads(r) \/ Writes(r), ~Opens(r)
  PROVE  ~InTransaction(r)'
<1>. USE AccountConstants
<1>. requests[r] \in Request /\ requests \in [Requests -> Request]
  BY DEF AccountsTypeOK
<1>1. ASSUME \/ \E s \in Sessions : IssueCredential(r, s) \/ RevokeToken(r, s)
             \/ \E t \in Tokens : IssueToken(r, t)
             \/ Logout(r) \/ SetPassword(r) \/ DeleteLinks(r) \/ Fails(r)
      PROVE  ~InTransaction(r)'
  <2>1. requests'[r] = Idle
    BY <1>1 DEF IssueCredential, RevokeToken, IssueToken, Logout, SetPassword, DeleteLinks, Fails, Becomes
  <2>2. QED
    BY <2>1 DEF Idle, InTransaction
<1>2. ASSUME \/ \E u \in Emails : Login(r, u) \/ RequestReset(r, u)
             \/ \E s \in Sessions : Authenticate(r, s)
             \/ \E i \in Identities : SocialLogin(r, i)
      PROVE  ~InTransaction(r)'
  <2>1. \/ \E u : requests'[r] = On(r, "issuing", u) \/ requests'[r] = On(r, "mailing", u)
        \/ \E u, s : requests'[r] = [On(r, "authenticated", u) EXCEPT !.session = s]
    BY <1>2 DEF Login, RequestReset, Authenticate, SocialLogin, Becomes
  <2>2. requests'[r].pc \in {"issuing", "mailing", "authenticated"}
    BY <2>1 DEF On, Request
  <2>3. QED
    BY <2>2 DEF InTransaction
<1>3. ASSUME \/ CreateToken(r) \/ VerifyCurrent(r) \/ CreateUser(r) \/ LinkAccount(r)
             \/ SignUpUser(r)
      PROVE  ~InTransaction(r)'
  <2>1. \/ requests'[r] = [requests[r] EXCEPT !.pc = "issuing", !.kind = "token"]
        \/ requests'[r] = [requests[r] EXCEPT !.pc = "changing"]
        \/ requests'[r] = [requests[r] EXCEPT !.pc = "issuing"]
        \/ requests'[r] = [requests[r] EXCEPT !.pc = "issuing", !.identity = Nobody]
        \/ requests'[r] = Idle
    BY <1>3 DEF CreateToken, VerifyCurrent, CreateUser, LinkAccount, SignUpUser, Linked, Becomes
  <2>2. /\ [requests[r] EXCEPT !.pc = "issuing", !.kind = "token"].pc = "issuing"
        /\ [requests[r] EXCEPT !.pc = "changing"].pc = "changing"
        /\ [requests[r] EXCEPT !.pc = "issuing"].pc = "issuing"
        /\ [requests[r] EXCEPT !.pc = "issuing", !.identity = Nobody].pc = "issuing"
    BY DEF Request
  <2>3. Idle.pc = "idle"
    BY DEF Idle
  <2>4. QED
    BY <2>1, <2>2, <2>3 DEF InTransaction
<1>4. ASSUME NEW u \in Emails, Register(r, u) PROVE ~InTransaction(r)'
  BY <1>4 DEF Register, Becomes, Request, InTransaction
<1>5. ASSUME MarkUsed(r) PROVE ~InTransaction(r)'
  <2>1. \/ \E u : requests'[r] = [Idle EXCEPT !.pc = "changing", !.user = u]
        \/ requests'[r] = Idle
    BY <1>5 DEF MarkUsed, Becomes
  <2>2. Idle.pc = "idle" /\ \A u : [Idle EXCEPT !.pc = "changing", !.user = u].pc = "changing"
    BY DEF Idle
  <2>3. QED
    BY <2>1, <2>2 DEF InTransaction
<1>6. QED
  BY <1>1, <1>2, <1>3, <1>4, <1>5 DEF Reads, Writes, Opens

\* A request enters a transaction when none is open.
LEMMA Enters ==
  ASSUME AccountsTypeOK, Serializable, NEW r \in Requests, Reads(r) \/ Writes(r), InTransaction(r)'
  PROVE  \A q \in Requests : ~InTransaction(q)
<1>1. Opens(r)
  BY OthersStayOut
<1>2. QED
  BY <1>1 DEF Opens, Consume, SocialMatch, SocialSignUp, Unlink, Free

LEMMA OneTransactionStep ==
  ASSUME AccountsTypeOK, Grounded, OneTransaction, [AccountsNext]_accountsVars
  PROVE  OneTransaction'
<1>1. SUFFICES ASSUME Serializable, NEW p \in Requests, NEW q \in Requests,
                      InTransaction(p)', InTransaction(q)'
               PROVE  p = q
  BY DEF OneTransaction
<1>2. ASSUME NEW r \in Requests, Reads(r) \/ Writes(r) PROVE p = q
  <2>1. \A x \in Requests : x # r => requests'[x] = requests[x]
    BY <1>2, ReadsType, WritesRequests DEF AccountsTypeOK
  <2>2. p # r => InTransaction(p)
    BY <1>1, <2>1 DEF InTransaction
  <2>3. q # r => InTransaction(q)
    BY <1>1, <2>1 DEF InTransaction
  <2>4. InTransaction(r)' => \A x \in Requests : ~InTransaction(x)
    BY <1>1, <1>2, Enters
  <2>5. QED
    BY <1>1, <2>2, <2>3, <2>4 DEF OneTransaction
<1>3. ASSUME requests' = requests PROVE p = q
  BY <1>1, <1>3 DEF OneTransaction, InTransaction
<1>4. QED
  BY <1>2, <1>3, NextSplits DEF SetActive, Tick, accountsVars

LEMMA CountStep ==
  ASSUME AccountsTypeOK, Grounded, OneTransaction, TokensCounted, [AccountsNext]_accountsVars
  PROVE  TokensCounted'
<1>. USE AccountConstants
<1>1. SUFFICES ASSUME Serializable
               PROVE  /\ \A t \in Tokens : /\ tokens'[t].used => tokens'[t].user # Nobody
                                           /\ uses'[t] = 0 \/ (uses'[t] = 1 /\ tokens'[t].used)
                      /\ \A q \in Requests : requests'[q].pc = "consuming" =>
                           ~tokens'[requests'[q].token].used
  BY DEF TokensCounted, At
<1>2. /\ \A t \in Tokens : /\ tokens[t].used => tokens[t].user # Nobody
                           /\ uses[t] = 0 \/ (uses[t] = 1 /\ tokens[t].used)
      /\ \A q \in Requests : requests[q].pc = "consuming" => ~tokens[requests[q].token].used
  BY <1>1 DEF TokensCounted, At
<1>. DEFINE Counted == /\ \A t \in Tokens : /\ tokens'[t].used => tokens'[t].user # Nobody
                                            /\ uses'[t] = 0 \/ (uses'[t] = 1 /\ tokens'[t].used)
                       /\ \A q \in Requests : requests'[q].pc = "consuming" =>
                            ~tokens'[requests'[q].token].used
\* Only Consume makes a request consume, and then the token is unused.
<1>3. ASSUME NEW r \in Requests, Reads(r) \/ Writes(r), NEW q \in Requests,
             requests'[q].pc = "consuming"
      PROVE  \/ requests'[q] = requests[q] /\ requests[q].pc = "consuming"
             \/ ~tokens[requests'[q].token].used /\ tokens' = tokens
  <2>1. CASE q # r
    BY <1>3, <2>1, ReadsType, WritesRequests DEF AccountsTypeOK
  <2>2. CASE q = r /\ \E t \in Tokens : Consume(r, t)
    <3>1. PICK t \in Tokens : Consume(r, t)
      BY <2>2
    <3>2. requests'[r] = [requests[r] EXCEPT !.pc = "consuming", !.token = t]
      BY <3>1 DEF Consume, Becomes, AccountsTypeOK
    <3>3. requests'[r].token = t
      BY <3>2 DEF AccountsTypeOK, Request
    <3>4. QED
      BY <2>2, <3>1, <3>3 DEF Consume
  <2>3. CASE q = r /\ ~\E t \in Tokens : Consume(r, t)
    <3>1. Opens(r)
      BY <1>3, <2>3, OthersStayOut DEF InTransaction
    <3>2. requests[r] \in Request /\ requests \in [Requests -> Request]
      BY DEF AccountsTypeOK
    <3>3. ASSUME NEW i \in Identities, NEW u \in Emails, NEW verified \in BOOLEAN,
                 SocialMatch(r, i, u, verified)
          PROVE  requests'[r].pc = "linking"
      BY <3>2, <3>3 DEF SocialMatch, Becomes, On, Request
    <3>4. ASSUME NEW i \in Identities, NEW address \in Addresses, SocialSignUp(r, i, address)
          PROVE  requests'[r].pc = "signingUp"
      BY <3>2, <3>4 DEF SocialSignUp, Becomes, Request
    <3>5. ASSUME NEW u \in Addresses, NEW provider \in Providers, Unlink(r, u, provider)
          PROVE  requests'[r].pc = "unlinking"
      BY <3>2, <3>5 DEF Unlink, Becomes, Request
    <3>6. QED
      BY <1>3, <2>3, <3>1, <3>3, <3>4, <3>5 DEF Opens
  <2>4. QED
    BY <2>1, <2>2, <2>3
<1>4. ASSUME NEW r \in Requests, MarkUsed(r) PROVE Counted
  <2>1. PICK x \in Tokens : /\ x = requests[r].token
                            /\ tokens' = [tokens EXCEPT ![x] = [tokens[x] EXCEPT !.used = TRUE]]
                            /\ uses' = [uses EXCEPT ![x] = uses[x] + 1]
    BY <1>4, MarkUsedRows
  <2>2. requests[r].pc = "consuming" /\ ~tokens[x].used /\ tokens[x].user # Nobody
    BY <1>2, <1>4, <2>1 DEF MarkUsed, At, Grounded, RequestGrounded
  <2>3. uses[x] = 0 /\ tokens[x] \in Token
    BY <1>2, <2>2 DEF AccountsTypeOK
  <2>4. /\ [tokens[x] EXCEPT !.used = TRUE].used
        /\ [tokens[x] EXCEPT !.used = TRUE].user = tokens[x].user
    BY <2>3 DEF Token
  <2>5. \A t \in Tokens : /\ tokens'[t].used => tokens'[t].user # Nobody
                          /\ uses'[t] = 0 \/ (uses'[t] = 1 /\ tokens'[t].used)
    BY <1>2, <2>1, <2>2, <2>3, <2>4 DEF AccountsTypeOK
  <2>6. ASSUME NEW q \in Requests, requests'[q].pc = "consuming" PROVE FALSE
    <3>1. Writes(r)
      BY <1>4 DEF Writes
    <3>2. InTransaction(q)'
      BY <2>6 DEF InTransaction
    <3>3. InTransaction(r)
      BY <2>2 DEF InTransaction
    <3>4. q # r
      BY <1>1, <3>1, <3>2, <3>3, Enters
    <3>5. requests'[q] = requests[q]
      BY <3>1, <3>4, WritesRequests DEF AccountsTypeOK
    <3>6. InTransaction(q)
      BY <2>6, <3>5 DEF InTransaction
    <3>7. QED
      BY <1>1, <3>3, <3>4, <3>6 DEF OneTransaction
  <2>7. QED
    BY <2>5, <2>6
<1>5. ASSUME NEW r \in Requests, NEW x \in Tokens, IssueToken(r, x) PROVE Counted
  <2>1. tokens[x].user = Nobody /\ ~tokens[x].used /\ uses[x] = 0
    BY <1>2, <1>5 DEF IssueToken, AccountsTypeOK, Token
  <2>2. uses' = uses /\ tokens' = [tokens EXCEPT ![x] =
          [user |-> requests[r].user, expiresAt |-> now + TokenTtl, used |-> FALSE]]
    BY <1>5 DEF IssueToken
  <2>3. \A t \in Tokens : /\ tokens'[t].used => tokens'[t].user # Nobody
                          /\ uses'[t] = 0 \/ (uses'[t] = 1 /\ tokens'[t].used)
    BY <1>2, <2>1, <2>2 DEF AccountsTypeOK
  <2>4. ASSUME NEW q \in Requests, requests'[q].pc = "consuming"
        PROVE  ~tokens'[requests'[q].token].used
    <3>1. CASE requests'[q] = requests[q] /\ requests[q].pc = "consuming"
      <4>1. ~tokens[requests[q].token].used /\ requests[q].token \in Tokens
        BY <1>2, <3>1 DEF Grounded, RequestGrounded
      <4>2. QED
        BY <2>2, <3>1, <4>1 DEF AccountsTypeOK
    <3>2. QED
      BY <1>3, <1>5, <2>4, <3>1 DEF Writes
  <2>5. QED
    BY <2>3, <2>4
<1>6. ASSUME NEW r \in Requests, Reads(r) \/ Writes(r), tokens' = tokens, uses' = uses PROVE Counted
  BY <1>2, <1>3, <1>6
<1>7. ASSUME requests' = requests, tokens' = tokens, uses' = uses PROVE Counted
  BY <1>2, <1>7
<1>8. ASSUME NEW r \in Requests, Reads(r) PROVE tokens' = tokens /\ uses' = uses
  BY <1>8, ReadsType
<1>9. ASSUME NEW r \in Requests, Writes(r)
      PROVE  MarkUsed(r) \/ (\E x \in Tokens : IssueToken(r, x)) \/ (tokens' = tokens /\ uses' = uses)
  BY <1>9 DEF Writes, IssueCredential, RevokeToken, Logout, CreateUser, SetPassword, LinkAccount,
              SignUpUser, DeleteLinks
<1>10. ASSUME \/ \E u \in Addresses, status \in {"active", "inactive"} : SetActive(u, status)
              \/ Tick \/ UNCHANGED accountsVars
       PROVE  requests' = requests /\ tokens' = tokens /\ uses' = uses
  BY <1>10 DEF SetActive, Tick, accountsVars
<1>11. QED
  BY <1>4, <1>5, <1>6, <1>7, <1>8, <1>9, <1>10, NextSplits

\* On SQLite consumeVerificationToken accepts a token once, for any number of tokens
\* and of requests that present them.
THEOREM TokensOnce == AccountsSpec => []TokensUsedOnce
<1>1. AccountsInit => OneTransaction /\ TokensCounted
  BY DEF AccountsInit, OneTransaction, TokensCounted, InTransaction, At, NoToken, Idle
<1>2. AccountsTypeOK /\ Grounded /\ OneTransaction /\ TokensCounted /\ [AccountsNext]_accountsVars
        => (OneTransaction /\ TokensCounted)'
  BY OneTransactionStep, CountStep
<1>3. AccountsTypeOK /\ TokensCounted => TokensUsedOnce
  BY DEF TokensCounted, TokensUsedOnce, AccountsTypeOK
<1>4. QED
  BY <1>1, <1>2, <1>3, TypeCorrect, PTL DEF AccountsSpec

-----------------------------------------------------------------------------
(* A way in remains on SQLite *)

\* A user has a password or a link, or had several taken at once; and one who is about
\* to be unlinked has a password or two links.
WaysIn ==
  /\ \A u \in Addresses : users[u].status # "absent" =>
       users[u].password \/ (\E i \in Identities : links[i] = u) \/ u \in stranded
  /\ \A q \in Requests : requests[q].pc = "unlinking" =>
       /\ requests[q].user \in Addresses /\ users[requests[q].user].status # "absent"
       /\ \/ users[requests[q].user].password
          \/ \E i, j \in Identities : i # j /\ links[i] = requests[q].user /\ links[j] = requests[q].user

\* A request that signs up knows the identity.
IdentitiesHeld == \A q \in Requests :
  requests[q].pc = "signingUp" => requests[q].identity \in Identities

LEMMA LinksGrow ==
  ASSUME AccountsTypeOK, Grounded, [AccountsNext]_accountsVars, ~\E r \in Requests : DeleteLinks(r), NEW i \in Identities,
         links[i] # Nobody
  PROVE  links'[i] = links[i]
<1>1. ASSUME NEW r \in Requests, LinkAccount(r) \/ SignUpUser(r) PROVE links'[i] = links[i]
  BY <1>1 DEF LinkAccount, SignUpUser, AccountsTypeOK
<1>2. ASSUME NEW r \in Requests, Writes(r) PROVE links' = links \/ LinkAccount(r) \/ SignUpUser(r)
  BY <1>2 DEF Writes, IssueCredential, RevokeToken, IssueToken, Logout, CreateUser, SetPassword,
              MarkUsed
<1>3. ASSUME NEW r \in Requests, Reads(r) PROVE links' = links
  BY <1>3, ReadsType
<1>4. QED
  BY <1>1, <1>2, <1>3, NextSplits DEF SetActive, Tick, accountsVars

\* Nobody loses a password, and whoever is new has one or a link.
LEMMA WaysOfUsers ==
  ASSUME AccountsTypeOK, Grounded, IdentitiesHeld, [AccountsNext]_accountsVars, NEW u \in Addresses
  PROVE  /\ users[u].status # "absent" /\ users[u].password => users'[u].password
         /\ users[u].status = "absent" /\ users'[u].status # "absent" =>
              users'[u].password \/ \E i \in Identities : links'[i] = u
<1> DEFINE Kept == users[u].status # "absent" /\ users[u].password => users'[u].password
           New == users[u].status = "absent" /\ users'[u].status # "absent" =>
                    users'[u].password \/ \E i \in Identities : links'[i] = u
<1>1. users[u] \in User /\ DOMAIN users = Addresses
  BY DEF AccountsTypeOK
<1>2. ASSUME NEW r \in Requests, CreateUser(r) PROVE Kept /\ New
  <2>1. CASE users' = users
    BY <2>1
  <2>2. CASE users' # users
    <3>1. /\ users[requests[r].user].status = "absent"
          /\ users' = [users EXCEPT ![requests[r].user] =
                         [NoUser EXCEPT !.status = "active", !.password = TRUE]]
      BY <1>2, <2>2 DEF CreateUser, Exists
    <3>2. [NoUser EXCEPT !.status = "active", !.password = TRUE].password
      BY DEF NoUser
    <3>3. QED
      BY <1>1, <3>1, <3>2
  <2>3. QED
    BY <2>1, <2>2
<1>3. ASSUME NEW r \in Requests, SignUpUser(r) PROVE Kept /\ New
  <2>1. CASE users' = users
    BY <2>1
  <2>2. CASE users' # users
    <3> DEFINE v == requests[r].user
               i == requests[r].identity
    <3>1. /\ users[v].status = "absent"
          /\ users' = [users EXCEPT ![v] = [NoUser EXCEPT !.status = "active"]]
          /\ links' = [links EXCEPT ![i] = v]
      BY <1>3, <2>2 DEF SignUpUser, Exists
    <3>2. CASE v # u
      BY <1>1, <3>1, <3>2
    <3>3. CASE v = u
      <4>1. i \in Identities
        BY <1>3 DEF SignUpUser, At, IdentitiesHeld
      <4>2. links'[i] = u
        BY <3>1, <3>3, <4>1 DEF AccountsTypeOK
      <4>3. QED
        BY <3>1, <3>3, <4>1, <4>2
    <3>4. QED
      BY <3>2, <3>3
  <2>3. QED
    BY <2>1, <2>2
<1>4. ASSUME NEW r \in Requests, SetPassword(r) PROVE Kept /\ New
  <2>1. /\ users' = [users EXCEPT ![requests[r].user] =
                       [users[requests[r].user] EXCEPT !.password = TRUE,
                                                       !.epoch = users[requests[r].user].epoch + 1]]
    BY <1>4 DEF SetPassword
  <2>2. [users[u] EXCEPT !.password = TRUE, !.epoch = users[u].epoch + 1].password
    BY <1>1 DEF User
  <2>3. users'[u].password \/ users'[u] = users[u]
    BY <1>1, <2>1, <2>2
  <2>4. QED
    BY <2>3
<1>5. ASSUME NEW v \in Addresses, NEW status \in {"active", "inactive"}, SetActive(v, status)
      PROVE  Kept /\ New
  <2>1. users' = [users EXCEPT ![v] = [users[v] EXCEPT !.status = status]] /\ Exists(v)
    BY <1>5, SetActiveType DEF SetActive
  <2>2. [users[u] EXCEPT !.status = status].password = users[u].password
    BY <1>1 DEF User
  <2>3. users'[u].password = users[u].password /\ (users[u].status = "absent" => users'[u] = users[u])
    BY <1>1, <2>1, <2>2 DEF Exists
  <2>4. QED
    BY <2>3
<1>6. ASSUME NEW r \in Requests, Writes(r)
      PROVE  users' = users \/ CreateUser(r) \/ SignUpUser(r) \/ SetPassword(r)
  BY <1>6 DEF Writes, IssueCredential, RevokeToken, IssueToken, Logout, MarkUsed, LinkAccount,
              DeleteLinks
<1>7. ASSUME NEW r \in Requests, Reads(r) PROVE users' = users
  BY <1>7, ReadsType
<1>8. CASE users' = users
  BY <1>8
<1>9. QED
  BY <1>2, <1>3, <1>4, <1>5, <1>6, <1>7, <1>8, NextSplits DEF Tick, accountsVars

\* Only Unlink makes a request unlink, and only SocialSignUp makes one sign up.
LEMMA WhoEnters ==
  ASSUME AccountsTypeOK, Grounded, NEW r \in Requests, Reads(r) \/ Writes(r), NEW q \in Requests,
         requests'[q].pc \in {"unlinking", "signingUp"}
  PROVE  \/ q # r /\ requests'[q] = requests[q]
         \/ /\ q = r /\ requests'[q].pc = "unlinking"
            /\ \E u \in Addresses, provider \in Providers : Unlink(r, u, provider)
         \/ /\ q = r /\ requests'[q].pc = "signingUp"
            /\ \E i \in Identities, address \in Addresses : SocialSignUp(r, i, address)
<1> USE AccountConstants
<1>1. requests[r] \in Request /\ requests \in [Requests -> Request]
  BY DEF AccountsTypeOK
<1>2. CASE q # r
  BY <1>2, ReadsType, WritesRequests DEF AccountsTypeOK
<1>3. CASE q = r
  <2>1. Opens(r)
    BY <1>3, OthersStayOut DEF InTransaction
  <2>2. ASSUME NEW t \in Tokens, Consume(r, t) PROVE requests'[r].pc = "consuming"
    BY <1>1, <2>2 DEF Consume, Becomes, Request
  <2>3. ASSUME NEW i \in Identities, NEW u \in Emails, NEW verified \in BOOLEAN,
               SocialMatch(r, i, u, verified)
        PROVE  requests'[r].pc = "linking"
    BY <1>1, <2>3 DEF SocialMatch, Becomes, On, Request
  <2>4. ASSUME NEW i \in Identities, NEW address \in Addresses, SocialSignUp(r, i, address)
        PROVE  requests'[r].pc = "signingUp"
    BY <1>1, <2>4 DEF SocialSignUp, Becomes, Request
  <2>5. ASSUME NEW u \in Addresses, NEW provider \in Providers, Unlink(r, u, provider)
        PROVE  requests'[r].pc = "unlinking"
    BY <1>1, <2>5 DEF Unlink, Becomes, Request
  <2>6. QED
    BY <1>3, <2>1, <2>2, <2>3, <2>4, <2>5 DEF Opens
<1>4. QED
  BY <1>2, <1>3

LEMMA IdentitiesStep ==
  ASSUME AccountsTypeOK, Grounded, IdentitiesHeld, [AccountsNext]_accountsVars
  PROVE  IdentitiesHeld'
<1>1. SUFFICES ASSUME NEW q \in Requests, requests'[q].pc = "signingUp"
               PROVE  requests'[q].identity \in Identities
  BY DEF IdentitiesHeld
<1>2. CASE requests'[q] = requests[q]
  BY <1>1, <1>2 DEF IdentitiesHeld
<1>3. ASSUME NEW i \in Identities, NEW address \in Addresses, SocialSignUp(q, i, address)
      PROVE  requests'[q].identity \in Identities
  BY <1>3 DEF SocialSignUp, Becomes, AccountsTypeOK, Request
<1>4. QED
  BY <1>1, <1>2, <1>3, WhoEnters, NextSplits DEF SetActive, Tick, accountsVars

\* Only an unlink says who is stranded.
LEMMA StrandedStays ==
  ASSUME AccountsTypeOK, Grounded, [AccountsNext]_accountsVars, ~\E r \in Requests : DeleteLinks(r)
  PROVE  stranded' = stranded
<1>1. ASSUME NEW r \in Requests, Writes(r) PROVE stranded' = stranded \/ DeleteLinks(r)
  BY <1>1 DEF Writes, IssueCredential, RevokeToken, IssueToken, Logout, CreateUser, SetPassword,
              MarkUsed, LinkAccount, SignUpUser
<1>2. ASSUME NEW r \in Requests, Reads(r) PROVE stranded' = stranded
  BY <1>2, ReadsType
<1>3. QED
  BY <1>1, <1>2, NextSplits DEF SetActive, Tick, accountsVars

\* More than one link are two of them.
LEMMA TwoLinks ==
  ASSUME NEW u \in Addresses, Cardinality(LinksOf(u)) > 1
  PROVE  \E i, j \in Identities : i # j /\ links[i] = u /\ links[j] = u
<1>1. CASE LinksOf(u) = {}
  BY <1>1, FS_EmptySet
<1>2. ASSUME NEW i \in LinksOf(u) PROVE \E j \in LinksOf(u) : j # i
  <2>1. SUFFICES ASSUME LinksOf(u) = {i} PROVE FALSE
    BY <1>2
  <2>2. Cardinality({i}) = 1
    BY FS_Singleton
  <2>3. QED
    BY <2>1, <2>2
<1>3. QED
  BY <1>1, <1>2 DEF LinksOf

\* Two of them are more than one link.
LEMMA LinksCounted ==
  ASSUME NEW S \in SUBSET Identities, NEW i \in S, NEW j \in S, i # j
  PROVE  Cardinality(S) > 1
<1>1. IsFiniteSet(S)
  BY AccountConstants, FS_Subset DEF AccountConstants
<1>2. Cardinality(S) \in Nat /\ Cardinality({i, j}) <= Cardinality(S)
  BY <1>1, FS_Subset, FS_CardinalityType
<1>3. IsFiniteSet({i}) /\ Cardinality({i}) = 1
  BY FS_Singleton
<1>4. Cardinality({i} \cup {j}) = 2
  BY <1>3, FS_AddElement
<1>5. {i} \cup {j} = {i, j}
  OBVIOUS
<1>6. QED
  BY <1>2, <1>4, <1>5

LEMMA WaysStep ==
  ASSUME Serializable, AccountsTypeOK, Grounded, OneTransaction, IdentitiesHeld, WaysIn,
         [AccountsNext]_accountsVars
  PROVE  WaysIn'
<1>1. ASSUME NEW r \in Requests, DeleteLinks(r) PROVE WaysIn'
  <2> DEFINE u == requests[r].user
             ended == {i \in LinksOf(u) : providerOf[i] = requests[r].provider}
  <2>1. /\ requests[r].pc = "unlinking" /\ UNCHANGED users /\ requests' = [requests EXCEPT ![r] = Idle]
        /\ links' = [i \in Identities |-> IF i \in ended THEN Nobody ELSE links[i]]
        /\ stranded' = IF Cardinality(ended) > 1 /\ LinksOf(u) = ended /\ ~users[u].password
                        THEN stranded \cup {u} ELSE stranded \ {u}
    BY <1>1 DEF DeleteLinks, At, Becomes
  <2>2. ASSUME NEW v \in Addresses, users'[v].status # "absent"
        PROVE  users'[v].password \/ (\E i \in Identities : links'[i] = v) \/ v \in stranded'
    <3>1. CASE v = u /\ ~users[u].password
      <4>1. PICK i \in LinksOf(u), j \in LinksOf(u) : i # j
        BY <2>1, <3>1 DEF WaysIn, LinksOf
      <4>2. CASE LinksOf(u) = ended
        <5>1. ended \subseteq Identities /\ i \in ended /\ j \in ended
          BY <4>1, <4>2 DEF LinksOf
        <5> HIDE DEF ended
        <5>2. Cardinality(ended) > 1
          BY <4>1, <5>1, LinksCounted
        <5>3. QED
          BY <2>1, <3>1, <4>2, <5>2
      <4>3. CASE LinksOf(u) # ended
        <5>1. PICK k \in LinksOf(u) : k \notin ended
          BY <4>3
        <5>2. k \in Identities /\ links[k] = u
          BY <5>1 DEF LinksOf
        <5> HIDE DEF ended
        <5>3. links'[k] = u
          BY <2>1, <5>1, <5>2
        <5>4. QED
          BY <3>1, <5>2, <5>3
      <4>4. QED
        BY <4>2, <4>3
    <3>2. CASE v # u
      <4>1. \A i \in ended : links[i] = u
        BY DEF LinksOf
      <4> HIDE DEF ended
      <4>2. v \in stranded => v \in stranded'
        BY <2>1, <3>2
      <4>3. \A i \in Identities : links[i] = v => links'[i] = v
        BY <2>1, <3>2, <4>1
      <4>4. users[v].status # "absent"
        BY <2>1, <2>2
      <4>5. QED
        BY <2>1, <4>2, <4>3, <4>4 DEF WaysIn
    <3>3. QED
      BY <2>1, <3>1, <3>2
  <2>3. ASSUME NEW q \in Requests, requests'[q].pc = "unlinking" PROVE FALSE
    <3>1. q # r /\ requests'[q] = requests[q]
      BY <2>1, <2>3 DEF AccountsTypeOK, Idle
    <3>2. InTransaction(q) /\ InTransaction(r)
      BY <2>1, <2>3, <3>1 DEF InTransaction
    <3>3. QED
      BY <3>1, <3>2 DEF OneTransaction
  <2>4. QED
    BY <2>2, <2>3 DEF WaysIn
<1>2. CASE ~\E r \in Requests : DeleteLinks(r)
  <2>1. \A i \in Identities : links[i] # Nobody => links'[i] = links[i]
    BY <1>2, LinksGrow
  <2>2. ASSUME NEW v \in Addresses, users'[v].status # "absent"
        PROVE  users'[v].password \/ (\E i \in Identities : links'[i] = v) \/ v \in stranded'
    <3>1. CASE users[v].status = "absent"
      BY <2>2, <3>1, WaysOfUsers
    <3>2. CASE users[v].status # "absent"
      <4>1. CASE users[v].password
        BY <3>2, <4>1, WaysOfUsers
      <4>2. CASE ~users[v].password
        <5>1. (\E i \in Identities : links[i] = v) \/ v \in stranded
          BY <3>2, <4>2 DEF WaysIn
        <5>2. v # Nobody
          BY AccountConstants DEF AccountConstants, Addresses
        <5>3. stranded' = stranded
          BY <1>2, StrandedStays
        <5>4. QED
          BY <2>1, <5>1, <5>2, <5>3
      <4>3. QED
        BY <4>1, <4>2
    <3>3. QED
      BY <3>1, <3>2
  <2>3. ASSUME NEW q \in Requests, requests'[q].pc = "unlinking"
        PROVE  /\ requests'[q].user \in Addresses /\ users'[requests'[q].user].status # "absent"
               /\ \/ users'[requests'[q].user].password
                  \/ \E i, j \in Identities :
                       i # j /\ links'[i] = requests'[q].user /\ links'[j] = requests'[q].user
    <3>1. CASE requests'[q] = requests[q]
      <4>1. /\ requests[q].user \in Addresses /\ users[requests[q].user].status # "absent"
            /\ \/ users[requests[q].user].password
               \/ \E i, j \in Identities :
                    i # j /\ links[i] = requests[q].user /\ links[j] = requests[q].user
        BY <2>3, <3>1 DEF WaysIn
      <4>2. users'[requests[q].user].status # "absent"
        BY <4>1, UsersStay DEF Exists
      <4>3. requests[q].user # Nobody
        BY <4>1, AccountConstants DEF AccountConstants, Addresses
      <4>4. users[requests[q].user].password => users'[requests[q].user].password
        BY <4>1, WaysOfUsers
      <4>5. QED
        BY <2>1, <3>1, <4>1, <4>2, <4>3, <4>4
    <3>2. CASE \E u \in Addresses, provider \in Providers : Unlink(q, u, provider)
      <4>1. PICK u \in Addresses, provider \in Providers : Unlink(q, u, provider)
        BY <3>2
      <4>2. requests'[q] = [requests[q] EXCEPT !.pc = "unlinking", !.user = u, !.provider = provider]
        BY <4>1 DEF Unlink, Becomes, AccountsTypeOK
      <4>3. requests'[q].user = u /\ requests'[q].provider = provider
        BY <4>2 DEF AccountsTypeOK, Request
      <4>4. UNCHANGED <<users, links>> /\ users[u].status # "absent"
        BY <4>1 DEF Unlink, Exists
      <4>5. users[u].password \/ \E i, j \in Identities : i # j /\ links[i] = u /\ links[j] = u
        BY <4>1, TwoLinks DEF Unlink
      <4>6. QED
        BY <4>3, <4>4, <4>5
    <3>3. QED
      BY <2>3, <3>1, <3>2, WhoEnters, NextSplits DEF SetActive, Tick, accountsVars
  <2>4. QED
    BY <2>2, <2>3 DEF WaysIn
<1>3. QED
  BY <1>1, <1>2

\* On SQLite no sign-up, failure or unlink leaves a user without a password and without
\* a link, for any number of identities at any number of providers, unless one unlink
\* took the last links of the user, several of one provider, together.
THEOREM WayInKept == AccountsSpec => []KeepsAWayIn
<1> DEFINE Inv == OneTransaction /\ IdentitiesHeld /\ (Serializable => WaysIn)
<1>1. AccountsInit => Inv
  BY DEF AccountsInit, OneTransaction, IdentitiesHeld, WaysIn, InTransaction, NoUser, Idle
<1>2. AccountsTypeOK /\ Grounded /\ Inv /\ [AccountsNext]_accountsVars => Inv'
  BY OneTransactionStep, IdentitiesStep, WaysStep
<1>3. Inv => KeepsAWayIn
  BY DEF KeepsAWayIn, WaysIn, Exists, LinksOf
<1>4. QED
  <2> HIDE DEF Inv
  <2>1. QED
    BY <1>1, <1>2, <1>3, TypeCorrect, PTL DEF AccountsSpec
=============================================================================
