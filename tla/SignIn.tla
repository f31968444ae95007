------------------------------- MODULE SignIn -------------------------------
(***************************************************************************)
(* Signing in through a provider: src/src/auth/social-app.ts over oauth.ts *)
(* and jwt.ts.  A browser is sent away with a sealed flow in a cookie, the *)
(* provider sends it back with a code, the code is exchanged, the profile  *)
(* is read from a signed ID token or from the userinfo endpoint, and a     *)
(* session is issued (who the profile resolves to is Accounts' subject).   *)
(*                                                                         *)
(* A browser has several tabs and one cookie jar.  It may take any time at *)
(* the provider, reload a callback while the first is still being served,  *)
(* or open one that another browser was sent.  Every call to the provider  *)
(* is an await.  The browser is not relied on to drop a cookie whose       *)
(* Max-Age has passed: its clock is its own.  A single-use code and the    *)
(* comparison of the PKCE verifier are the provider's part.                *)
(***************************************************************************)
EXTENDS Naturals, FiniteSets

CONSTANTS
  Browsers,   \* cookie jars
  Served,      \* bound: callbacks served at once
  Flows,      \* sign-ins that may be begun: state, verifier and nonce
  Subjects,   \* people at the provider
  Providers,  \* those with a jwksUri, "oidc", and those without, "oauth"
  CheckPkce,  \* the providers that compare the verifier with the challenge
  SigningKeys, \* signing keys of the OIDC provider, the first one to start with
  FirstKey,
  FlowTtl,    \* seconds a sealed flow lasts
  Tolerance,  \* clockToleranceSeconds
  JwksTtl,    \* how long fetched keys are kept
  TokenTtl,   \* lifetime of an ID token
  Nobody,
  MaxClock    \* bound: the clock

ASSUME SignInConstants ==
  /\ Providers \subseteq {"oidc", "oauth"} /\ CheckPkce \subseteq Providers /\ FirstKey \in SigningKeys
  /\ {FlowTtl, Tolerance, JwksTtl, TokenTtl, MaxClock} \subseteq Nat
  /\ Nobody \notin Browsers \cup Flows \cup Subjects \cup SigningKeys

VARIABLES
  clock,
  begun,      \* history: how each flow began
  cookie,     \* the flow cookie of each browser
  returns,    \* callback URLs the provider has produced
  spent,      \* codes the provider has exchanged
  signing,    \* the key the provider signs with; it publishes that one alone
  jwks,       \* the cached keys and when they were fetched
  callbacks,  \* callbacks being served
  sessions    \* sessions issued

signInVars == <<clock, begun, cookie, returns, spent, signing, jwks, callbacks, sessions>>

NotBegun == [browser |-> Nobody, provider |-> Nobody, at |-> 0]
NoCookie == [flow |-> Nobody, exp |-> 0]
NoCallback == [pc |-> "idle", browser |-> Nobody, url |-> Nobody, flow |-> Nobody, token |-> Nobody,
               keys |-> {}, at |-> 0]

SignInInit ==
  /\ clock = 0 /\ begun = [f \in Flows |-> NotBegun] /\ cookie = [b \in Browsers |-> NoCookie]
  /\ returns = {} /\ spent = {} /\ signing = FirstKey
  /\ jwks = [keys |-> {}, fetchedAt |-> 0]
  /\ callbacks = [c \in Served |-> NoCallback] /\ sessions = {}

remote == <<returns, spent, signing>>

\* signJwt and the registered claims of assertClaims.
Sealed(f) == [flow |-> f, exp |-> clock + FlowTtl]
Expired(exp) == clock > exp + Tolerance

\* GET /auth/{provider}: a new flow replaces whatever the cookie held.
Begin(b, p, f) ==
  /\ begun[f] = NotBegun
  /\ begun' = [begun EXCEPT ![f] = [browser |-> b, provider |-> p, at |-> clock]]
  /\ cookie' = [cookie EXCEPT ![b] = Sealed(f)]
  /\ UNCHANGED <<clock, remote, jwks, callbacks, sessions>>

\* The provider: somebody consents or declines, and the browser is sent back.  The nonce
\* goes only to a provider that signs ID tokens.
Url(f, subject) == [state |-> f, challenge |-> f, provider |-> begun[f].provider,
                    nonce |-> IF begun[f].provider = "oidc" THEN f ELSE Nobody, subject |-> subject]
SendBack(f, subject) ==
  /\ begun[f] # NotBegun /\ \A u \in returns : u.state # f
  /\ returns' = returns \cup {Url(f, subject)}
  /\ UNCHANGED <<clock, begun, cookie, spent, signing, jwks, callbacks, sessions>>
Rotate(k) ==
  /\ k # signing
  /\ signing' = k
  /\ UNCHANGED <<clock, begun, cookie, returns, spent, jwks, callbacks, sessions>>

-----------------------------------------------------------------------------
\* GET /auth/{provider}/callback
CallbackAt(c, pc) == callbacks[c].pc = pc
GoesOn(c, pc) == callbacks' = [callbacks EXCEPT ![c].pc = pc] /\ UNCHANGED cookie
\* The answer, a redirect either way: it always clears the flow cookie.
Answer(c, browser) ==
  /\ callbacks' = [callbacks EXCEPT ![c] = NoCallback]
  /\ cookie' = [cookie EXCEPT ![browser] = NoCookie]
Fail(c) == Answer(c, callbacks[c].browser)

\* openFlowState, stateMatches, and a code to exchange.
Opens(sealed) == sealed # NoCookie /\ ~Expired(sealed.exp)
StateNotCompared(returned, expected) == returned # Nobody /\ expected # Nobody
StateMatches(returned, expected) == returned = expected
Callback(c, b, url) ==
  /\ CallbackAt(c, "idle") /\ url \in returns
  /\ IF Opens(cookie[b]) /\ StateMatches(url.state, cookie[b].flow) /\ url.subject # Nobody
     THEN /\ callbacks' = [callbacks EXCEPT ![c] = [NoCallback EXCEPT
               !.pc = "exchange", !.browser = b, !.url = url, !.flow = cookie[b].flow, !.at = clock]]
          /\ UNCHANGED cookie
     ELSE Answer(c, b)
  /\ UNCHANGED <<clock, begun, remote, jwks, sessions>>

\* exchangeCode: a code works once, and with PKCE only for its verifier.
Exchanges(url, verifier) == url \notin spent /\ (url.provider \in CheckPkce => url.challenge = verifier)
\* fetchProfile reads an ID token, when the provider has keys and sent one, or else asks userinfo.
ProfileFrom(url) == IF url.provider = "oidc" THEN {"keys", "userinfo"} ELSE {"userinfo"}
IdToken(url) == [sub |-> url.subject, nonce |-> url.nonce, kid |-> signing, exp |-> clock + TokenTtl]
Exchange(c) == LET call == callbacks[c] IN
  /\ CallbackAt(c, "exchange")
  /\ \/ /\ Exchanges(call.url, call.flow)
        /\ \E pc \in ProfileFrom(call.url) :
             callbacks' = [callbacks EXCEPT ![c].pc = pc, ![c].token = IdToken(call.url)]
        /\ spent' = spent \cup {call.url} /\ UNCHANGED cookie
     \/ Fail(c) /\ UNCHANGED spent
  /\ UNCHANGED <<clock, begun, returns, signing, jwks, sessions>>

\* fetchJwks: kept ten minutes, fetched when there are none or they are older; the caller goes on
\* with the keys it was given, whatever is cached by then.
KeysFresh == jwks.keys # {} /\ clock < jwks.fetchedAt + JwksTtl
TakesKeys(c, keys) ==
  callbacks' = [callbacks EXCEPT ![c].pc = "verify", ![c].keys = keys] /\ UNCHANGED cookie
FetchJwks(c) ==
  /\ CallbackAt(c, "keys")
  /\ \/ KeysFresh /\ TakesKeys(c, jwks.keys) /\ UNCHANGED jwks
     \/ ~KeysFresh /\ TakesKeys(c, {signing}) /\ jwks' = [keys |-> {signing}, fetchedAt |-> clock]
     \/ ~KeysFresh /\ Fail(c) /\ UNCHANGED jwks
  /\ UNCHANGED <<clock, begun, remote, sessions>>

\* verifyJwtWithJwks and the nonce.
Verifies(token, keys, nonce) == token.kid \in keys /\ ~Expired(token.exp) /\ token.nonce = nonce
Verify(c) == LET call == callbacks[c] IN
  /\ CallbackAt(c, "verify")
  /\ IF Verifies(call.token, call.keys, call.flow) THEN GoesOn(c, "issue") ELSE Fail(c)
  /\ UNCHANGED <<clock, begun, remote, jwks, sessions>>

\* The userinfo call: it answers for whoever the access token belongs to, or fails.
Userinfo(c) ==
  /\ CallbackAt(c, "userinfo")
  /\ GoesOn(c, "issue") \/ Fail(c)
  /\ UNCHANGED <<clock, begun, remote, jwks, sessions>>

\* resolveSocialUser refuses, or issueCredential makes the session.
Issue(c) == LET call == callbacks[c] IN
  /\ CallbackAt(c, "issue")
  /\ Answer(c, call.browser)
  /\ \/ UNCHANGED sessions
     \/ sessions' = sessions \cup {[browser |-> call.browser, subject |-> call.token.sub,
                                   flow |-> call.flow, at |-> call.at]}
  /\ UNCHANGED <<clock, begun, remote, jwks>>

\* The process restarts: callbacks die without an answer and the key cache is empty; the
\* sealed flows are in the browsers.
Restart ==
  /\ callbacks' = [c \in Served |-> NoCallback] /\ jwks' = [keys |-> {}, fetchedAt |-> 0]
  /\ UNCHANGED <<clock, begun, cookie, remote, sessions>>
Tick == clock < MaxClock /\ clock' = clock + 1
        /\ UNCHANGED <<begun, cookie, remote, jwks, callbacks, sessions>>

Away == \/ \E b \in Browsers, p \in Providers, f \in Flows : Begin(b, p, f)
        \/ \E f \in Flows, s \in Subjects \cup {Nobody} : SendBack(f, s)
        \/ \E k \in SigningKeys : Rotate(k)
Back(c) == \/ \E b \in Browsers, url \in returns : Callback(c, b, url)
           \/ Exchange(c) \/ FetchJwks(c) \/ Verify(c) \/ Userinfo(c) \/ Issue(c)
SignInNext == Away \/ Restart \/ Tick \/ \E c \in Served : Back(c)
SignInSpec == SignInInit /\ [][SignInNext]_signInVars

-----------------------------------------------------------------------------
SignInTypeOK ==
  /\ clock \in 0..MaxClock /\ signing \in SigningKeys /\ jwks.keys \subseteq SigningKeys
  /\ \A b \in Browsers : cookie[b].flow \in Flows \cup {Nobody}
  /\ \A c \in Served : callbacks[c].pc \in {"idle", "exchange", "keys", "verify", "userinfo", "issue"}

(* A session is for whoever consented in the flow that this very browser     *)
(* began, whichever tab finished first and whatever callback was opened      *)
(* where (state, nonce and PKCE together); one consent makes one session;    *)
(* and the flow was not older than its five minutes, and the clock skew      *)
(* tolerated on top, when the browser came back.                             *)
SessionMatchesFlow ==
  /\ \A s \in sessions :
       /\ begun[s.flow].browser = s.browser
       /\ \E u \in returns : u.state = s.flow /\ u.subject = s.subject
       /\ s.at <= begun[s.flow].at + FlowTtl + Tolerance
  /\ \A s, t \in sessions : s.flow = t.flow => s = t
=============================================================================
