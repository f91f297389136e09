------------------------------- MODULE Access -------------------------------
(***************************************************************************)
(* Who gets to the signaling room: the Pages Function that exchanges a     *)
(* Cloudflare Access assertion for a session ticket (ticket.ts,            *)
(* accessAuth.ts), the three kinds of signed tokens (sessionTicket.ts,     *)
(* deviceToken.ts, ticket.ts), and the Worker that verifies them on /ws    *)
(* and /turn (index.ts, productionWebSocket.ts, turnCredentials.ts).       *)
(*                                                                         *)
(* A token is a record with the key that signed it: encoding, HMAC and     *)
(* JSON are external, and a token verifies under the key that signed it.   *)
(* The two services keep their own clocks, `offset' apart.  Time is in     *)
(* ticks; the lifetimes and the 30 s tolerance are constants.              *)
(***************************************************************************)
EXTENDS Integers, FiniteSets

CONSTANTS
    Account,        \* records [subject, email]; the email may be ""
    SessionId,      \* session ids
    Secret,         \* secrets of at least 32 characters
    ShortSecret,    \* one that is not
    None,
    Lifetime,       \* of a session ticket (5 min), a development ticket
    DeviceLifetime, \* of a device token (90 days)
    AssertionLifetime, \* of an Access assertion
    Skew,           \* how far in the future `iat' may lie (30 s)
    Offset,         \* the Worker's clock minus the Pages Function's
    MaxTime, MaxTokens  \* bounds

ASSUME AccessAssumption ==
    /\ Lifetime \in Nat \ {0} /\ DeviceLifetime \in Nat \ {0} /\ Skew \in Nat
    /\ AssertionLifetime \in Nat \ {0}
    /\ Offset \subseteq Int /\ MaxTime \in Nat /\ MaxTokens \in Nat
    /\ None \notin Secret /\ ShortSecret \notin Secret \union {None}
    /\ None \notin {"app", "localhost:5173"}

ASSUME AccountAssumption == \A a \in Account : a.subject # ""

VARIABLES
    time, offset,       \* the Pages Function's clock; the difference
    \* configuration: None when unset
    issuerSecret,       \* SESSION_TICKET_SECRET of the Pages Function
    ticketSecret, deviceAuthSecret, devSecret, viewerOrigin,    \* of the Worker
    allowed,            \* ACCESS_ALLOWED_EMAILS
    assertion,          \* the accounts' Access assertions: their expiry, 0 for none
    tokens,             \* signed tokens in circulation
    reply,              \* the response the last step made, if it made one
    grants              \* history: [sub, sessionId, at] Access stood for

configVars == <<offset, issuerSecret, ticketSecret, deviceAuthSecret, devSecret, viewerOrigin>>
accessVars == <<time, configVars, allowed, assertion, tokens, reply, grants>>

WorkerNow == time + offset
AppOrigin == "app"
LocalOrigin == "localhost:5173"
Origins == {None, AppOrigin, LocalOrigin}
Ids(a) == {a.subject, a.email} \ {""}
Sub(a) == IF a.email # "" THEN a.email ELSE a.subject
\* Access vouches for the account, and the operator's list, if there is one, names it.
Entitled(a) == assertion[a] > time /\ (allowed = {} \/ Ids(a) \intersect allowed # {})
LocalUser == "local-development-user"

NoReply == [what |-> "none", code |-> "none", role |-> None, token |-> None, origin |-> None, local |-> FALSE]

AccessTypeOK ==
    /\ time \in 0..MaxTime /\ offset \in Offset
    /\ {issuerSecret, ticketSecret, deviceAuthSecret, devSecret} \subseteq Secret \union {ShortSecret, None}
    /\ viewerOrigin \in {None, AppOrigin}
    /\ allowed \subseteq UNION {Ids(a) : a \in Account}
    /\ assertion \in [Account -> 0..MaxTime + AssertionLifetime]
    /\ Cardinality(tokens) <= MaxTokens
    /\ \A t \in tokens : t.key \in Secret /\ t.iat < t.exp
    /\ \A g \in grants : g.at <= time

AccessInit ==
    /\ time = 0 /\ offset \in Offset
    /\ issuerSecret \in Secret \union {ShortSecret, None}
    /\ ticketSecret \in Secret \union {None} /\ deviceAuthSecret \in Secret \union {None}
    /\ devSecret \in Secret \union {None} /\ viewerOrigin \in {None, AppOrigin}
    /\ allowed = {} /\ assertion = [a \in Account |-> 0]
    /\ tokens = {} /\ reply = NoReply /\ grants = {}

-----------------------------------------------------------------------------
(* The environment: time, the Access login page, the operator *)

Quiet == reply' = NoReply

ClockTick ==
    /\ time < MaxTime /\ time' = time + 1 /\ Quiet
    /\ UNCHANGED <<configVars, allowed, assertion, tokens, grants>>

SignIn(a) == /\ assertion' = [assertion EXCEPT ![a] = time + AssertionLifetime] /\ Quiet
             /\ UNCHANGED <<time, configVars, allowed, tokens, grants>>

SignOut(a) == /\ assertion' = [assertion EXCEPT ![a] = 0] /\ Quiet
              /\ UNCHANGED <<time, configVars, allowed, tokens, grants>>

SetAllowed(ids) == /\ allowed' = ids /\ Quiet
                   /\ UNCHANGED <<time, configVars, assertion, tokens, grants>>

-----------------------------------------------------------------------------
(* Tokens *)

\* The payload createSessionTicket(), createDeviceToken() and createDevelopmentTicket() sign.
Token(iss, role, key, now, life, sub, s) ==
    [iss |-> iss, role |-> role, key |-> key, iat |-> now, exp |-> now + life,
     sub |-> sub, sessionId |-> s]

Add(t) == Cardinality(tokens) < MaxTokens /\ tokens' = tokens \union {t}

\* createDeviceToken(), run by the operator with the Worker's secret.
MintDeviceToken ==
    /\ deviceAuthSecret \in Secret /\ Quiet
    /\ \E s \in SessionId :
         Add(Token("my-mirror-device-v1", "agent", deviceAuthSecret, WorkerNow, DeviceLifetime, "owner", s))
    /\ UNCHANGED <<time, configVars, allowed, assertion, grants>>

\* createDevelopmentTicket()
MintDevelopmentTicket(role) ==
    /\ devSecret \in Secret /\ Quiet
    /\ \E s \in SessionId :
         Add(Token("my-mirror-m0-local", role, devSecret, WorkerNow, Lifetime, LocalUser, s))
    /\ UNCHANGED <<time, configVars, allowed, assertion, grants>>

\* Mutant: no tolerance for a clock that is behind.
InTimeNoSkew(t, max) ==
    /\ t.iat <= WorkerNow /\ t.exp > WorkerNow /\ t.exp - t.iat <= max

\* The time checks the three verify functions share.
InTime(t, max) ==
    /\ t.iat <= WorkerNow + Skew
    /\ t.exp > WorkerNow
    /\ t.exp - t.iat <= max

\* isSessionTicketPayload(): the permission claim tells it apart, the issuer and the role
IsSessionTicketPayload(t) == t.iss = "my-mirror-prod-v1" /\ t.role = "viewer"

IsDeviceTokenPayload(t) == t.iss = "my-mirror-device-v1" /\ t.role = "agent"

IsDevelopmentTicketPayload(t) ==
    t.iss = "my-mirror-m0-local" /\ t.role \in {"agent", "viewer"} /\ t.sub = LocalUser

\* The HMAC over the encoded payload: a token verifies under the secret it was signed with.
SignedWith(t, secret) == t.key = secret

\* verifySessionTicket(), verifyDeviceToken() and verifyDevelopmentTicket(): signature,
\* payload, times; the longest lifetimes are three, five and two default ones.  A short
\* secret throws, and the result is null.
VerifySessionTicket(t, secret) ==
    /\ SignedWith(t, secret) /\ IsSessionTicketPayload(t) /\ InTime(t, 3 * Lifetime)

VerifyDeviceToken(t, secret) ==
    /\ SignedWith(t, secret) /\ IsDeviceTokenPayload(t) /\ InTime(t, 5 * DeviceLifetime)

VerifyDevelopmentTicket(t, secret) ==
    /\ SignedWith(t, secret) /\ IsDevelopmentTicketPayload(t) /\ InTime(t, 2 * Lifetime)

-----------------------------------------------------------------------------
(* GET /session/ticket *)

\* Mutant: the allow-list is not looked at.
VerifyAssertionOnly(a) == assertion[a] > time

\* verifyAccessJwt(), for an assertion of this deployment's issuer and audience
VerifyAccessJwt(a) ==
    /\ assertion[a] > time
    /\ allowed = {} \/ Ids(a) \intersect allowed # {}

\* readAccessToken(): the header or the cookie has an assertion, possibly an expired one.
HasAssertion(a) == assertion[a] # 0

\* readResumeSessionId() and opaqueId(): the session asked for, or any new one.
SessionFor(resume) == IF resume = None THEN SessionId ELSE {resume}

Respond(what, code, role, t, o, local) ==
    reply' = [what |-> what, code |-> code, role |-> role, token |-> t, origin |-> o, local |-> local]

Refuse(code) == Respond("ticket", code, None, None, None, FALSE) /\ UNCHANGED <<tokens, grants>>

\* handleSessionTicketRequest(): resume is the id asked for, None for none; `bad' stands
\* for one that is not a session id.
SessionTicket(a, resume) ==
    /\ \/ issuerSecret = None /\ Refuse("PRODUCTION_AUTH_NOT_CONFIGURED")
       \/ issuerSecret # None /\ ~HasAssertion(a) /\ Refuse("ACCESS_ASSERTION_MISSING")
       \/ issuerSecret # None /\ HasAssertion(a) /\ ~VerifyAccessJwt(a) /\ Refuse("ACCESS_DENIED")
       \/ /\ issuerSecret # None /\ HasAssertion(a) /\ VerifyAccessJwt(a)
          /\ \/ resume = "bad" /\ Refuse("INVALID_RESUME_SESSION_ID")
             \/ resume # "bad" /\ issuerSecret = ShortSecret /\ Refuse("TICKET_ISSUER_ERROR")
             \/ /\ resume # "bad" /\ issuerSecret # ShortSecret
                /\ \E s \in SessionFor(resume) :
                     /\ LET t == Token("my-mirror-prod-v1", "viewer", issuerSecret, time, Lifetime, Sub(a), s)
                        IN  Add(t) /\ Respond("ticket", "ok", "viewer", t, None, FALSE)
                     /\ grants' = IF Entitled(a)
                                  THEN grants \union {[sub |-> Sub(a), sessionId |-> s, at |-> time]}
                                  ELSE grants
    /\ UNCHANGED <<time, configVars, allowed, assertion>>

-----------------------------------------------------------------------------
(* The Worker *)

\* handleDevWebSocketUpgrade()
DevUpgrade(t, o) ==
    IF devSecret = None \/ t = None THEN "UNAUTHORIZED"
    ELSE IF ~VerifyDevelopmentTicket(t, devSecret) THEN "UNAUTHORIZED"
    ELSE IF (t.role = "viewer" /\ o # LocalOrigin) \/ (t.role = "agent" /\ o # None)
         THEN "ORIGIN_REJECTED" ELSE "accepted"

\* handleViewerUpgrade()
ViewerUpgrade(t, o) ==
    IF ticketSecret = None THEN "PRODUCTION_AUTH_NOT_CONFIGURED"
    ELSE IF viewerOrigin # None /\ o # viewerOrigin THEN "ORIGIN_REJECTED"
    ELSE IF t = None THEN "UNAUTHORIZED"
    ELSE IF VerifySessionTicket(t, ticketSecret) THEN "accepted" ELSE "UNAUTHORIZED"

\* handleAgentUpgrade()
AgentUpgrade(t) ==
    IF deviceAuthSecret = None THEN "PRODUCTION_AUTH_NOT_CONFIGURED"
    ELSE IF t = None THEN "UNAUTHORIZED"
    ELSE IF VerifyDeviceToken(t, deviceAuthSecret) THEN "accepted" ELSE "UNAUTHORIZED"

\* handleProductionWebSocketUpgrade(): the presence of an Origin header decides on the role.
ProductionUpgrade(t, o) == IF o = None THEN AgentUpgrade(t) ELSE ViewerUpgrade(t, o)

\* handleWebSocketUpgrade(): the host decides on development or production.
Upgrade(t, o, local) ==
    LET code == IF local THEN DevUpgrade(t, o) ELSE ProductionUpgrade(t, o)
        role == IF local /\ t # None THEN t.role ELSE IF o = None THEN "agent" ELSE "viewer"
    IN  /\ Respond("ws", code, role, t, o, local)
        /\ UNCHANGED <<time, configVars, allowed, assertion, tokens, grants>>

IsAuthenticatedPeer(t) ==
    \/ ticketSecret # None /\ VerifySessionTicket(t, ticketSecret)
    \/ deviceAuthSecret # None /\ VerifyDeviceToken(t, deviceAuthSecret)

\* handleTurnRequest(): credentials, or an empty list where TURN is not set up
Turn(t) ==
    /\ Respond("turn", IF t # None /\ IsAuthenticatedPeer(t) THEN "ok" ELSE "UNAUTHORIZED",
               None, t, None, FALSE)
    /\ UNCHANGED <<time, configVars, allowed, assertion, tokens, grants>>

-----------------------------------------------------------------------------
AccessNext ==
    \/ ClockTick \/ MintDeviceToken
    \/ \E a \in Account : SignIn(a) \/ SignOut(a) \/ \E r \in SessionId \union {None, "bad"} : SessionTicket(a, r)
    \/ \E a \in Account : SetAllowed({Sub(a)})
    \/ \E role \in {"agent", "viewer"} : MintDevelopmentTicket(role)
    \/ \E t \in tokens \union {None} :
         Turn(t) \/ \E o \in Origins, local \in BOOLEAN : Upgrade(t, o, local)

AccessSpec == AccessInit /\ [][AccessNext]_accessVars

-----------------------------------------------------------------------------
(* Properties *)

Accepted == reply.what = "ws" /\ reply.code = "accepted"

\* "a short-lived, HMAC-signed ticket the Worker issues to a viewer AFTER the user has
\* passed Cloudflare Access": a viewer that reaches the production room is one Access
\* vouched for, under the same session id, less than a ticket's lifetime ago, up to the
\* difference of the two clocks; no longer if the account is signed out or struck off
\* the list in the meantime.
ViewersWereEntitled ==
    Accepted /\ ~reply.local /\ reply.role = "viewer" =>
        \E g \in grants : /\ g.sub = reply.token.sub /\ g.sessionId = reply.token.sessionId
                          /\ time - g.at < Lifetime - offset

\* "a viewer ticket can never authenticate an agent and vice versa", and a development
\* ticket is good on a local host only, even where one secret signs all three.
RolesKeptApart ==
    Accepted => reply.token.iss = IF reply.local THEN "my-mirror-m0-local"
                                  ELSE IF reply.role = "agent" THEN "my-mirror-device-v1"
                                  ELSE "my-mirror-prod-v1"

\* The two services agree: a ticket used at once is accepted as long as the Worker's
\* clock is at most Skew behind and less than a lifetime ahead.
FreshTicketAccepted ==
    /\ reply.what = "ws" /\ ~reply.local /\ reply.origin = AppOrigin /\ reply.token # None
    /\ reply.token.iss = "my-mirror-prod-v1" /\ reply.token.iat = time
    /\ reply.token.key = ticketSecret /\ -Skew <= offset /\ offset < Lifetime
    => reply.code = "accepted"

\* Relay credentials go to a peer that /ws would let in, never for want of a secret.
RelayForPeersOnly ==
    reply.what = "turn" /\ reply.code = "ok" =>
        /\ reply.token.key \in {ticketSecret, deviceAuthSecret}
        /\ reply.token.iss \in {"my-mirror-prod-v1", "my-mirror-device-v1"}
        /\ reply.token.exp > time + offset

\* Each request is answered for the token it brings: its kind decides the role, its key
\* and its times whether it counts, on services whose clocks differ within the tolerance.
AccessInv == AccessTypeOK /\ RolesKeptApart /\ FreshTicketAccepted /\ RelayForPeersOnly
=============================================================================
