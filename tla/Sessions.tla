------------------------------- MODULE Sessions -------------------------------
(***************************************************************************)
(* Who may call the Gateway, and how often a call counts.  A Device, a     *)
(* Worker or a service proves its key by signing a one-time challenge and  *)
(* gets a session (gateway/app.py: challenge, create_session); it signs    *)
(* every mutation with a nonce (crypto/http_signatures.py), and the        *)
(* Gateway accepts the signature inside a window around its own clock and  *)
(* remembers the nonce for a while (gateway/database.py:                   *)
(* claim_request_nonce).  The handlers run in threads, a call can reach    *)
(* the Gateway twice or late, expired rows are pruned at any time, and a   *)
(* principal can be revoked between any two steps.                         *)
(*                                                                         *)
(* Signatures are taken to be unforgeable and random ids unique: a call is *)
(* the login or the request it was signed for.  A refused call, the public *)
(* rate limit and the size limits included, changes no row.                *)
(***************************************************************************)
EXTENDS Integers

CONSTANTS
    Principals,     \* Devices, Workers and services
    Challenges,     \* login challenges
    SessionIds,     \* sessions
    LoginCalls,     \* threads that handle POST /auth/sessions
    Signed,         \* signed mutations, each with its own nonce
    Deliveries,     \* requests being handled
    NoId,           \* none of these
    ChallengeTtl, SessionTtl, NonceTtl,   \* lifetimes of the rows
    MaxAge, MaxSkew,                      \* the window of a signature
    MaxLag,         \* longest wait between the window and the nonce checks
    CreatedTimes,   \* times the clocks of the callers may show
    LastTime        \* bound on the clock

\* A nonce is remembered for longer than its signature can be accepted
\* (600 s; 30 s early to 300 s late).
ASSUME WindowAssumption ==
    /\ NonceTtl \in Nat /\ MaxAge \in Nat /\ MaxSkew \in Nat /\ MaxLag \in Nat
    /\ NonceTtl > MaxSkew + MaxAge + MaxLag
    /\ ChallengeTtl \in Nat /\ SessionTtl \in Nat /\ NoId \notin Challenges
    /\ CreatedTimes \subseteq Int /\ LastTime \in Nat

VARIABLES
    authClock,   \* the Gateway's clock
    subject,     \* status of each principal's row
    operator,    \* the User that set the Gateway up exists
    challenge,   \* rows of auth_challenges and service_auth_challenges
    login,       \* logins being handled
    session,     \* rows of sessions
    held,        \* the session token a principal holds
    request,     \* the signed mutations
    delivery,    \* requests being handled
    nonce,       \* rows of request_nonces: when each expires, or 0
    opened,      \* sessions each challenge opened
    accepted     \* times each mutation passed

authVars == <<authClock, subject, operator, challenge, login, session, held, request,
              delivery, nonce, opened, accepted>>

NoChallenge == [state |-> "none", who |-> NoId, expires |-> 0]

NoSession == [state |-> "none", who |-> NoId, expires |-> 0]

IdleLogin == [pc |-> "idle", who |-> NoId, by |-> NoId]

IdleDelivery == [pc |-> "idle", of |-> NoId, at |-> 0]

SessionsInit ==
    /\ authClock = 0
    /\ subject = [p \in Principals |-> "none"]
    /\ operator = FALSE
    /\ challenge = [c \in Challenges |-> NoChallenge]
    /\ login = [l \in LoginCalls |-> IdleLogin]
    /\ session = [s \in SessionIds |-> NoSession]
    /\ held = [p \in Principals |-> NoId]
    /\ request = [r \in Signed |-> [state |-> "unsent", who |-> NoId, token |-> NoId, created |-> 0]]
    /\ delivery = [d \in Deliveries |-> IdleDelivery]
    /\ nonce = [r \in Signed |-> 0]
    /\ opened = [c \in Challenges |-> 0]
    /\ accepted = [r \in Signed |-> 0]

-----------------------------------------------------------------------------
(* Principals *)

\* An enrollment that does not log in: the principal asks for a challenge.
Enrolls(p) ==
    /\ subject[p] = "none"
    /\ subject' = [subject EXCEPT ![p] = "active"]
    /\ UNCHANGED <<authClock, operator, challenge, login, session, held, request, delivery,
                   nonce, opened, accepted>>

\* The User that sets the Gateway up, with its first Device, once.
FirstOperator(p) ==
    /\ ~operator /\ subject[p] = "none"
    /\ operator' = TRUE
    /\ subject' = [subject EXCEPT ![p] = "active"]

\* The rows first; the session is opened afterwards.
BootstrapOperator(l, p) ==
    /\ login[l].pc = "idle"
    /\ FirstOperator(p)
    /\ login' = [login EXCEPT ![l] = [pc |-> "proven", who |-> p, by |-> NoId]]
    /\ UNCHANGED <<authClock, challenge, session, held, request, delivery, nonce, opened,
                   accepted>>

\* A new Device of a User with the root key; its session is opened afterwards.
RecoversDevice(l, p) ==
    /\ login[l].pc = "idle" /\ subject[p] = "none"
    /\ \E q \in Principals : subject[q] # "none"
    /\ subject' = [subject EXCEPT ![p] = "active"]
    /\ login' = [login EXCEPT ![l] = [pc |-> "proven", who |-> p, by |-> NoId]]
    /\ UNCHANGED <<authClock, operator, challenge, session, held, request, delivery, nonce,
                   opened, accepted>>

\* The row and every open session of the principal, in one transaction.
RevokesPrincipal(p) ==
    /\ subject[p] = "active"
    /\ subject' = [subject EXCEPT ![p] = "revoked"]
    /\ session' = [s \in SessionIds |->
                     IF session[s].state = "open" /\ session[s].who = p
                     THEN [session[s] EXCEPT !.state = "revoked"] ELSE session[s]]
    /\ UNCHANGED <<authClock, operator, challenge, login, held, request, delivery, nonce,
                   opened, accepted>>

-----------------------------------------------------------------------------
(* Logging in *)

CreatedChallenge(p) == [state |-> "live", who |-> p, expires |-> authClock + ChallengeTtl]

AsksChallenge(p, c) ==
    /\ subject[p] = "active"
    /\ challenge[c].state = "none" /\ opened[c] = 0
    /\ challenge' = [challenge EXCEPT ![c] = CreatedChallenge(p)]
    /\ UNCHANGED <<authClock, subject, operator, login, session, held, request, delivery,
                   nonce, opened, accepted>>

LiveChallenge(c, p) ==
    challenge[c].state = "live" /\ challenge[c].who = p /\ challenge[c].expires > authClock

\* Reads the principal and the challenge and verifies the signature; the
\* same signed challenge may be posted again.
LoginVerifies(l, c) ==
    /\ login[l].pc = "idle"
    /\ \E p \in Principals :
        /\ subject[p] = "active" /\ LiveChallenge(c, p)
        /\ login' = [login EXCEPT ![l] = [pc |-> "verified", who |-> p, by |-> c]]
    /\ UNCHANGED <<authClock, subject, operator, challenge, session, held, request, delivery,
                   nonce, opened, accepted>>

\* The challenge is read again and consumed in a transaction of its own; a
\* login that comes second is refused.
ConsumesChallenge(l) ==
    /\ login[l].pc = "verified"
    /\ \/ /\ LiveChallenge(login[l].by, login[l].who)
          /\ challenge' = [challenge EXCEPT ![login[l].by].state = "consumed"]
          /\ login' = [login EXCEPT ![l].pc = "proven"]
       \/ /\ ~LiveChallenge(login[l].by, login[l].who)
          /\ login' = [login EXCEPT ![l] = IdleLogin]
          /\ UNCHANGED challenge
    /\ UNCHANGED <<authClock, subject, operator, session, held, request, delivery, nonce,
                   opened, accepted>>

\* The answer with the token, unless it is lost.
TokenAnswered(p, s) == held' = [held EXCEPT ![p] = s] \/ UNCHANGED held

\* Inserts the session, whatever became of the principal since.
OpensSession(l, s) ==
    /\ login[l].pc = "proven" /\ session[s].state = "none"
    /\ session' = [session EXCEPT ![s] =
                     [state |-> "open", who |-> login[l].who, expires |-> authClock + SessionTtl]]
    /\ opened' = [c \in Challenges |-> opened[c] + IF c = login[l].by THEN 1 ELSE 0]
    /\ login' = [login EXCEPT ![l] = IdleLogin]
    /\ TokenAnswered(login[l].who, s)
    /\ UNCHANGED <<authClock, subject, operator, challenge, request, delivery, nonce, accepted>>

-----------------------------------------------------------------------------
(* Signed mutations *)

\* Signed with the caller's clock and sent with the token it holds.
SignsRequest(p, r, created) ==
    /\ held[p] # NoId /\ request[r].state = "unsent"
    /\ request' = [request EXCEPT ![r] =
                     [state |-> "sent", who |-> p, token |-> held[p], created |-> created]]
    /\ UNCHANGED <<authClock, subject, operator, challenge, login, session, held, delivery,
                   nonce, opened, accepted>>

Resolves(s) == session[s].state = "open" /\ session[s].expires > authClock

ActiveSubject(p) == subject[p] = "active"

\* The middleware, before the body is read: the bearer is an open session of
\* an active principal.  The request may have been delivered before.
Authenticates(d, r) ==
    /\ delivery[d].pc = "idle" /\ request[r].state = "sent"
    /\ Resolves(request[r].token) /\ ActiveSubject(request[r].who)
    /\ delivery' = [delivery EXCEPT ![d] = [pc |-> "authenticated", of |-> r, at |-> 0]]
    /\ UNCHANGED <<authClock, subject, operator, challenge, login, session, held, request,
                   nonce, opened, accepted>>

InWindowUnskewed(r) == authClock - request[r].created <= MaxAge

InWindow(r) ==
    /\ request[r].created <= authClock + MaxSkew
    /\ authClock - request[r].created <= MaxAge

\* Under the key of an active principal, and held against the clock.
SignatureHolds(r) == ActiveSubject(request[r].who) /\ InWindow(r)

\* After the body: the principal is read again, not the session.
ChecksSignature(d) ==
    /\ delivery[d].pc = "authenticated"
    /\ LET r == delivery[d].of
       IN  delivery' = [delivery EXCEPT ![d] =
                          IF SignatureHolds(r) THEN [pc |-> "checked", of |-> r, at |-> authClock]
                          ELSE IdleDelivery]
    /\ UNCHANGED <<authClock, subject, operator, challenge, login, session, held, request,
                   nonce, opened, accepted>>

\* Rows that had expired at t are gone.
Unexpired(t) == [r \in Signed |-> IF nonce[r] <= t THEN 0 ELSE nonce[r]]

\* Claims the nonce with a time read before it waited for the database: the
\* request runs, or its recorded answer is replayed, only when the row is new.
ClaimsNonce(d) ==
    /\ delivery[d].pc = "checked"
    /\ \E t \in delivery[d].at..authClock :
        LET r == delivery[d].of
            fresh == Unexpired(t)[r] = 0
        IN  /\ nonce' = IF fresh THEN [Unexpired(t) EXCEPT ![r] = t + NonceTtl] ELSE Unexpired(t)
            /\ accepted' = [accepted EXCEPT ![r] = IF fresh THEN accepted[r] + 1 ELSE accepted[r]]
    /\ delivery' = [delivery EXCEPT ![d] = IdleDelivery]
    /\ UNCHANGED <<authClock, subject, operator, challenge, login, session, held, request,
                   opened>>

-----------------------------------------------------------------------------
(* Time *)

\* Expired rows are deleted by the Gateway's sweep.
PrunesExpired ==
    /\ challenge' = [c \in Challenges |->
                       IF challenge[c].state # "none" /\ challenge[c].expires <= authClock
                       THEN [challenge[c] EXCEPT !.state = "pruned"] ELSE challenge[c]]
    /\ session' = [s \in SessionIds |->
                     IF session[s].state # "none" /\ session[s].expires <= authClock
                     THEN [session[s] EXCEPT !.state = "pruned"] ELSE session[s]]
    /\ nonce' = Unexpired(authClock)
    /\ UNCHANGED <<authClock, subject, operator, login, held, request, delivery, opened,
                   accepted>>

\* The two checks of a signature lie at most MaxLag apart.
TimePasses ==
    /\ authClock < LastTime
    /\ \A d \in Deliveries : delivery[d].pc = "checked" => authClock < delivery[d].at + MaxLag
    /\ authClock' = authClock + 1
    /\ UNCHANGED <<subject, operator, challenge, login, session, held, request, delivery,
                   nonce, opened, accepted>>

SessionsNext ==
    \/ \E p \in Principals : Enrolls(p) \/ RevokesPrincipal(p)
    \/ \E l \in LoginCalls, p \in Principals : BootstrapOperator(l, p) \/ RecoversDevice(l, p)
    \/ \E p \in Principals, c \in Challenges : AsksChallenge(p, c)
    \/ \E l \in LoginCalls, c \in Challenges : LoginVerifies(l, c)
    \/ \E l \in LoginCalls : ConsumesChallenge(l)
    \/ \E l \in LoginCalls, s \in SessionIds : OpensSession(l, s)
    \/ \E p \in Principals, r \in Signed, t \in CreatedTimes : SignsRequest(p, r, t)
    \/ \E d \in Deliveries, r \in Signed : Authenticates(d, r)
    \/ \E d \in Deliveries : ChecksSignature(d) \/ ClaimsNonce(d)
    \/ PrunesExpired
    \/ TimePasses

-----------------------------------------------------------------------------
(* Properties *)

PassesOnce == \A r \in Signed : accepted[r] <= 1

OpensOnce == \A c \in Challenges : opened[c] <= 1

\* A signature counts once.  A signed mutation passes at most once, however
\* often and however late it is delivered: while its signature can be accepted
\* its nonce is remembered, although every request deletes expired nonces
\* (claim_request_nonce) and the time of the window and that of the nonce are
\* read apart.  And a signed challenge opens at most one session: logins that
\* read it together are told apart when it is consumed (consume_challenge).
SignaturesCountOnce == PassesOnce /\ OpensOnce

SessionsSpec == SessionsInit /\ [][SessionsNext]_authVars
=============================================================================
