----------------------------- MODULE CallProofs -----------------------------
(***************************************************************************)
(* Proofs about calls to the Gateway that may be repeated, late, lost or   *)
(* made at the same time.  A signature counts once, for any number of      *)
(* principals, threads and deliveries.  A queued task has its inputs, for  *)
(* any number of invocations, inputs and crashes.  Commands that publish   *)
(* into one directory replace no output they were not told to.  The rows of*)
(* the usage ledger stay one chain, for any number of handlers.            *)
(***************************************************************************)
EXTENDS Sessions, TaskSubmit, TaskOutputs, UsageLedger, SequenceTheorems, TLAPS

-----------------------------------------------------------------------------
(* Signatures, nonces and sessions *)

\* A request under way was sent; past the window check it is in the window
\* and will reach the table of nonces in time.
DeliveryGood(d, q, now) ==
    /\ d.pc \in {"idle", "authenticated", "checked"}
    /\ d.pc # "idle" => d.of \in Signed /\ q[d.of].state = "sent"
    /\ d.pc = "checked" =>
         /\ d.at \in Nat /\ d.at <= now /\ now <= d.at + MaxLag
         /\ q[d.of].created - MaxSkew <= d.at /\ d.at <= q[d.of].created + MaxAge

\* A request passed once at most, and the nonce of one that passed is kept
\* until its signature is too old for every call that may still claim it.
NonceGood(n, a, q, now) ==
    /\ n \in Int /\ a \in {0, 1} /\ q.created \in Int /\ q.state \in {"unsent", "sent"}
    /\ a = 1 =>
         /\ q.state = "sent"
         /\ n >= q.created - MaxSkew + NonceTtl \/ now >= q.created - MaxSkew + NonceTtl

\* The inductive invariant of the signed mutations.
RequestsGood ==
    /\ authClock \in Nat
    /\ delivery = [d \in Deliveries |-> delivery[d]]
    /\ request = [r \in Signed |-> request[r]]
    /\ nonce = [r \in Signed |-> nonce[r]]
    /\ accepted = [r \in Signed |-> accepted[r]]
    /\ \A d \in Deliveries : DeliveryGood(delivery[d], request, authClock)
    /\ \A r \in Signed : NonceGood(nonce[r], accepted[r], request[r], authClock)

\* Shape of the logins being handled.
LoginRows ==
    [LoginCalls -> [pc : {"idle", "verified", "proven"}, who : Principals \cup {NoId},
                    by : Challenges \cup {NoId}]]

\* Shape of the challenge rows.
ChallengeRows ==
    [Challenges -> [state : {"none", "live", "consumed", "pruned"},
                    who : Principals \cup {NoId}, expires : Int]]

\* The challenge of a proven login is used up and has opened no session yet.
ProvenGood(l, ch, op) ==
    l.pc = "proven" /\ l.by \in Challenges =>
        ch[l.by].state \notin {"none", "live"} /\ op[l.by] = 0

\* Two logins proven by one challenge.
ProvenOnce(l, m) == l.pc = "proven" /\ m.pc = "proven" /\ l.by = m.by /\ l.by \in Challenges

\* A challenge that can still be consumed has proven no login and opened no
\* session; a consumed one has done one of the two, once.
LoginsGood ==
    /\ login \in LoginRows
    /\ challenge \in ChallengeRows
    /\ authClock \in Nat
    /\ opened \in [Challenges -> {0, 1}]
    /\ \A c \in Challenges : challenge[c].state \in {"none", "live"} => opened[c] = 0
    /\ \A l \in LoginCalls : login[l].pc = "verified" => login[l].by \in Challenges
    /\ \A l \in LoginCalls : ProvenGood(login[l], challenge, opened)
    /\ \A l, m \in LoginCalls : ProvenOnce(login[l], login[m]) => l = m

\* What the invariants of the mutations and of the logins read.
requestVars == <<authClock, request, delivery, nonce, accepted>>

loginVars == <<authClock, challenge, login, opened>>

\* The invariant of the mutations reads no other variable.
LEMMA RequestsUnchanged ==
    ASSUME RequestsGood, UNCHANGED requestVars
    PROVE  RequestsGood'
BY DEF RequestsGood, requestVars

\* The invariant of the logins reads no other variable.
LEMMA LoginsUnchanged ==
    ASSUME LoginsGood, UNCHANGED loginVars
    PROVE  LoginsGood'
BY DEF LoginsGood, loginVars

\* Both hold of the empty tables.
LEMMA SessionsStart ==
    ASSUME SessionsInit
    PROVE  RequestsGood /\ LoginsGood
<1>1. RequestsGood
  <2>1. \A d \in Deliveries : DeliveryGood(delivery[d], request, authClock)
    BY DEF SessionsInit, DeliveryGood, IdleDelivery
  <2>2. \A r \in Signed : NonceGood(nonce[r], accepted[r], request[r], authClock)
    BY DEF SessionsInit, NonceGood
  <2> QED
    BY <2>1, <2>2 DEF SessionsInit, RequestsGood
<1>2. LoginsGood
  BY DEF SessionsInit, LoginsGood, NoChallenge, IdleLogin, LoginRows, ChallengeRows,
     ProvenGood, ProvenOnce
<1> QED
  BY <1>1, <1>2

\* Signing (sign_http_request) starts a mutation that has not passed.
LEMMA SignsKeeps ==
    ASSUME RequestsGood, NEW p \in Principals, NEW r \in Signed, NEW t \in CreatedTimes,
           SignsRequest(p, r, t)
    PROVE  RequestsGood'
<1> USE WindowAssumption
<1>1. \A q \in Signed : q # r => request'[q] = request[q]
  BY DEF SignsRequest, RequestsGood
<1>2. request'[r].state = "sent" /\ request'[r].created = t /\ t \in Int
  BY DEF SignsRequest, RequestsGood
<1>3. request[r].state = "unsent" /\ accepted[r] = 0
  BY DEF SignsRequest, RequestsGood, NonceGood
<1>4. \A d \in Deliveries : DeliveryGood(delivery[d], request', authClock)
  BY <1>1, <1>3 DEF RequestsGood, DeliveryGood
<1>5. \A q \in Signed : NonceGood(nonce[q], accepted[q], request'[q], authClock)
  BY <1>1, <1>2, <1>3 DEF RequestsGood, NonceGood
<1>6. request' = [q \in Signed |-> request'[q]]
  BY DEF SignsRequest, RequestsGood
<1> QED
  BY <1>4, <1>5, <1>6 DEF RequestsGood, SignsRequest

\* The middleware (request_controls) takes up mutations that were sent.
LEMMA AuthenticatesKeeps ==
    ASSUME RequestsGood, NEW d \in Deliveries, NEW r \in Signed, Authenticates(d, r)
    PROVE  RequestsGood'
<1>1. \A e \in Deliveries : e # d => delivery'[e] = delivery[e]
  BY DEF Authenticates, RequestsGood
<1>2. delivery'[d] = [pc |-> "authenticated", of |-> r, at |-> 0] /\ request[r].state = "sent"
  BY DEF Authenticates, RequestsGood, NonceGood
<1>3. \A e \in Deliveries : DeliveryGood(delivery'[e], request, authClock)
  BY <1>1, <1>2 DEF RequestsGood, DeliveryGood
<1>4. delivery' = [e \in Deliveries |-> delivery'[e]]
  BY SMTT(30) DEF Authenticates, RequestsGood
<1> QED
  BY <1>3, <1>4 DEF RequestsGood, Authenticates

\* verify_http_request lets a signature on only inside its window.
LEMMA ChecksKeeps ==
    ASSUME RequestsGood, NEW d \in Deliveries, ChecksSignature(d)
    PROVE  RequestsGood'
<1> USE WindowAssumption
<1> DEFINE r == delivery[d].of
<1>1. \A e \in Deliveries : e # d => delivery'[e] = delivery[e]
  BY DEF ChecksSignature, RequestsGood
<1>2. r \in Signed /\ request[r].state = "sent" /\ request[r].created \in Int
  BY DEF ChecksSignature, RequestsGood, DeliveryGood, NonceGood
<1>3. \/ delivery'[d] = IdleDelivery
      \/ delivery'[d] = [pc |-> "checked", of |-> r, at |-> authClock] /\ InWindow(r)
  BY SMTT(30) DEF ChecksSignature, SignatureHolds, RequestsGood
<1>4. DeliveryGood(delivery'[d], request, authClock)
  BY <1>2, <1>3 DEF DeliveryGood, IdleDelivery, InWindow, RequestsGood
<1>5. \A e \in Deliveries : DeliveryGood(delivery'[e], request, authClock)
  BY <1>1, <1>4 DEF RequestsGood
<1>6. delivery' = [e \in Deliveries |-> delivery'[e]]
  BY DEF ChecksSignature, RequestsGood
<1> QED
  BY <1>5, <1>6 DEF RequestsGood, ChecksSignature

\* Deleting the rows that had expired by t keeps what must be kept.
LEMMA UnexpiredKeeps ==
    ASSUME RequestsGood, NEW t \in Nat, t <= authClock
    PROVE  \A r \in Signed : NonceGood(Unexpired(t)[r], accepted[r], request[r], authClock)
<1> USE WindowAssumption
<1> SUFFICES ASSUME NEW r \in Signed
             PROVE  NonceGood(Unexpired(t)[r], accepted[r], request[r], authClock)
  OBVIOUS
<1>1. NonceGood(nonce[r], accepted[r], request[r], authClock) /\ authClock \in Nat
  BY DEF RequestsGood
<1>2. Unexpired(t)[r] = nonce[r] \/ (nonce[r] <= t /\ Unexpired(t)[r] = 0)
  BY SMTT(30) DEF Unexpired
<1> QED
  BY <1>1, <1>2 DEF NonceGood

\* claim_request_nonce lets a mutation pass only when its nonce is not
\* remembered; in the window, one that passed still has its nonce.
LEMMA ClaimsKeeps ==
    ASSUME RequestsGood, NEW d \in Deliveries, ClaimsNonce(d)
    PROVE  RequestsGood'
<1> USE WindowAssumption
<1> DEFINE r == delivery[d].of
<1>1. PICK t \in delivery[d].at..authClock :
        /\ nonce' = IF Unexpired(t)[r] = 0 THEN [Unexpired(t) EXCEPT ![r] = t + NonceTtl]
                    ELSE Unexpired(t)
        /\ accepted' = [accepted EXCEPT ![r] =
                          IF Unexpired(t)[r] = 0 THEN accepted[r] + 1 ELSE accepted[r]]
  BY Zenon DEF ClaimsNonce
<1>2. /\ r \in Signed /\ request[r].state = "sent"
      /\ delivery[d].at \in Nat /\ authClock \in Nat
      /\ delivery[d].at <= authClock /\ authClock <= delivery[d].at + MaxLag
      /\ request[r].created - MaxSkew <= delivery[d].at
      /\ delivery[d].at <= request[r].created + MaxAge
  BY DEF ClaimsNonce, RequestsGood, DeliveryGood
<1>3. t \in Nat /\ delivery[d].at <= t /\ t <= authClock
  BY <1>2
<1>4. \A q \in Signed : NonceGood(Unexpired(t)[q], accepted[q], request[q], authClock)
  BY <1>3, UnexpiredKeeps
<1>5. \A q \in Signed : q # r => nonce'[q] = Unexpired(t)[q] /\ accepted'[q] = accepted[q]
  BY <1>1, <1>2 DEF Unexpired, RequestsGood
<1>6. NonceGood(nonce'[r], accepted'[r], request[r], authClock)
  <2>1. CASE Unexpired(t)[r] = 0
    <3>1. accepted[r] = 0
      BY SMTT(30), <1>2, <1>4, <2>1 DEF NonceGood
    <3>2. nonce'[r] = t + NonceTtl /\ accepted'[r] = 1
      BY <1>1, <1>2, <2>1, <3>1 DEF Unexpired, RequestsGood
    <3>3. request[r].created \in Int /\ request[r].state = "sent"
      BY <1>2, <1>4 DEF NonceGood
    <3>4. t + NonceTtl >= request[r].created - MaxSkew + NonceTtl /\ t + NonceTtl \in Int
      BY <1>2, <1>3, <3>3
    <3> QED
      BY <1>2, <3>2, <3>3, <3>4 DEF NonceGood
  <2>2. CASE Unexpired(t)[r] # 0
    <3>1. nonce'[r] = Unexpired(t)[r] /\ accepted'[r] = accepted[r]
      BY <1>1, <1>2, <2>2 DEF RequestsGood
    <3> QED
      BY <1>2, <1>4, <3>1
  <2> QED
    BY <2>1, <2>2
<1>7. \A q \in Signed : NonceGood(nonce'[q], accepted'[q], request[q], authClock)
  BY SMTT(30), <1>4, <1>5, <1>6
<1>8. \A e \in Deliveries : DeliveryGood(delivery'[e], request, authClock)
  BY SMTT(30) DEF ClaimsNonce, RequestsGood, DeliveryGood, IdleDelivery
<1>9. /\ nonce' = [q \in Signed |-> nonce'[q]] /\ accepted' = [q \in Signed |-> accepted'[q]]
      /\ delivery' = [e \in Deliveries |-> delivery'[e]]
  BY Zenon, <1>1 DEF Unexpired, RequestsGood, ClaimsNonce
<1> QED
  BY <1>7, <1>8, <1>9 DEF RequestsGood, ClaimsNonce

\* The sweep (prune_expired) deletes neither nonces nor challenges that could
\* still be used.
LEMMA PrunesKeeps ==
    ASSUME RequestsGood, LoginsGood, PrunesExpired
    PROVE  RequestsGood' /\ LoginsGood'
<1>1. RequestsGood'
  <2>1. \A r \in Signed : NonceGood(nonce'[r], accepted[r], request[r], authClock)
    BY UnexpiredKeeps DEF PrunesExpired, RequestsGood
  <2>2. nonce' = [r \in Signed |-> nonce'[r]]
    BY DEF PrunesExpired, Unexpired
  <2> QED
    BY <2>1, <2>2 DEF RequestsGood, PrunesExpired
<1>2. LoginsGood'
  <2>1. \A c \in Challenges : challenge'[c].state \in {challenge[c].state, "pruned"}
    BY DEF PrunesExpired, LoginsGood, ChallengeRows
  <2>2. challenge' \in ChallengeRows
    <3> SUFFICES ASSUME NEW c \in Challenges
                 PROVE  challenge'[c] \in [state : {"none", "live", "consumed", "pruned"},
                                          who : Principals \cup {NoId}, expires : Int]
      BY DEF PrunesExpired, ChallengeRows
    <3>1. challenge[c] \in [state : {"none", "live", "consumed", "pruned"},
                            who : Principals \cup {NoId}, expires : Int]
      BY DEF LoginsGood, ChallengeRows
    <3>2. challenge'[c] \in {challenge[c], [challenge[c] EXCEPT !.state = "pruned"]}
      BY DEF PrunesExpired
    <3> QED
      BY <3>1, <3>2
  <2>3. UNCHANGED <<authClock, login, opened>>
    BY DEF PrunesExpired
  <2>4. \A l \in LoginCalls : ProvenGood(login[l], challenge', opened)
    BY <2>1 DEF LoginsGood, ProvenGood
  <2> QED
    BY <2>1, <2>2, <2>3, <2>4 DEF LoginsGood
<1> QED
  BY <1>1, <1>2

\* The clock outruns no request between its two checks by more than MaxLag.
LEMMA TimeKeeps ==
    ASSUME RequestsGood, TimePasses
    PROVE  RequestsGood'
<1> USE WindowAssumption
<1>1. authClock \in Nat /\ authClock' = authClock + 1
  BY DEF TimePasses, RequestsGood
<1>2. \A d \in Deliveries : DeliveryGood(delivery[d], request, authClock')
  BY <1>1 DEF TimePasses, RequestsGood, DeliveryGood
<1>3. \A r \in Signed : NonceGood(nonce[r], accepted[r], request[r], authClock')
  BY <1>1 DEF RequestsGood, NonceGood
<1> QED
  BY <1>1, <1>2, <1>3 DEF RequestsGood, TimePasses

\* Bootstrap and recovery prove a login without a challenge.
LEMMA DirectKeeps ==
    ASSUME LoginsGood, NEW l \in LoginCalls, NEW p \in Principals,
           BootstrapOperator(l, p) \/ RecoversDevice(l, p)
    PROVE  LoginsGood'
<1>1. /\ login' = [login EXCEPT ![l] = [pc |-> "proven", who |-> p, by |-> NoId]]
      /\ UNCHANGED <<authClock, challenge, opened>>
  BY DEF BootstrapOperator, FirstOperator, RecoversDevice
<1>2. /\ login'[l].pc = "proven" /\ login'[l].by \notin Challenges
      /\ \A m \in LoginCalls : m # l => login'[m] = login[m]
  BY <1>1, WindowAssumption DEF LoginsGood, LoginRows
<1>3. login' \in LoginRows
  BY <1>1 DEF LoginsGood, LoginRows
<1>4. \A m \in LoginCalls : ProvenGood(login'[m], challenge, opened)
  BY <1>2 DEF LoginsGood, ProvenGood
<1>5. \A m, n \in LoginCalls : ProvenOnce(login'[m], login'[n]) => m = n
  BY <1>2 DEF LoginsGood, ProvenOnce
<1> QED
  BY <1>1, <1>2, <1>3, <1>4, <1>5 DEF LoginsGood

\* create_challenge inserts a challenge that has opened no session.
LEMMA AsksKeeps ==
    ASSUME LoginsGood, NEW p \in Principals, NEW c \in Challenges, AsksChallenge(p, c)
    PROVE  LoginsGood'
<1>1. /\ challenge'[c].state = "live" /\ challenge[c].state = "none" /\ opened[c] = 0
      /\ \A e \in Challenges : e # c => challenge'[e] = challenge[e]
      /\ UNCHANGED <<authClock, login, opened>>
  BY DEF AsksChallenge, CreatedChallenge, LoginsGood, ChallengeRows
<1>2. challenge' \in ChallengeRows
  BY WindowAssumption DEF AsksChallenge, CreatedChallenge, LoginsGood, ChallengeRows
<1>3. \A m \in LoginCalls : ProvenGood(login[m], challenge', opened)
  BY <1>1 DEF LoginsGood, ProvenGood
<1> QED
  BY <1>1, <1>2, <1>3 DEF LoginsGood

\* create_session (the route) reads the challenge and leaves it as it was.
LEMMA VerifiesKeeps ==
    ASSUME LoginsGood, NEW l \in LoginCalls, NEW c \in Challenges, LoginVerifies(l, c)
    PROVE  LoginsGood'
<1>1. PICK p \in Principals :
        login' = [login EXCEPT ![l] = [pc |-> "verified", who |-> p, by |-> c]]
  BY Zenon DEF LoginVerifies
<1>2. /\ login'[l].pc = "verified" /\ login'[l].by = c
      /\ \A m \in LoginCalls : m # l => login'[m] = login[m]
      /\ UNCHANGED <<authClock, challenge, opened>>
  BY <1>1 DEF LoginVerifies, LoginsGood, LoginRows
<1>3. login' \in LoginRows
  BY <1>1 DEF LoginsGood, LoginRows
<1>4. \A m \in LoginCalls : ProvenGood(login'[m], challenge, opened)
  BY <1>2 DEF LoginsGood, ProvenGood
<1>5. \A m, n \in LoginCalls : ProvenOnce(login'[m], login'[n]) => m = n
  BY <1>2 DEF LoginsGood, ProvenOnce
<1> QED
  BY <1>2, <1>3, <1>4, <1>5 DEF LoginsGood

\* consume_challenge: of the logins that read one challenge, one is proven.
LEMMA ConsumesKeeps ==
    ASSUME LoginsGood, NEW l \in LoginCalls, ConsumesChallenge(l)
    PROVE  LoginsGood'
<1> DEFINE c == login[l].by
<1>0. UNCHANGED <<authClock, opened>>
  BY DEF ConsumesChallenge
<1>1. CASE LiveChallenge(c, login[l].who)
  <2>1. c \in Challenges /\ challenge[c].state = "live" /\ opened[c] = 0
    BY <1>1 DEF ConsumesChallenge, LoginsGood, LiveChallenge
  <2>2. /\ challenge'[c].state = "consumed"
        /\ \A e \in Challenges : e # c => challenge'[e] = challenge[e]
    BY <1>1, <2>1 DEF ConsumesChallenge, LoginsGood, ChallengeRows
  <2>3. /\ login'[l].pc = "proven" /\ login'[l].by = c
        /\ \A m \in LoginCalls : m # l => login'[m] = login[m]
    BY <1>1 DEF ConsumesChallenge, LoginsGood, LoginRows
  <2>4. login' \in LoginRows
    BY <1>1 DEF ConsumesChallenge, LoginsGood, LoginRows
  <2>5. challenge' \in ChallengeRows
    BY <1>1 DEF ConsumesChallenge, LoginsGood, ChallengeRows
  <2>6. \A m \in LoginCalls : login[m].pc = "proven" => login[m].by # c
    BY <2>1 DEF LoginsGood, ProvenGood
  <2>7. \A m \in LoginCalls : ProvenGood(login'[m], challenge', opened)
    BY <2>1, <2>2, <2>3, <2>6 DEF LoginsGood, ProvenGood
  <2>8. \A m, n \in LoginCalls : ProvenOnce(login'[m], login'[n]) => m = n
    BY <2>3, <2>6 DEF LoginsGood, ProvenOnce
  <2> QED
    BY <1>0, <2>1, <2>2, <2>3, <2>4, <2>5, <2>7, <2>8 DEF LoginsGood
<1>2. CASE ~LiveChallenge(c, login[l].who)
  <2>1. /\ login'[l] = IdleLogin /\ \A m \in LoginCalls : m # l => login'[m] = login[m]
        /\ challenge' = challenge
    BY <1>2 DEF ConsumesChallenge, LoginsGood, LoginRows
  <2>2. login' \in LoginRows
    BY <1>2 DEF ConsumesChallenge, LoginsGood, IdleLogin, LoginRows
  <2>i. IdleLogin.pc = "idle"
    BY DEF IdleLogin
  <2>g. \A m \in LoginCalls : ProvenGood(login[m], challenge, opened)
    BY DEF LoginsGood
  <2>3. ASSUME NEW m \in LoginCalls PROVE ProvenGood(login'[m], challenge, opened)
    <3>1. CASE m = l
      BY <2>1, <2>i, <3>1 DEF ProvenGood
    <3>2. CASE m # l
      BY <2>1, <2>g, <3>2
    <3> QED BY <3>1, <3>2
  <2>4. \A m, n \in LoginCalls : ProvenOnce(login'[m], login'[n]) => m = n
    BY <2>1 DEF LoginsGood, ProvenOnce, IdleLogin
  <2> QED
    BY <1>0, <2>1, <2>2, <2>3, <2>4 DEF LoginsGood, IdleLogin
<1> QED
  BY <1>1, <1>2

\* The proven login opens its session and is over.
LEMMA OpensKeeps ==
    ASSUME LoginsGood, NEW l \in LoginCalls, NEW s \in SessionIds, OpensSession(l, s)
    PROVE  LoginsGood'
<1> DEFINE c == login[l].by
<1>1. /\ login'[l] = IdleLogin /\ \A m \in LoginCalls : m # l => login'[m] = login[m]
      /\ login' \in LoginRows /\ UNCHANGED <<authClock, challenge>> /\ login[l].pc = "proven"
  BY DEF OpensSession, LoginsGood, IdleLogin, LoginRows
<1>2. c \in Challenges => opened[c] = 0 /\ challenge[c].state \notin {"none", "live"}
  BY <1>1 DEF LoginsGood, ProvenGood
<1>3. /\ \A e \in Challenges : e # c => opened'[e] = opened[e]
      /\ c \in Challenges => opened'[c] = 1
      /\ opened' \in [Challenges -> {0, 1}]
  <2>1. opened' = [e \in Challenges |-> opened[e] + IF e = c THEN 1 ELSE 0]
    BY DEF OpensSession
  <2>2. \A e \in Challenges : opened[e] \in {0, 1}
    BY DEF LoginsGood
  <2>3. \A e \in Challenges : e # c => opened'[e] = opened[e]
    BY <2>1, <2>2
  <2>4. c \in Challenges => opened'[c] = 1
    BY <2>1, <1>2
  <2>5. \A e \in Challenges : opened'[e] \in {0, 1}
    BY <2>2, <2>3, <2>4
  <2> QED
    BY <2>1, <2>3, <2>4, <2>5
<1>4. \A m \in LoginCalls : m # l /\ login[m].pc = "proven" /\ login[m].by \in Challenges => login[m].by # c
  BY <1>1 DEF LoginsGood, ProvenOnce
<1>i. IdleLogin.pc = "idle"
  BY DEF IdleLogin
<1>g. \A m \in LoginCalls : ProvenGood(login[m], challenge, opened)
  BY DEF LoginsGood
<1>5. ASSUME NEW m \in LoginCalls PROVE ProvenGood(login'[m], challenge, opened')
  <2>1. CASE m = l
    BY <1>1, <1>i, <2>1 DEF ProvenGood
  <2>2. CASE m # l
    <3>1. login'[m] = login[m] /\ ProvenGood(login[m], challenge, opened)
      BY <1>1, <1>g, <2>2
    <3> QED BY <1>3, <1>4, <2>2, <3>1 DEF ProvenGood
  <2> QED BY <2>1, <2>2
<1>6. \A m, n \in LoginCalls : ProvenOnce(login'[m], login'[n]) => m = n
  <2>1. login'[l].pc # "proven"
    BY <1>1, <1>i
  <2>2. \A m, n \in LoginCalls : ProvenOnce(login[m], login[n]) => m = n
    BY DEF LoginsGood
  <2> QED
    BY <1>1, <2>1, <2>2 DEF ProvenOnce
<1>7. \A m \in LoginCalls : login'[m].pc = "verified" => login'[m].by \in Challenges
  BY <1>1, <1>i DEF LoginsGood
<1>8. \A e \in Challenges : challenge[e].state \in {"none", "live"} => opened'[e] = 0
  BY <1>2, <1>3 DEF LoginsGood
<1>9. challenge \in ChallengeRows /\ authClock \in Nat
  BY DEF LoginsGood
<1> QED
  BY <1>1, <1>3, <1>5, <1>6, <1>7, <1>8, <1>9 DEF LoginsGood

\* Every step keeps both invariants.
LEMMA SessionsStep ==
    ASSUME RequestsGood, LoginsGood, SessionsNext
    PROVE  RequestsGood' /\ LoginsGood'
<1>1. ASSUME NEW p \in Principals, Enrolls(p) \/ RevokesPrincipal(p)
      PROVE  RequestsGood' /\ LoginsGood'
  BY <1>1, RequestsUnchanged, LoginsUnchanged
     DEF Enrolls, RevokesPrincipal, requestVars, loginVars
<1>2. ASSUME NEW l \in LoginCalls, NEW p \in Principals,
             BootstrapOperator(l, p) \/ RecoversDevice(l, p)
      PROVE  RequestsGood' /\ LoginsGood'
  BY <1>2, RequestsUnchanged, DirectKeeps DEF BootstrapOperator, RecoversDevice, requestVars
<1>3. ASSUME NEW p \in Principals, NEW c \in Challenges, AsksChallenge(p, c)
      PROVE  RequestsGood' /\ LoginsGood'
  BY Zenon, <1>3, RequestsUnchanged, AsksKeeps DEF AsksChallenge, requestVars
<1>4. ASSUME NEW l \in LoginCalls, NEW c \in Challenges, LoginVerifies(l, c)
      PROVE  RequestsGood' /\ LoginsGood'
  BY Zenon, <1>4, RequestsUnchanged, VerifiesKeeps DEF LoginVerifies, requestVars
<1>5. ASSUME NEW l \in LoginCalls, ConsumesChallenge(l)
      PROVE  RequestsGood' /\ LoginsGood'
  BY <1>5, RequestsUnchanged, ConsumesKeeps DEF ConsumesChallenge, requestVars
<1>6. ASSUME NEW l \in LoginCalls, NEW s \in SessionIds, OpensSession(l, s)
      PROVE  RequestsGood' /\ LoginsGood'
  BY Zenon, <1>6, RequestsUnchanged, OpensKeeps DEF OpensSession, requestVars
<1>7. ASSUME NEW p \in Principals, NEW r \in Signed, NEW t \in CreatedTimes, SignsRequest(p, r, t)
      PROVE  RequestsGood' /\ LoginsGood'
  BY Zenon, <1>7, LoginsUnchanged, SignsKeeps DEF SignsRequest, loginVars
<1>8. ASSUME NEW d \in Deliveries, NEW r \in Signed, Authenticates(d, r)
      PROVE  RequestsGood' /\ LoginsGood'
  BY Zenon, <1>8, LoginsUnchanged, AuthenticatesKeeps DEF Authenticates, loginVars
<1>9. ASSUME NEW d \in Deliveries, ChecksSignature(d)
      PROVE  RequestsGood' /\ LoginsGood'
  BY Zenon, <1>9, LoginsUnchanged, ChecksKeeps DEF ChecksSignature, loginVars
<1>10. ASSUME NEW d \in Deliveries, ClaimsNonce(d)
       PROVE  RequestsGood' /\ LoginsGood'
  BY Zenon, <1>10, LoginsUnchanged, ClaimsKeeps DEF ClaimsNonce, loginVars
<1>11. ASSUME TimePasses
       PROVE  RequestsGood' /\ LoginsGood'
  <2>1. authClock' = authClock + 1 /\ UNCHANGED <<challenge, login, opened>>
    BY <1>11 DEF TimePasses
  <2>2. LoginsGood'
    BY <2>1 DEF LoginsGood
  <2> QED BY <1>11, <2>2, TimeKeeps
<1> QED
  BY <1>1, <1>2, <1>3, <1>4, <1>5, <1>6, <1>7, <1>8, <1>9, <1>10, <1>11, PrunesKeeps
     DEF SessionsNext

\* In every reachable state a mutation that passed is remembered until its
\* signature is too old for every call that may still claim its nonce, and a
\* consumed challenge has proven one login or opened one session.
THEOREM SessionsInvariant == SessionsSpec => [](RequestsGood /\ LoginsGood)
<1>1. SessionsInit => RequestsGood /\ LoginsGood
  BY SessionsStart
<1>2. RequestsGood /\ LoginsGood /\ [SessionsNext]_authVars => (RequestsGood /\ LoginsGood)'
  <2>1. RequestsGood /\ LoginsGood /\ UNCHANGED authVars => (RequestsGood /\ LoginsGood)'
    BY RequestsUnchanged, LoginsUnchanged DEF authVars, requestVars, loginVars
  <2> QED
    BY <2>1, SessionsStep
<1> QED
  BY <1>1, <1>2, PTL DEF SessionsSpec

\* A signed mutation passes claim_request_nonce at most once and a signed
\* challenge opens at most one session, for every number of principals,
\* threads and deliveries and every window shorter than the life of a nonce.
THEOREM OneUsePerSignature == SessionsSpec => []SignaturesCountOnce
<1>1. RequestsGood => PassesOnce
  BY DEF RequestsGood, NonceGood, PassesOnce
<1>2. LoginsGood => OpensOnce
  BY DEF LoginsGood, OpensOnce
<1> QED
  BY <1>1, <1>2, SessionsInvariant, PTL DEF SignaturesCountOnce

-----------------------------------------------------------------------------
(* Submitting a task *)

SubmitSpec == SubmitInit /\ [][SubmitNext]_submitVars

InputRow == [state : {"none", "pending", "uploaded"}, digest : Int]

SubmittedRow == [state : {"prepared", "expired", "queued"}, life : {"live", "lapsed"},
                 sess : Int, inputs : [Inputs -> InputRow], payload : Int]

\* An input that is marked is in the store, a queued task has all of them marked.
Backed(row, obj) ==
    /\ \A i \in Inputs : row.inputs[i].state = "uploaded" => obj[i] # 0
    /\ row.state = "queued" => \A i \in Inputs : row.inputs[i].state = "uploaded"

TablesBacked(rows, objs) ==
    /\ rows \in Seq(SubmittedRow) /\ objs \in Seq([Inputs -> Int])
    /\ Len(objs) = Len(rows)
    /\ \A t \in 1..Len(rows) : Backed(rows[t], objs[t])

PrepareRow == [kind : {"prepare"}, key : Int, run : Int, sess : Int, task : Int,
               step : {"sent", "run", "reserve", "store"}]
PutRow == [kind : {"put"}, run : Int, task : Int, input : Int, step : {"body", "stored"}]
CommitRow == [kind : {"commit"}, key : Int, run : Int, sess : Int, task : Int,
              pending : SUBSET Inputs, step : {"sent", "receipts", "queued", "conflict"}]

\* A request is about a task that exists; one that will mark an input has
\* stored it.
SoundRequest(h, n, objs) ==
    \/ h \in PrepareRow /\ h.task \in 0..n /\ (h.step = "reserve" => h.task # 0)
    \/ /\ h \in PutRow /\ h.task \in 1..n /\ h.input \in Inputs /\ h.run # 0
       /\ h.step = "stored" => objs[h.task][h.input] # 0
    \/ h \in CommitRow /\ h.task \in 1..n

SubmitRow == [run : Nat, pc : {"failed", "preparing", "uploading", "putting", "committing", "done"},
              sess : Int, task : Int, tickets : SUBSET Inputs, uploaded : Nat]

SoundSubmit(s, n) ==
    /\ s \in SubmitRow /\ s.task \in 0..n
    /\ s.pc # "failed" => s.run # 0
    /\ s.pc \in {"uploading", "putting", "committing"} => s.task # 0

SubmitInv ==
    /\ TablesBacked(taskRows, objects)
    /\ \A h \in handlers : SoundRequest(h, Len(taskRows), objects)
    /\ \A r \in records : r.answer \in 0..Len(taskRows)
    /\ SoundSubmit(submit, Len(taskRows))

LEMMA SubmitInitHolds == SubmitInit => SubmitInv
<1> SUFFICES ASSUME SubmitInit PROVE SubmitInv
  OBVIOUS
<1>1. TablesBacked(taskRows, objects) /\ Len(taskRows) = 0
  BY DEF SubmitInit, TablesBacked
<1>2. SoundSubmit(submit, 0)
  BY DEF SubmitInit, SoundSubmit, SubmitRow
<1> QED BY <1>1, <1>2 DEF SubmitInit, SubmitInv

\* Rows are added and objects replaced, neither is taken away.
Grown(n, m, objs, later) ==
    /\ n \in Nat /\ m \in Nat /\ n <= m
    /\ \A t \in 1..n, i \in Inputs : objs[t][i] # 0 => later[t][i] # 0

LEMMA SoundStays ==
    ASSUME NEW n, NEW m, NEW objs, NEW later, NEW h, Grown(n, m, objs, later),
           SoundRequest(h, n, objs)
    PROVE  SoundRequest(h, m, later)
<1>1. CASE h \in PrepareRow /\ h.task \in 0..n /\ (h.step = "reserve" => h.task # 0)
  BY <1>1 DEF SoundRequest, Grown, PrepareRow
<1>2. CASE /\ h \in PutRow /\ h.task \in 1..n /\ h.input \in Inputs /\ h.run # 0
           /\ h.step = "stored" => objs[h.task][h.input] # 0
  <2>1. h.task \in 1..m
    BY <1>2 DEF Grown, PutRow
  <2>2. h.step = "stored" => later[h.task][h.input] # 0
    BY <1>2 DEF Grown
  <2> QED BY <1>2, <2>1, <2>2 DEF SoundRequest
<1>3. CASE h \in CommitRow /\ h.task \in 1..n
  BY <1>3 DEF SoundRequest, Grown, CommitRow
<1> QED BY <1>1, <1>2, <1>3 DEF SoundRequest

\* What a step has to leave for the invariant to hold after it.
LEMMA SubmitKeeps ==
    ASSUME SubmitInv, TablesBacked(taskRows', objects'),
           Grown(Len(taskRows), Len(taskRows'), objects, objects'),
           \A h \in handlers' : h \in handlers \/ SoundRequest(h, Len(taskRows'), objects'),
           \A r \in records' : r \in records \/ r.answer \in 0..Len(taskRows'),
           submit' = submit \/ SoundSubmit(submit', Len(taskRows'))
    PROVE  SubmitInv'
<1>0. Len(taskRows) \in Nat /\ Len(taskRows') \in Nat /\ Len(taskRows) <= Len(taskRows')
  BY DEF Grown
<1>1. \A h \in handlers' : SoundRequest(h, Len(taskRows'), objects')
  BY SoundStays DEF SubmitInv
<1>2. \A r \in records' : r.answer \in 0..Len(taskRows')
  <2> SUFFICES ASSUME NEW r \in records', r \in records PROVE r.answer \in 0..Len(taskRows')
    OBVIOUS
  <2>1. r.answer \in 0..Len(taskRows)
    BY DEF SubmitInv
  <2> QED BY <1>0, <2>1
<1>3. SoundSubmit(submit', Len(taskRows'))
  <2> SUFFICES ASSUME submit' = submit PROVE SoundSubmit(submit, Len(taskRows'))
    OBVIOUS
  <2>1. SoundSubmit(submit, Len(taskRows))
    BY DEF SubmitInv
  <2> QED BY <1>0, <2>1 DEF SoundSubmit, SubmitRow
<1> QED BY <1>1, <1>2, <1>3 DEF SubmitInv

\* The tables as they were.
LEMMA SameTables ==
    ASSUME SubmitInv, UNCHANGED <<taskRows, objects>>
    PROVE  /\ TablesBacked(taskRows', objects')
           /\ Grown(Len(taskRows), Len(taskRows'), objects, objects')
           /\ Len(taskRows) \in Nat /\ Len(taskRows') = Len(taskRows)
BY DEF SubmitInv, TablesBacked, Grown

LEMMA ExpiredKeeps ==
    ASSUME NEW rows, NEW objs, TablesBacked(rows, objs)
    PROVE  TablesBacked(Expired(rows), objs) /\ Len(Expired(rows)) = Len(rows)
<1>0. rows \in Seq(SubmittedRow) /\ Len(rows) \in Nat /\ DOMAIN rows = 1..Len(rows)
  BY DEF TablesBacked
<1> SUFFICES ASSUME NEW e, e = Expired(rows)
             PROVE  TablesBacked(e, objs) /\ Len(e) = Len(rows)
  OBVIOUS
<1>1. ASSUME NEW t \in 1..Len(rows)
      PROVE  /\ e[t] \in SubmittedRow /\ e[t].inputs = rows[t].inputs
             /\ e[t].state = "queued" => rows[t].state = "queued"
  <2>1. rows[t] \in SubmittedRow
    BY <1>0
  <2>2. e[t] = rows[t] \/ e[t] = [rows[t] EXCEPT !.state = "expired"]
    BY <1>0 DEF Expired
  <2> QED BY <2>1, <2>2 DEF SubmittedRow
<1>2. e \in [1..Len(rows) -> SubmittedRow]
  <2>1. e = [t \in 1..Len(rows) |-> e[t]]
    BY <1>0 DEF Expired
  <2>2. \A t \in 1..Len(rows) : e[t] \in SubmittedRow
    BY <1>1
  <2> QED BY <2>1, <2>2
<1>3. e \in Seq(SubmittedRow)
  BY <1>0, <1>2, SeqDef
<1>4. DOMAIN e = 1..Len(rows) /\ DOMAIN e = 1..Len(e) /\ Len(e) \in Nat
  BY <1>2, <1>3, LenProperties
<1>5. Len(e) = Len(rows)
  BY <1>0, <1>4
<1>6. ASSUME NEW t \in 1..Len(rows) PROVE Backed(e[t], objs[t])
  <2>1. Backed(rows[t], objs[t])
    BY DEF TablesBacked
  <2> QED BY <1>1, <2>1 DEF Backed
<1> QED BY <1>3, <1>5, <1>6 DEF TablesBacked

\* One row is replaced.
LEMMA RowReplaced ==
    ASSUME TablesBacked(taskRows, objects), NEW t \in 1..Len(taskRows),
           NEW row \in SubmittedRow, Backed(row, objects[t]),
           taskRows' = [taskRows EXCEPT ![t] = row]
    PROVE  TablesBacked(taskRows', objects) /\ Len(taskRows') = Len(taskRows)
<1>1. taskRows \in Seq(SubmittedRow)
  BY DEF TablesBacked
<1>2. /\ taskRows' \in Seq(SubmittedRow) /\ Len(taskRows') = Len(taskRows) /\ taskRows'[t] = row
      /\ \A s \in 1..Len(taskRows) : s # t => taskRows'[s] = taskRows[s]
  BY <1>1
<1> QED BY <1>2 DEF TablesBacked

\* An input whose object is in the store is marked (mark_artifact_uploaded).
LEMMA MarkedKeeps ==
    ASSUME NEW rows, NEW objs, TablesBacked(rows, objs), NEW t \in 1..Len(rows), NEW i \in Inputs,
           NEW run \in Int, objs[t][i] # 0
    PROVE  TablesBacked(Marked(rows, t, i, run), objs) /\ Len(Marked(rows, t, i, run)) = Len(rows)
<1> DEFINE e == Marked(rows, t, i, run)
<1>0. rows \in Seq(SubmittedRow) /\ rows[t] \in SubmittedRow /\ Backed(rows[t], objs[t])
  BY DEF TablesBacked
<1>1. CASE rows[t].inputs[i].state \notin {"pending", "uploaded"}
  BY <1>1 DEF Marked
<1>2. CASE rows[t].inputs[i].state \in {"pending", "uploaded"}
  <2> DEFINE inp == [rows[t].inputs EXCEPT ![i] = [state |-> "uploaded", digest |-> run]]
             row == [rows[t] EXCEPT !.inputs = inp]
  <2>1. e = [rows EXCEPT ![t] = row]
    BY <1>0, <1>2 DEF Marked
  <2>2. inp \in [Inputs -> InputRow]
    BY <1>0 DEF SubmittedRow, InputRow
  <2>3. inp[i].state = "uploaded" /\ \A j \in Inputs \ {i} : inp[j] = rows[t].inputs[j]
    BY <1>0 DEF SubmittedRow, InputRow
  <2> HIDE DEF inp
  <2>4. row \in SubmittedRow /\ row.inputs = inp /\ row.state = rows[t].state
    BY SMTT(30), <1>0, <2>2 DEF SubmittedRow
  <2>5. Backed(row, objs[t])
    BY <1>0, <2>3, <2>4 DEF Backed
  <2> HIDE DEF row, e
  <2>6. e \in Seq(SubmittedRow) /\ Len(e) = Len(rows) /\ e[t] = row
        /\ \A s \in 1..Len(rows) : s # t => e[s] = rows[s]
    BY <1>0, <2>1, <2>4
  <2>7. TablesBacked(e, objs)
    BY <2>5, <2>6 DEF TablesBacked
  <2> QED BY <2>6, <2>7 DEF e
<1> QED BY <1>1, <1>2

\* A ciphertext replaces the object of an input (put_chunks, OSS).
LEMMA StoredKeeps ==
    ASSUME TablesBacked(taskRows, objects), NEW t \in 1..Len(taskRows), NEW i \in Inputs,
           NEW run \in Int, run # 0, objects' = [objects EXCEPT ![t][i] = run]
    PROVE  /\ TablesBacked(taskRows, objects') /\ Grown(Len(taskRows), Len(taskRows), objects, objects')
           /\ objects'[t][i] # 0
<1>0. objects \in Seq([Inputs -> Int]) /\ Len(objects) = Len(taskRows) /\ objects[t] \in [Inputs -> Int]
      /\ Len(taskRows) \in Nat /\ taskRows \in Seq(SubmittedRow)
  BY DEF TablesBacked
<1> DEFINE obj == [objects[t] EXCEPT ![i] = run]
<1>1. objects' = [objects EXCEPT ![t] = obj]
  BY <1>0
<1>2. obj \in [Inputs -> Int] /\ obj[i] = run /\ \A j \in Inputs \ {i} : obj[j] = objects[t][j]
  BY <1>0
<1> HIDE DEF obj
<1>3. objects' \in Seq([Inputs -> Int]) /\ Len(objects') = Len(objects) /\ objects'[t] = obj
      /\ \A s \in 1..Len(objects) : s # t => objects'[s] = objects[s]
  BY <1>0, <1>1, <1>2
<1>4. \A s \in 1..Len(taskRows), j \in Inputs : objects[s][j] # 0 => objects'[s][j] # 0
  BY SMTT(30), <1>0, <1>2, <1>3
<1>5. \A s \in 1..Len(taskRows) : Backed(taskRows[s], objects'[s])
  BY SMTT(30), <1>4 DEF Backed, TablesBacked
<1>6. objects'[t][i] # 0
  BY <1>2, <1>3
<1>7. Grown(Len(taskRows), Len(taskRows), objects, objects')
  BY SMTT(30), <1>0, <1>4 DEF Grown
<1>8. TablesBacked(taskRows, objects')
  BY Zenon, <1>0, <1>3, <1>5 DEF TablesBacked
<1> QED BY <1>6, <1>7, <1>8

\* What is known of a request, by its kind.
LEMMA PrepareSound ==
    ASSUME SubmitInv, NEW h \in handlers, h.kind = "prepare"
    PROVE  h \in PrepareRow /\ h.task \in 0..Len(taskRows) /\ (h.step = "reserve" => h.task # 0)
BY DEF SubmitInv, SoundRequest, PutRow, CommitRow

LEMMA PutSound ==
    ASSUME SubmitInv, NEW h \in handlers, h.kind = "put"
    PROVE  /\ h \in PutRow /\ h.task \in 1..Len(taskRows) /\ h.input \in Inputs /\ h.run # 0
           /\ h.step = "stored" => objects[h.task][h.input] # 0
BY DEF SubmitInv, SoundRequest, PrepareRow, CommitRow

LEMMA CommitSound ==
    ASSUME SubmitInv, NEW h \in handlers, h.kind = "commit"
    PROVE  h \in CommitRow /\ h.task \in 1..Len(taskRows)
BY DEF SubmitInv, SoundRequest, PrepareRow, PutRow

LEMMA FailedSound ==
    ASSUME SubmitInv, NEW n \in Nat, Len(taskRows) <= n
    PROVE  SoundSubmit(Failed, n)
<1>1. SoundSubmit(submit, Len(taskRows)) /\ Len(taskRows) \in Nat
  BY DEF SubmitInv, TablesBacked
<1>2. Failed \in SubmitRow /\ Failed.pc = "failed" /\ Failed.task = submit.task
  BY <1>1 DEF Failed, SoundSubmit, SubmitRow
<1>3. submit.task \in 0..n
  BY <1>1 DEF SoundSubmit
<1> QED BY <1>2, <1>3 DEF SoundSubmit

LEMMA PreparedSound ==
    ASSUME SubmitInv, submit.pc = "preparing", NEW rows, NEW n \in Nat, NEW t \in 1..n
    PROVE  SoundSubmit(Prepared(t, rows), n)
<1>1. submit \in SubmitRow /\ submit.run # 0
  BY DEF SubmitInv, SoundSubmit
<1>2. Pending(rows, t) \in SUBSET Inputs
  BY DEF Pending
<1>a. ASSUME NEW S \in SUBSET Inputs, NEW p,
             p = [submit EXCEPT !.pc = "uploading", !.task = t, !.tickets = S]
      PROVE  p \in SubmitRow /\ p.pc = "uploading" /\ p.task = t /\ p.run = submit.run
  <2>1. p = [run |-> submit.run, pc |-> "uploading", sess |-> submit.sess, task |-> t,
             tickets |-> S, uploaded |-> submit.uploaded]
    BY Zenon, <1>1, <1>a DEF SubmitRow
  <2>2. submit.run \in Nat /\ submit.sess \in Int /\ submit.uploaded \in Nat /\ t \in Int
    BY <1>1 DEF SubmitRow
  <2> QED BY <2>1, <2>2 DEF SubmitRow
<1>3. /\ Prepared(t, rows) \in SubmitRow /\ Prepared(t, rows).pc = "uploading"
      /\ Prepared(t, rows).task = t /\ Prepared(t, rows).run = submit.run
  BY Zenon, <1>a, <1>2 DEF Prepared
<1> QED BY <1>1, <1>3 DEF SoundSubmit

\* A step of the client alone, which may send one request.
LEMMA ClientKeeps ==
    ASSUME SubmitInv, UNCHANGED <<taskRows, objects, records>>,
           \A h \in handlers' : h \in handlers \/ SoundRequest(h, Len(taskRows), objects),
           submit' = submit \/ SoundSubmit(submit', Len(taskRows))
    PROVE  SubmitInv'
BY SameTables, SubmitKeeps

LEMMA StartKeeps == ASSUME SubmitInv, StartSubmit PROVE SubmitInv'
<1>1. submit \in SubmitRow /\ submit.task \in 0..Len(taskRows) /\ Len(taskRows) \in Nat
  BY DEF SubmitInv, SoundSubmit, TablesBacked
<1>2. /\ submit' \in SubmitRow /\ submit'.task = 0 /\ submit'.run = submit.run + 1
      /\ submit'.pc = "preparing"
  <2>1. submit' = [run |-> submit.run + 1, pc |-> "preparing", sess |-> submit.sess, task |-> 0,
                   tickets |-> {}, uploaded |-> 0]
    BY Zenon, <1>1 DEF StartSubmit, SubmitRow
  <2>2. submit.run + 1 \in Nat /\ submit.sess \in Int /\ {} \in SUBSET Inputs
    BY <1>1 DEF SubmitRow
  <2> QED BY <2>1, <2>2 DEF SubmitRow
<1>3. SoundSubmit(submit', Len(taskRows))
  BY <1>1, <1>2 DEF SoundSubmit, SubmitRow
<1> DEFINE g == [kind |-> "prepare", key |-> 0, run |-> submit.run + 1, sess |-> submit.sess,
                 task |-> 0, step |-> "sent"]
<1>4. g \in PrepareRow /\ g.task = 0 /\ g.step = "sent"
  BY <1>1 DEF PrepareRow, SubmitRow
<1>5. handlers' = handlers \cup {g} /\ UNCHANGED <<taskRows, objects, records>>
  BY DEF StartSubmit
<1> HIDE DEF g
<1>6. g.task \in 0..Len(taskRows) /\ g.step # "reserve"
  BY <1>1, <1>4
<1>7. SoundRequest(g, Len(taskRows), objects)
  BY <1>4, <1>6 DEF SoundRequest
<1> QED BY <1>3, <1>5, <1>7, ClientKeeps

LEMMA RenewKeeps == ASSUME SubmitInv, RenewLogin PROVE SubmitInv'
<1>1. SoundSubmit(submit, Len(taskRows))
  BY DEF SubmitInv
<1>2. submit' \in SubmitRow /\ submit'.pc = "failed" /\ submit'.task = submit.task
  BY <1>1 DEF RenewLogin, SoundSubmit, SubmitRow
<1>3. SoundSubmit(submit', Len(taskRows))
  BY <1>1, <1>2 DEF SoundSubmit
<1> QED BY <1>3, ClientKeeps DEF RenewLogin

LEMMA RefuseKeeps == ASSUME SubmitInv, RefusePrepared PROVE SubmitInv'
<1>1. Len(taskRows) \in Nat
  BY DEF SubmitInv, TablesBacked
<1>2. SoundSubmit(Failed, Len(taskRows))
  BY <1>1, FailedSound
<1> QED BY <1>2, ClientKeeps DEF RefusePrepared

\* An upload to the Gateway is a request; one to OSS is an object
\* (encrypt_and_upload_inputs).
LEMMA UploadKeeps == ASSUME SubmitInv, UploadInput PROVE SubmitInv'
<1>0. Len(taskRows) \in Nat /\ TablesBacked(taskRows, objects)
  BY DEF SubmitInv, TablesBacked
<1>1. /\ submit \in SubmitRow /\ submit.task \in 1..Len(taskRows) /\ submit.run # 0
      /\ submit.pc = "uploading"
  BY <1>0 DEF UploadInput, SubmitInv, SoundSubmit, SubmitRow
<1>2. SoundSubmit(Failed, Len(taskRows))
  BY <1>0, FailedSound
<1>3. NextInput \in Inputs
  BY <1>1, SubmitAssumption DEF UploadInput, NextInput, Inputs, SubmitRow
<1>4. CASE submit' = Failed /\ UNCHANGED <<handlers, objects, taskRows, records>>
  BY <1>2, <1>4, ClientKeeps
<1>5. CASE /\ handlers' = handlers \cup {[kind |-> "put", run |-> submit.run, task |-> submit.task,
                                           input |-> NextInput, step |-> "body"]}
           /\ submit' = [submit EXCEPT !.pc = "putting"]
           /\ UNCHANGED <<objects, taskRows, records>>
  <2> DEFINE g == [kind |-> "put", run |-> submit.run, task |-> submit.task,
                   input |-> NextInput, step |-> "body"]
  <2>1. NextInput \in Int
    BY <1>1 DEF NextInput, SubmitRow
  <2>2. g \in PutRow /\ g.task = submit.task /\ g.input = NextInput /\ g.run = submit.run
        /\ g.step = "body"
    BY <1>1, <2>1 DEF PutRow, SubmitRow
  <2> HIDE DEF g
  <2>3. SoundRequest(g, Len(taskRows), objects)
    BY <1>1, <1>3, <2>2 DEF SoundRequest
  <2>4. /\ submit' \in SubmitRow /\ submit'.pc = "putting" /\ submit'.task = submit.task
        /\ submit'.run = submit.run
    BY <1>1, <1>5 DEF SubmitRow
  <2>5. SoundSubmit(submit', Len(taskRows))
    BY <1>0, <1>1, <2>4 DEF SoundSubmit
  <2>6. handlers' = handlers \cup {g}
    BY <1>5 DEF g
  <2> QED BY <1>5, <2>3, <2>5, <2>6, ClientKeeps
<1>6. CASE /\ objects' = [objects EXCEPT ![submit.task][NextInput] = submit.run]
           /\ submit' = [submit EXCEPT !.uploaded = submit.uploaded + 1] \/ submit' = Failed
           /\ UNCHANGED <<handlers, taskRows, records>>
  <2>1. submit.run \in Int
    BY <1>1 DEF SubmitRow
  <2>2. /\ TablesBacked(taskRows, objects')
        /\ Grown(Len(taskRows), Len(taskRows), objects, objects')
    BY Zenon, <1>0, <1>1, <1>3, <1>6, <2>1, StoredKeeps
  <2>3. ASSUME submit' = [submit EXCEPT !.uploaded = submit.uploaded + 1]
        PROVE  SoundSubmit(submit', Len(taskRows))
    <3>1. /\ submit' \in SubmitRow /\ submit'.pc = "uploading" /\ submit'.task = submit.task
          /\ submit'.run = submit.run
      BY <1>1, <2>3 DEF SubmitRow
    <3> QED BY <1>0, <1>1, <3>1 DEF SoundSubmit
  <2>4. SoundSubmit(submit', Len(taskRows'))
    BY <1>2, <1>6, <2>3
  <2>5. taskRows' = taskRows /\ handlers' = handlers /\ records' = records
    BY <1>6
  <2>6. TablesBacked(taskRows', objects') /\ Grown(Len(taskRows), Len(taskRows'), objects, objects')
    BY <2>2, <2>5
  <2> QED BY <2>4, <2>5, <2>6, SubmitKeeps
<1> QED BY <1>4, <1>5, <1>6 DEF UploadInput

LEMMA SendKeeps == ASSUME SubmitInv, SendCommit PROVE SubmitInv'
<1>0. Len(taskRows) \in Nat
  BY DEF SubmitInv, TablesBacked
<1>1. submit \in SubmitRow /\ submit.task \in 1..Len(taskRows) /\ submit.run # 0
  BY <1>0 DEF SendCommit, SubmitInv, SoundSubmit, SubmitRow
<1>2. /\ submit' \in SubmitRow /\ submit'.pc = "committing" /\ submit'.task = submit.task
      /\ submit'.run = submit.run
  BY <1>1 DEF SendCommit, SubmitRow
<1>3. SoundSubmit(submit', Len(taskRows))
  BY <1>0, <1>1, <1>2 DEF SoundSubmit
<1> DEFINE g == [kind |-> "commit", key |-> submit.task, run |-> submit.run, sess |-> submit.sess,
                 task |-> submit.task, pending |-> {}, step |-> "sent"]
<1>4. g \in CommitRow /\ g.task = submit.task
  BY <1>1 DEF CommitRow, SubmitRow
<1>5. handlers' = handlers \cup {g} /\ UNCHANGED <<taskRows, objects, records>>
  BY DEF SendCommit
<1> HIDE DEF g
<1>6. g.task \in 1..Len(taskRows)
  BY <1>1, <1>4
<1>7. SoundRequest(g, Len(taskRows), objects)
  BY <1>4, <1>6 DEF SoundRequest
<1> QED BY <1>3, <1>5, <1>7, ClientKeeps

\* A step of a request that leaves the store and adds no row.
LEMMA RequestKeeps ==
    ASSUME SubmitInv, TablesBacked(taskRows', objects), Len(taskRows') = Len(taskRows),
           UNCHANGED objects,
           \A h \in handlers' : h \in handlers \/ SoundRequest(h, Len(taskRows), objects),
           \A r \in records' : r \in records \/ r.answer \in 0..Len(taskRows),
           submit' = submit \/ SoundSubmit(submit', Len(taskRows))
    PROVE  SubmitInv'
<1>1. Len(taskRows) \in Nat
  BY DEF SubmitInv, TablesBacked
<1>2. Grown(Len(taskRows), Len(taskRows'), objects, objects')
  BY <1>1 DEF Grown
<1>3. TablesBacked(taskRows', objects')
  OBVIOUS
<1> QED BY <1>2, <1>3, SubmitKeeps

LEMMA InformSound ==
    ASSUME NEW h, NEW waiting, NEW then, NEW n, Inform(h, waiting, then),
           submit.pc = waiting => SoundSubmit(then, n)
    PROVE  submit' = submit \/ SoundSubmit(submit', n)
BY DEF Inform

LEMMA PutRecords ==
    ASSUME NEW h, NEW answer, Put(h, answer), NEW n, answer \in 0..n
    PROVE  \A r \in records' : r \in records \/ r.answer \in 0..n
<1>1. \A r \in records' : r \in records \/ r = [sess |-> h.sess, key |-> h.key, answer |-> answer]
  BY DEF Put
<1> QED BY <1>1

\* A record replays a task that exists (idempotency_replay).
LEMMA LookUpKeeps ==
    ASSUME SubmitInv, NEW h \in handlers, LookUpPrepare(h)
    PROVE  SubmitInv'
<1>0. Len(taskRows) \in Nat /\ TablesBacked(taskRows, objects)
  BY DEF SubmitInv, TablesBacked
<1>1. CASE Recorded(h) = {}
  <2> DEFINE g == [h EXCEPT !.step = "run"]
  <2>1. h \in PrepareRow /\ h.task \in 0..Len(taskRows)
    BY PrepareSound DEF LookUpPrepare
  <2>2. g \in PrepareRow /\ g.task = h.task /\ g.step = "run"
    BY <2>1 DEF PrepareRow
  <2>3. handlers' = (handlers \ {h}) \cup {g}
    BY <1>1 DEF LookUpPrepare, Becomes
  <2> HIDE DEF g
  <2>4. SoundRequest(g, Len(taskRows), objects)
    BY <2>1, <2>2 DEF SoundRequest
  <2>5. UNCHANGED <<taskRows, objects, records, submit>>
    BY <1>1 DEF LookUpPrepare
  <2> QED BY <2>3, <2>4, <2>5, ClientKeeps
<1>2. CASE Recorded(h) # {}
  <2> DEFINE r == CHOOSE r \in Recorded(h) : TRUE
  <2>1. r \in Recorded(h)
    BY <1>2
  <2> HIDE DEF r
  <2>2. r.answer \in 0..Len(taskRows)
    BY <2>1 DEF Recorded, SubmitInv
  <2>3. /\ handlers' = handlers \ {h}
        /\ taskRows' = taskRows \/ taskRows' = Expired(taskRows)
        /\ Inform(h, "preparing", ReplayedPrepare(r.answer))
        /\ UNCHANGED <<objects, records>>
    BY <1>2 DEF LookUpPrepare, Answered, r
  <2>4. TablesBacked(taskRows', objects) /\ Len(taskRows') = Len(taskRows)
    BY <1>0, <2>3, ExpiredKeeps
  <2>5. submit.pc = "preparing" => SoundSubmit(ReplayedPrepare(r.answer), Len(taskRows))
    <3>1. SoundSubmit(Failed, Len(taskRows))
      BY <1>0, FailedSound
    <3>2. ASSUME submit.pc = "preparing", r.answer # 0
          PROVE  SoundSubmit(Prepared(r.answer, taskRows), Len(taskRows))
      <4>1. r.answer \in 1..Len(taskRows)
        BY <1>0, <2>2, <3>2
      <4> QED BY <1>0, <3>2, <4>1, PreparedSound
    <3> QED BY <3>1, <3>2 DEF ReplayedPrepare
  <2>6. submit' = submit \/ SoundSubmit(submit', Len(taskRows))
    BY <2>3, <2>5, InformSound
  <2> QED BY <2>3, <2>4, <2>6, RequestKeeps
<1> QED BY <1>1, <1>2

\* A new task has none of its inputs (prepare_task).
LEMMA PrepareTaskKeeps ==
    ASSUME SubmitInv, NEW h \in handlers, PrepareTask(h)
    PROVE  SubmitInv'
<1>0. Len(taskRows) \in Nat /\ TablesBacked(taskRows, objects)
  BY DEF SubmitInv, TablesBacked
<1>h. h \in PrepareRow
  BY PrepareSound DEF PrepareTask
<1>1. CASE /\ taskRows' = Append(Expired(taskRows),
                 [state |-> "prepared", life |-> "live", sess |-> h.sess,
                  inputs |-> Unreserved, payload |-> 0])
           /\ objects' = Append(objects, [i \in Inputs |-> 0])
           /\ Becomes(h, [h EXCEPT !.task = Len(taskRows) + 1, !.step = "reserve"])
           /\ UNCHANGED <<submit, records>>
  <2> DEFINE row == [state |-> "prepared", life |-> "live", sess |-> h.sess,
                     inputs |-> Unreserved, payload |-> 0]
             obj == [i \in Inputs |-> 0]
             n == Len(taskRows)
             e == Expired(taskRows)
             g == [h EXCEPT !.task = Len(taskRows) + 1, !.step = "reserve"]
  <2>1. Unreserved \in [Inputs -> InputRow] /\ \A i \in Inputs : Unreserved[i].state = "none"
    BY DEF Unreserved, InputRow
  <2>2. h.sess \in Int
    BY <1>h DEF PrepareRow
  <2>3. row \in SubmittedRow /\ row.inputs = Unreserved /\ row.state = "prepared"
    <3>1. ASSUME NEW s \in Int, NEW inp \in [Inputs -> InputRow], NEW x,
                 x = [state |-> "prepared", life |-> "live", sess |-> s, inputs |-> inp,
                      payload |-> 0]
          PROVE  x \in SubmittedRow /\ x.inputs = inp /\ x.state = "prepared"
      BY <3>1 DEF SubmittedRow
    <3> QED BY <2>1, <2>2, <3>1
  <2>4. obj \in [Inputs -> Int]
    BY SMTT(30)
  <2>5. g \in PrepareRow /\ g.task = n + 1
    <3>1. ASSUME NEW t \in Int, NEW x, x = [h EXCEPT !.task = t, !.step = "reserve"]
          PROVE  x \in PrepareRow /\ x.task = t
      BY Zenon, <1>h, <3>1 DEF PrepareRow
    <3>2. n + 1 \in Int
      BY <1>0
    <3> QED BY Zenon, <3>1, <3>2
  <2>e. TablesBacked(Expired(taskRows), objects) /\ Len(Expired(taskRows)) = Len(taskRows)
    BY <1>0, ExpiredKeeps
  <2>6. TablesBacked(e, objects) /\ Len(e) = n
    BY <2>e
  <2>7. /\ taskRows' = Append(e, row) /\ objects' = Append(objects, obj)
        /\ handlers' = (handlers \ {h}) \cup {g} /\ UNCHANGED <<submit, records>>
    BY <1>1 DEF Becomes
  <2> HIDE DEF row, obj, e, g
  <2>8. Backed(row, obj)
    BY <2>1, <2>3 DEF Backed
  <2>9. /\ e \in Seq(SubmittedRow) /\ objects \in Seq([Inputs -> Int]) /\ Len(objects) = n
        /\ n \in Nat
    BY <1>0, <2>6 DEF TablesBacked
  <2>10. /\ taskRows' \in Seq(SubmittedRow) /\ Len(taskRows') = n + 1
         /\ taskRows'[n + 1] = row /\ \A t \in 1..n : taskRows'[t] = e[t]
    BY <2>3, <2>6, <2>7, <2>9
  <2>11. /\ objects' \in Seq([Inputs -> Int]) /\ Len(objects') = n + 1
         /\ objects'[n + 1] = obj /\ \A t \in 1..n : objects'[t] = objects[t]
    BY <2>4, <2>7, <2>9
  <2> HIDE DEF n
  <2>12. ASSUME NEW t \in 1..(n + 1) PROVE Backed(taskRows'[t], objects'[t])
    <3>1. CASE t = n + 1
      BY <2>8, <2>10, <2>11, <3>1
    <3>2. CASE t \in 1..n
      <4>1. Backed(e[t], objects[t])
        BY <2>6, <3>2 DEF TablesBacked
      <4> QED BY <2>10, <2>11, <3>2, <4>1
    <3> QED BY <2>9, <3>1, <3>2
  <2>13. TablesBacked(taskRows', objects')
    BY <2>10, <2>11, <2>12 DEF TablesBacked
  <2>14. Grown(n, n + 1, objects, objects')
    BY <2>9, <2>11 DEF Grown
  <2>15. SoundRequest(g, n + 1, objects')
    BY <2>5, <2>9 DEF SoundRequest
  <2> QED BY <2>7, <2>10, <2>13, <2>14, <2>15, SubmitKeeps DEF n
<1>2. CASE /\ Answered(h) /\ Inform(h, "preparing", Failed)
           /\ UNCHANGED <<taskRows, objects, records>>
  <2>1. submit' = submit \/ SoundSubmit(submit', Len(taskRows))
    BY <1>0, <1>2, FailedSound, InformSound
  <2> QED BY <1>2, <2>1, ClientKeeps DEF Answered
<1>3. CASE /\ Becomes(h, [h EXCEPT !.step = "store"])
           /\ UNCHANGED <<taskRows, objects, submit, records>>
  <2> DEFINE g == [h EXCEPT !.step = "store"]
  <2>1. handlers' = (handlers \ {h}) \cup {g}
    BY <1>3 DEF Becomes
  <2>2. g \in PrepareRow /\ g.task = h.task /\ g.step = "store"
    BY Zenon, <1>h DEF PrepareRow
  <2>3. h.task \in 0..Len(taskRows)
    BY PrepareSound DEF PrepareTask
  <2> HIDE DEF g
  <2>4. SoundRequest(g, Len(taskRows), objects)
    BY <2>2, <2>3 DEF SoundRequest
  <2> QED BY <1>3, <2>1, <2>4, ClientKeeps
<1> QED BY <1>1, <1>2, <1>3 DEF PrepareTask

\* The inputs of a prepared task become pending (reserve_input_artifacts).
LEMMA ReserveKeeps ==
    ASSUME SubmitInv, NEW h \in handlers, ReserveInputs(h)
    PROVE  SubmitInv'
<1>0. Len(taskRows) \in Nat /\ TablesBacked(taskRows, objects) /\ taskRows \in Seq(SubmittedRow)
  BY DEF SubmitInv, TablesBacked
<1>h. h \in PrepareRow /\ h.task \in 1..Len(taskRows)
  <2>1. h \in PrepareRow /\ h.task \in 0..Len(taskRows) /\ h.task # 0
    BY PrepareSound DEF ReserveInputs
  <2> QED BY <1>0, <2>1
<1>t. UNCHANGED <<objects, records, submit>>
  BY DEF ReserveInputs
<1>1. CASE taskRows[h.task].state = "prepared"
  <2> DEFINE row == [taskRows[h.task] EXCEPT !.inputs = Reserved]
             g == [h EXCEPT !.step = "store"]
  <2>1. Reserved \in [Inputs -> InputRow] /\ \A i \in Inputs : Reserved[i].state = "pending"
    BY DEF Reserved, InputRow
  <2>2. taskRows[h.task] \in SubmittedRow
    BY <1>0, <1>h
  <2>3. row \in SubmittedRow /\ row.inputs = Reserved /\ row.state = "prepared"
    BY <1>1, <2>1, <2>2 DEF SubmittedRow
  <2>4. Backed(row, objects[h.task])
    BY <2>1, <2>3 DEF Backed
  <2>5. taskRows' = [taskRows EXCEPT ![h.task] = row]
    BY <1>0, <1>1, <1>h DEF ReserveInputs
  <2> HIDE DEF row
  <2>r. row \in SubmittedRow
    BY <2>3
  <2>6. TablesBacked(taskRows', objects) /\ Len(taskRows') = Len(taskRows)
    BY Zenon, <1>0, <1>h, <2>4, <2>5, <2>r, RowReplaced
  <2>7. handlers' = (handlers \ {h}) \cup {g}
    BY Zenon, <1>1, <1>h DEF ReserveInputs, Becomes, PrepareRow
  <2>8. g \in PrepareRow /\ g.task = h.task
    BY <1>h DEF PrepareRow
  <2> HIDE DEF g
  <2>9. g.task \in 0..Len(taskRows) /\ g.task # 0
    BY <1>0, <1>h, <2>8
  <2>10. SoundRequest(g, Len(taskRows), objects)
    BY <2>8, <2>9 DEF SoundRequest
  <2> QED BY <1>t, <2>6, <2>7, <2>10, RequestKeeps
<1>2. CASE taskRows[h.task].state # "prepared"
  <2> DEFINE g == [h EXCEPT !.step = "store", !.task = 0]
  <2>1. handlers' = (handlers \ {h}) \cup {g} /\ taskRows' = taskRows
    BY SMTT(30), <1>2 DEF ReserveInputs, Becomes
  <2>2. g \in PrepareRow /\ g.task = 0 /\ g.step = "store"
    <3>1. ASSUME NEW t \in Int, NEW x, x = [h EXCEPT !.step = "store", !.task = t]
          PROVE  x \in PrepareRow /\ x.task = t /\ x.step = "store"
      BY Zenon, <1>h, <3>1 DEF PrepareRow
    <3>2. g = [h EXCEPT !.step = "store", !.task = 0] /\ 0 \in Int
      OBVIOUS
    <3> HIDE DEF g
    <3> QED BY Zenon, <3>1, <3>2
  <2> HIDE DEF g
  <2>3. SoundRequest(g, Len(taskRows), objects)
    BY <1>0, <2>2 DEF SoundRequest
  <2> QED BY <1>t, <2>1, <2>3, ClientKeeps
<1> QED BY <1>1, <1>2

\* The answer of a prepare is stored and sent.
LEMMA StorePrepareKeeps ==
    ASSUME SubmitInv, NEW h \in handlers, StorePrepare(h)
    PROVE  SubmitInv'
<1>0. Len(taskRows) \in Nat /\ TablesBacked(taskRows, objects)
  BY DEF SubmitInv, TablesBacked
<1>h. h.task \in 0..Len(taskRows)
  BY PrepareSound DEF StorePrepare
<1>1. SoundSubmit(Failed, Len(taskRows))
  BY <1>0, FailedSound
<1>2. ASSUME submit.pc = "preparing", h.task # 0
      PROVE  SoundSubmit(Prepared(h.task, taskRows), Len(taskRows))
  <2>1. h.task \in 1..Len(taskRows)
    BY <1>0, <1>h, <1>2
  <2> QED BY <1>0, <1>2, <2>1, PreparedSound
<1> DEFINE then == IF h.task = 0 THEN Failed ELSE Prepared(h.task, taskRows)
<1>3. submit.pc = "preparing" => SoundSubmit(then, Len(taskRows))
  BY <1>1, <1>2
<1>4. Inform(h, "preparing", then) /\ Put(h, h.task) /\ handlers' = handlers \ {h}
      /\ UNCHANGED <<taskRows, objects>>
  BY DEF StorePrepare, Answered
<1> HIDE DEF then
<1>5. submit' = submit \/ SoundSubmit(submit', Len(taskRows))
  BY <1>3, <1>4, InformSound
<1>6. \A r \in records' : r \in records \/ r.answer \in 0..Len(taskRows)
  BY <1>4, <1>h, PutRecords
<1> QED BY <1>0, <1>4, <1>5, <1>6, RequestKeeps

\* The object first (put_chunks), the mark after it (artifact_transfer).
LEMMA StoreObjectKeeps ==
    ASSUME SubmitInv, NEW h \in handlers, StoreObject(h)
    PROVE  SubmitInv'
<1>0. Len(taskRows) \in Nat /\ TablesBacked(taskRows, objects)
  BY DEF SubmitInv, TablesBacked
<1>h. h \in PutRow /\ h.task \in 1..Len(taskRows) /\ h.input \in Inputs /\ h.run # 0
      /\ h.run \in Int
  BY PutSound DEF StoreObject, PutRow
<1> DEFINE g == [h EXCEPT !.step = "stored"]
<1>1. /\ objects' = [objects EXCEPT ![h.task][h.input] = h.run]
      /\ handlers' = (handlers \ {h}) \cup {g} /\ UNCHANGED <<taskRows, records, submit>>
  BY DEF StoreObject, Becomes
<1>o. objects' = [objects EXCEPT ![h.task][h.input] = h.run]
  BY <1>1
<1>2. /\ TablesBacked(taskRows, objects') /\ objects'[h.task][h.input] # 0
      /\ Grown(Len(taskRows), Len(taskRows), objects, objects')
  BY Zenon, <1>0, <1>o, <1>h, StoredKeeps
<1>3. /\ g \in PutRow /\ g.task = h.task /\ g.input = h.input /\ g.run = h.run
      /\ g.step = "stored"
  BY <1>h DEF PutRow
<1> HIDE DEF g
<1>4. SoundRequest(g, Len(taskRows), objects')
  BY <1>2, <1>3, <1>h DEF SoundRequest
<1>5. /\ TablesBacked(taskRows', objects') /\ Grown(Len(taskRows), Len(taskRows'), objects, objects')
      /\ SoundRequest(g, Len(taskRows'), objects')
  BY <1>1, <1>2, <1>4
<1> QED BY Zenon, <1>1, <1>5, SubmitKeeps

LEMMA MarkKeeps ==
    ASSUME SubmitInv, NEW h \in handlers, MarkUploaded(h)
    PROVE  SubmitInv'
<1>0. Len(taskRows) \in Nat /\ TablesBacked(taskRows, objects)
  BY DEF SubmitInv, TablesBacked
<1>h. /\ h.task \in 1..Len(taskRows) /\ h.input \in Inputs /\ h.run \in Int
      /\ objects[h.task][h.input] # 0
  BY PutSound DEF MarkUploaded, PutRow
<1> DEFINE then == [submit EXCEPT !.pc = "uploading", !.uploaded = submit.uploaded + 1]
<1>1. /\ taskRows' = Marked(taskRows, h.task, h.input, h.run) /\ handlers' = handlers \ {h}
      /\ Inform(h, "putting", then) /\ UNCHANGED <<objects, records>>
  BY DEF MarkUploaded, Answered
<1>2. TablesBacked(taskRows', objects) /\ Len(taskRows') = Len(taskRows)
  BY <1>0, <1>1, <1>h, MarkedKeeps
<1>3. submit.pc = "putting" => SoundSubmit(then, Len(taskRows))
  <2> SUFFICES ASSUME submit.pc = "putting" PROVE SoundSubmit(then, Len(taskRows))
    OBVIOUS
  <2>1. SoundSubmit(submit, Len(taskRows))
    BY SMTT(30) DEF SubmitInv
  <2>2. /\ then \in SubmitRow /\ then.pc = "uploading" /\ then.task = submit.task
        /\ then.run = submit.run
    <3>0. submit \in SubmitRow /\ submit.uploaded + 1 \in Nat
      BY <2>1 DEF SoundSubmit, SubmitRow
    <3>1. ASSUME NEW n \in Nat, NEW x, x = [submit EXCEPT !.pc = "uploading", !.uploaded = n]
          PROVE  x \in SubmitRow /\ x.pc = "uploading" /\ x.task = submit.task
                 /\ x.run = submit.run
      BY Zenon, <3>0, <3>1 DEF SubmitRow
    <3> QED BY Zenon, <3>0, <3>1
  <2> HIDE DEF then
  <2> QED BY <2>1, <2>2 DEF SoundSubmit
<1> HIDE DEF then
<1>4. submit' = submit \/ SoundSubmit(submit', Len(taskRows))
  BY <1>1, <1>3, InformSound
<1> QED BY <1>1, <1>2, <1>4, RequestKeeps

LEMMA RefusedKeeps ==
    ASSUME SubmitInv, NEW h, Refuse(h), UNCHANGED <<taskRows, objects, records>>
    PROVE  SubmitInv'
<1>0. Len(taskRows) \in Nat
  BY DEF SubmitInv, TablesBacked
<1>1. SoundSubmit(Failed, Len(taskRows))
  BY <1>0, FailedSound
<1>2. handlers' = handlers \ {h} /\ Inform(h, "committing", Failed)
  BY DEF Refuse, Answered
<1>3. submit' = submit \/ SoundSubmit(submit', Len(taskRows))
  BY <1>1, <1>2, InformSound
<1> QED BY <1>2, <1>3, ClientKeeps

LEMMA ReadPendingKeeps ==
    ASSUME SubmitInv, NEW h \in handlers, ReadPending(h)
    PROVE  SubmitInv'
<1>h. h \in CommitRow /\ h.task \in 1..Len(taskRows)
  BY CommitSound DEF ReadPending
<1>u. UNCHANGED <<taskRows, objects, records>>
  BY DEF ReadPending
<1>1. CASE Refuse(h)
  BY <1>1, <1>u, RefusedKeeps
<1>2. CASE /\ Becomes(h, [h EXCEPT !.step = "receipts", !.pending = Pending(taskRows, h.task)])
           /\ UNCHANGED submit
  <2>1. ASSUME NEW S \in SUBSET Inputs, NEW x, x = [h EXCEPT !.step = "receipts", !.pending = S]
        PROVE  x \in CommitRow /\ x.task = h.task
    BY Zenon, <1>h, <2>1 DEF CommitRow
  <2> DEFINE g == [h EXCEPT !.step = "receipts", !.pending = Pending(taskRows, h.task)]
  <2>2. Pending(taskRows, h.task) \in SUBSET Inputs
    BY DEF Pending
  <2>3. g = [h EXCEPT !.step = "receipts", !.pending = Pending(taskRows, h.task)]
    OBVIOUS
  <2>4. handlers' = (handlers \ {h}) \cup {g} /\ submit' = submit
    BY <1>2 DEF Becomes
  <2> HIDE DEF g
  <2>5. g \in CommitRow /\ g.task = h.task
    BY Zenon, <2>1, <2>2, <2>3
  <2>6. SoundRequest(g, Len(taskRows), objects)
    BY <1>h, <2>5 DEF SoundRequest
  <2> QED BY <1>u, <2>4, <2>6, ClientKeeps
<1> QED BY <1>1, <1>2 DEF ReadPending

\* A receipt is taken for an object that is there (commit_task's route).
LEMMA TakeReceiptKeeps ==
    ASSUME SubmitInv, NEW h \in handlers, TakeReceipt(h)
    PROVE  SubmitInv'
<1>0. Len(taskRows) \in Nat /\ TablesBacked(taskRows, objects)
  BY DEF SubmitInv, TablesBacked
<1>h. h \in CommitRow /\ h.task \in 1..Len(taskRows)
  BY CommitSound DEF TakeReceipt
<1>p. h.pending \subseteq Inputs /\ h.run \in Int
  BY <1>h DEF CommitRow
<1>u. UNCHANGED <<objects, records>>
  BY DEF TakeReceipt
<1>1. PICK i \in h.pending :
          IF objects[h.task][i] = 0
          THEN Refuse(h) /\ UNCHANGED taskRows
          ELSE /\ taskRows' = Marked(taskRows, h.task, i, h.run)
               /\ Becomes(h, [h EXCEPT !.pending = h.pending \ {i}])
               /\ UNCHANGED submit
  BY DEF TakeReceipt
<1>2. CASE objects[h.task][i] = 0
  BY <1>1, <1>2, <1>u, RefusedKeeps
<1>3. CASE objects[h.task][i] # 0
  <2>1. taskRows' = Marked(taskRows, h.task, i, h.run) /\ UNCHANGED submit
    BY <1>1, <1>3
  <2>2. i \in Inputs
    BY <1>p
  <2>3. TablesBacked(taskRows', objects) /\ Len(taskRows') = Len(taskRows)
    BY <1>0, <1>3, <1>h, <1>p, <2>1, <2>2, MarkedKeeps
  <2>4. ASSUME NEW S \in SUBSET Inputs, NEW x, x = [h EXCEPT !.pending = S]
        PROVE  x \in CommitRow /\ x.task = h.task
    BY <1>h, <2>4 DEF CommitRow
  <2> DEFINE g == [h EXCEPT !.pending = h.pending \ {i}]
  <2>5. g = [h EXCEPT !.pending = h.pending \ {i}] /\ h.pending \ {i} \in SUBSET Inputs
    BY <1>p
  <2>6. handlers' = (handlers \ {h}) \cup {g}
    BY <1>1, <1>3 DEF Becomes
  <2> HIDE DEF g
  <2>7. g \in CommitRow /\ g.task = h.task
    BY <2>4, <2>5
  <2>8. SoundRequest(g, Len(taskRows), objects)
    BY <1>h, <2>7 DEF SoundRequest
  <2> QED BY <1>u, <2>1, <2>3, <2>6, <2>8, RequestKeeps
<1> QED BY <1>2, <1>3

\* A task is queued when all its inputs are marked (commit_task).
LEMMA CommitTaskKeeps ==
    ASSUME SubmitInv, NEW h \in handlers, CommitTask(h)
    PROVE  SubmitInv'
<1>0. Len(taskRows) \in Nat /\ TablesBacked(taskRows, objects) /\ taskRows \in Seq(SubmittedRow)
  BY DEF SubmitInv, TablesBacked
<1>h. h \in CommitRow /\ h.task \in 1..Len(taskRows) /\ h.run \in Int
  BY CommitSound DEF CommitTask, CommitRow
<1>u. UNCHANGED <<objects, records, submit>>
  BY DEF CommitTask
<1>g. ASSUME NEW s \in {"queued", "conflict"}, NEW x, x = [h EXCEPT !.step = s]
      PROVE  SoundRequest(x, Len(taskRows), objects)
  <2>1. x \in CommitRow /\ x.task = h.task
    BY <1>h, <1>g DEF CommitRow
  <2> QED BY <1>h, <2>1 DEF SoundRequest
<1>1. \A x \in handlers' : x \in handlers \/ SoundRequest(x, Len(taskRows), objects)
  <2>1. PICK s \in {"queued", "conflict"} : handlers' = (handlers \ {h}) \cup {[h EXCEPT !.step = s]}
    BY DEF CommitTask, Becomes
  <2>2. SoundRequest([h EXCEPT !.step = s], Len(taskRows), objects)
    BY <1>g
  <2> QED BY <2>1, <2>2
<1>2. CASE ~Committable(taskRows[h.task])
  <2>1. taskRows' = taskRows
    BY <1>2 DEF CommitTask
  <2> QED BY <1>0, <1>1, <1>u, <2>1, RequestKeeps
<1>3. CASE Committable(taskRows[h.task])
  <2>1. taskRows[h.task] \in SubmittedRow /\ Backed(taskRows[h.task], objects[h.task])
    BY <1>0, <1>h DEF TablesBacked
  <2>2. ASSUME NEW x, x = [taskRows[h.task] EXCEPT !.state = "queued", !.payload = h.run]
        PROVE  x \in SubmittedRow /\ x.inputs = taskRows[h.task].inputs
    BY Zenon, <1>h, <2>1, <2>2 DEF SubmittedRow
  <2> DEFINE row == [taskRows[h.task] EXCEPT !.state = "queued", !.payload = h.run]
  <2>3. row = [taskRows[h.task] EXCEPT !.state = "queued", !.payload = h.run]
    OBVIOUS
  <2>4. taskRows' = [taskRows EXCEPT ![h.task] = row]
    BY Zenon, <1>0, <1>3, <1>h DEF CommitTask
  <2> HIDE DEF row
  <2>5. row \in SubmittedRow
    BY <2>2, <2>3
  <2>6. Backed(row, objects[h.task])
    <3>1. row.inputs = taskRows[h.task].inputs
      BY <2>2, <2>3
    <3> QED BY <1>3, <2>1, <3>1 DEF Backed, Committable
  <2>7. TablesBacked(taskRows', objects) /\ Len(taskRows') = Len(taskRows)
    BY Zenon, <1>0, <1>h, <2>4, <2>5, <2>6, RowReplaced
  <2> QED BY <1>1, <1>u, <2>7, RequestKeeps
<1> QED BY <1>2, <1>3

LEMMA StoreCommitKeeps ==
    ASSUME SubmitInv, NEW h \in handlers, StoreCommit(h)
    PROVE  SubmitInv'
<1>0. Len(taskRows) \in Nat /\ TablesBacked(taskRows, objects)
  BY DEF SubmitInv, TablesBacked
<1>h. h.task \in 0..Len(taskRows)
  <2>1. h.task \in 1..Len(taskRows)
    BY CommitSound DEF StoreCommit
  <2> QED BY <1>0, <2>1
<1>1. PICK s \in {"done", "failed"} : Inform(h, "committing", [submit EXCEPT !.pc = s])
  BY DEF StoreCommit
<1>2. submit.pc = "committing" => SoundSubmit([submit EXCEPT !.pc = s], Len(taskRows))
  <2> SUFFICES ASSUME submit.pc = "committing", NEW x, x = [submit EXCEPT !.pc = s]
               PROVE  SoundSubmit(x, Len(taskRows))
    OBVIOUS
  <2>1. SoundSubmit(submit, Len(taskRows))
    BY DEF SubmitInv
  <2>2. x \in SubmitRow /\ x.pc = s /\ x.task = submit.task /\ x.run = submit.run
    BY <2>1 DEF SoundSubmit, SubmitRow
  <2> QED BY <2>1, <2>2 DEF SoundSubmit
<1>3. submit' = submit \/ SoundSubmit(submit', Len(taskRows))
  BY Zenon, <1>1, <1>2, InformSound
<1>4. Put(h, h.task) /\ handlers' = handlers \ {h} /\ UNCHANGED <<taskRows, objects>>
  BY DEF StoreCommit, Answered
<1>5. \A r \in records' : r \in records \/ r.answer \in 0..Len(taskRows)
  BY <1>4, <1>h, PutRecords
<1> QED BY <1>0, <1>3, <1>4, <1>5, RequestKeeps

\* The clock, lost requests and a Gateway that stops.
LEMMA WorldKeeps ==
    ASSUME SubmitInv,
           \/ \E t \in DOMAIN taskRows : ReservationLapses(t)
           \/ SweepTasks \/ GiveUp \/ GatewayCrashes
    PROVE  SubmitInv'
<1>0. /\ Len(taskRows) \in Nat /\ TablesBacked(taskRows, objects) /\ taskRows \in Seq(SubmittedRow)
      /\ DOMAIN taskRows = 1..Len(taskRows)
  BY DEF SubmitInv, TablesBacked
<1>1. ASSUME NEW t \in DOMAIN taskRows, ReservationLapses(t) PROVE SubmitInv'
  <2>1. t \in 1..Len(taskRows) /\ taskRows[t] \in SubmittedRow /\ Backed(taskRows[t], objects[t])
    BY <1>0 DEF TablesBacked
  <2>2. ASSUME NEW x, x = [taskRows[t] EXCEPT !.life = "lapsed"]
        PROVE  x \in SubmittedRow /\ Backed(x, objects[t])
    <3>1. x \in SubmittedRow /\ x.inputs = taskRows[t].inputs /\ x.state = taskRows[t].state
      BY <2>1, <2>2 DEF SubmittedRow
    <3> QED BY <2>1, <3>1 DEF Backed
  <2> DEFINE row == [taskRows[t] EXCEPT !.life = "lapsed"]
  <2>3. row = [taskRows[t] EXCEPT !.life = "lapsed"]
    OBVIOUS
  <2>4. taskRows' = [taskRows EXCEPT ![t] = row] /\ UNCHANGED <<objects, records, handlers, submit>>
    BY <1>0, <1>1 DEF ReservationLapses
  <2> HIDE DEF row
  <2>5. row \in SubmittedRow /\ Backed(row, objects[t])
    BY <2>2, <2>3
  <2>6. TablesBacked(taskRows', objects) /\ Len(taskRows') = Len(taskRows)
    BY Zenon, <1>0, <2>1, <2>4, <2>5, RowReplaced
  <2> QED BY <2>4, <2>6, RequestKeeps
<1>2. ASSUME SweepTasks PROVE SubmitInv'
  <2>1. TablesBacked(taskRows', objects) /\ Len(taskRows') = Len(taskRows)
    BY <1>0, <1>2, ExpiredKeeps DEF SweepTasks
  <2> QED BY <1>2, <2>1, RequestKeeps DEF SweepTasks
<1>3. ASSUME GiveUp \/ GatewayCrashes PROVE SubmitInv'
  <2>1. SoundSubmit(Failed, Len(taskRows))
    BY <1>0, FailedSound
  <2>2. /\ handlers' \subseteq handlers /\ submit' \in {submit, Failed}
        /\ UNCHANGED <<taskRows, objects, records>>
    BY <1>3 DEF GiveUp, GatewayCrashes
  <2> QED BY <2>1, <2>2, ClientKeeps
<1> QED BY <1>1, <1>2, <1>3

\* The invariant of a submission: marks follow objects, and a queue entry
\* follows the marks (TaskSubmit).
THEOREM SubmitInvariant == SubmitSpec => []SubmitInv
<1>1. SubmitInit => SubmitInv
  BY SubmitInitHolds
<1>2. ASSUME SubmitInv, SubmitNext PROVE SubmitInv'
  <2>1. ASSUME NEW h \in handlers,
               \/ LookUpPrepare(h) \/ PrepareTask(h) \/ ReserveInputs(h) \/ StorePrepare(h)
               \/ StoreObject(h) \/ MarkUploaded(h)
               \/ ReadPending(h) \/ TakeReceipt(h) \/ CommitTask(h) \/ StoreCommit(h)
        PROVE  SubmitInv'
    BY <1>2, <2>1, LookUpKeeps, PrepareTaskKeeps, ReserveKeeps, StorePrepareKeeps, StoreObjectKeeps,
       MarkKeeps, ReadPendingKeeps, TakeReceiptKeeps, CommitTaskKeeps, StoreCommitKeeps
  <2>2. ASSUME StartSubmit \/ RenewLogin \/ RefusePrepared \/ UploadInput \/ SendCommit
        PROVE  SubmitInv'
    BY <1>2, <2>2, StartKeeps, RenewKeeps, RefuseKeeps, UploadKeeps, SendKeeps
  <2>3. ASSUME \/ \E t \in DOMAIN taskRows : ReservationLapses(t)
               \/ SweepTasks \/ GiveUp \/ GatewayCrashes
        PROVE  SubmitInv'
    BY <1>2, <2>3, WorldKeeps
  <2> QED BY <1>2, <2>1, <2>2, <2>3 DEF SubmitNext
<1>3. ASSUME SubmitInv, UNCHANGED submitVars PROVE SubmitInv'
  BY <1>3, ClientKeeps DEF submitVars
<1> QED BY <1>1, <1>2, <1>3, PTL DEF SubmitSpec

\* A queued task has every input, marked and in the store: for any number of
\* inputs, invocations, sessions, lost requests and Gateway crashes
\* (artifact_transfer, commit_task).
THEOREM QueuedTasksHaveInputs == SubmitSpec => []QueuedInputsStored
<1>1. SubmitInv => QueuedInputsStored
  <2> SUFFICES ASSUME SubmitInv, NEW t \in Queued
               PROVE  \A i \in Inputs : taskRows[t].inputs[i].state = "uploaded" /\ objects[t][i] # 0
    BY DEF QueuedInputsStored
  <2>1. t \in 1..Len(taskRows) /\ taskRows[t].state = "queued"
    BY DEF Queued, SubmitInv, TablesBacked
  <2>2. Backed(taskRows[t], objects[t])
    BY <2>1 DEF SubmitInv, TablesBacked
  <2> QED BY <2>1, <2>2 DEF Backed
<1> QED BY <1>1, SubmitInvariant, PTL

-----------------------------------------------------------------------------
(* Outputs published into one directory *)

OutputSpec == OutputInit /\ [][OutputNext]_outputVars

GetRow == [pc : {"start", "staged", "compare", "done", "failed"}, content : Outputs,
           overwrite : BOOLEAN, name : 0..MaxNames]

OutputTyped ==
    /\ folder \in [Names -> Outputs \cup {Absent}]
    /\ gets \in [Gets -> GetRow]
    /\ \A g \in Gets : gets[g].pc = "compare" => gets[g].name \in Names

NoneOverwrites == \A g \in Gets : ~gets[g].overwrite

GetsKept ==
    \A g \in Gets : gets[g].pc = "done" =>
        gets[g].name \in Names /\ folder[gets[g].name] = gets[g].content

OutputInv == OutputTyped /\ (NoneOverwrites => GetsKept)

LEMMA OutputInitHolds == OutputInit => OutputInv
<1> SUFFICES ASSUME OutputInit PROVE OutputInv
  OBVIOUS
<1>1. PICK f \in Outputs \cup {Absent} : folder = [n \in Names |-> IF n = 0 THEN f ELSE Absent]
  BY DEF OutputInit
<1>2. PICK c \in [Gets -> Outputs], o \in [Gets -> BOOLEAN] :
        gets = [g \in Gets |-> [pc |-> "start", content |-> c[g], overwrite |-> o[g], name |-> 0]]
  BY DEF OutputInit
<1>3. folder \in [Names -> Outputs \cup {Absent}]
  BY <1>1
<1>4. 0 \in 0..MaxNames
  BY OutputsAssumption
<1>5. gets \in [Gets -> GetRow]
  BY <1>2, <1>4 DEF GetRow
<1>6. \A g \in Gets : gets[g].pc = "start"
  BY <1>2
<1> QED
  BY <1>3, <1>5, <1>6 DEF OutputInv, OutputTyped, GetsKept

\* A step of one command that changes no name which is taken.
LEMMA GetStepKeeps ==
  ASSUME OutputInv, NEW g \in Gets, NEW r \in GetRow, Set(g, r),
         r.overwrite = gets[g].overwrite,
         r.pc = "compare" => r.name \in Names,
         folder' \in [Names -> Outputs \cup {Absent}],
         ~r.overwrite => \A n \in Names : folder[n] # Absent => folder'[n] = folder[n],
         r.pc = "done" /\ ~r.overwrite => r.name \in Names /\ folder'[r.name] = r.content
  PROVE  OutputInv'
<1>1. gets \in [Gets -> GetRow] /\ gets' = [gets EXCEPT ![g] = r]
  BY DEF OutputInv, OutputTyped, Set
<1>2. \A h \in Gets : gets'[h] = IF h = g THEN r ELSE gets[h]
  BY <1>1
<1>3. OutputTyped'
  BY <1>1, <1>2 DEF OutputInv, OutputTyped
<1>4. ASSUME NoneOverwrites' PROVE GetsKept'
  <2>1. \A h \in Gets : ~gets'[h].overwrite
    BY <1>4 DEF NoneOverwrites
  <2>2. ~r.overwrite
    BY <1>2, <2>1
  <2>3. \A h \in Gets : ~gets[h].overwrite
    BY <1>2, <2>1, <2>2
  <2>4. GetsKept
    BY <2>3 DEF OutputInv, NoneOverwrites
  <2>5. ASSUME NEW h \in Gets, gets'[h].pc = "done"
        PROVE  gets'[h].name \in Names /\ folder'[gets'[h].name] = gets'[h].content
    <3>1. CASE h = g
      BY <1>2, <2>2, <2>5, <3>1
    <3>2. CASE h # g
      <4>1. gets'[h] = gets[h] /\ gets[h].pc = "done"
        BY <1>2, <2>5, <3>2
      <4>2. folder[gets[h].name] = gets[h].content /\ gets[h].name \in Names
        BY <2>4, <4>1 DEF GetsKept
      <4>3. gets[h].content \in Outputs
        BY <1>1 DEF GetRow
      <4> QED
        BY <2>2, <4>1, <4>2, <4>3, OutputsAssumption
    <3> QED
      BY <3>1, <3>2
  <2> QED
    BY <2>5 DEF GetsKept
<1> QED
  BY <1>3, <1>4 DEF OutputInv

\* The row of a command that goes to another step.
LEMMA GetRowMoves ==
  ASSUME NEW row \in GetRow, NEW pc \in {"start", "staged", "compare", "done", "failed"}
  PROVE  /\ [row EXCEPT !.pc = pc] \in GetRow
         /\ [row EXCEPT !.pc = pc].pc = pc
         /\ [row EXCEPT !.pc = pc].name = row.name
         /\ [row EXCEPT !.pc = pc].content = row.content
         /\ [row EXCEPT !.pc = pc].overwrite = row.overwrite
  BY DEF GetRow

LEMMA StageKeeps == ASSUME OutputInv, NEW g \in Gets, Stage(g) PROVE OutputInv'
<1>1. PICK pc \in {"staged", "failed"} : Set(g, [gets[g] EXCEPT !.pc = pc])
  BY DEF Stage
<1>2. gets[g] \in GetRow /\ folder \in [Names -> Outputs \cup {Absent}] /\ folder' = folder
  BY DEF OutputInv, OutputTyped, Stage
<1> DEFINE r == [gets[g] EXCEPT !.pc = pc]
<1>3. pc \in {"start", "staged", "compare", "done", "failed"}
  OBVIOUS
<1>4. r \in GetRow /\ r.overwrite = gets[g].overwrite /\ r.pc = pc
  BY ZenonT(30), <1>2, <1>3, GetRowMoves
<1>5. Set(g, r)
  BY <1>1
<1> HIDE DEF r
<1> QED
  BY <1>2, <1>4, <1>5, GetStepKeeps

LEMMA ReplaceKeeps == ASSUME OutputInv, NEW g \in Gets, Replace(g) PROVE OutputInv'
<1> DEFINE r == [gets[g] EXCEPT !.pc = "done"]
<1>1. gets[g] \in GetRow /\ gets \in [Gets -> GetRow] /\ folder \in [Names -> Outputs \cup {Absent}]
  BY DEF OutputInv, OutputTyped
<1>2. gets[g].overwrite /\ Set(g, r) /\ folder' = [folder EXCEPT ![0] = gets[g].content]
  BY DEF Replace
<1>3. 0 \in Names
  BY OutputsAssumption DEF Names
<1>4. r \in GetRow /\ r.overwrite = gets[g].overwrite
  BY Zenon, <1>1, GetRowMoves
<1>5. folder' \in [Names -> Outputs \cup {Absent}]
  BY <1>1, <1>2, <1>3 DEF GetRow
<1>6. r.pc = "done"
  BY <1>1, GetRowMoves
<1>7. Set(g, r)
  BY <1>2
<1> HIDE DEF r
<1> QED
  BY Zenon, <1>2, <1>4, <1>5, <1>6, <1>7, GetStepKeeps

LEMMA LinkKeeps == ASSUME OutputInv, NEW g \in Gets, Link(g) PROVE OutputInv'
<1> DEFINE n == gets[g].name
<1>1. /\ gets[g] \in GetRow /\ gets \in [Gets -> GetRow]
      /\ folder \in [Names -> Outputs \cup {Absent}]
  BY DEF OutputInv, OutputTyped
<1>2. n \in 0..MaxNames /\ n \in Names /\ gets[g].content \in Outputs
  BY <1>1, OutputsAssumption DEF GetRow, Names, Link
<1>3. ASSUME folder[n] = Absent, folder' = [folder EXCEPT ![n] = gets[g].content],
             Set(g, [gets[g] EXCEPT !.pc = "done"])
      PROVE  OutputInv'
  <2> DEFINE r == [gets[g] EXCEPT !.pc = "done"]
  <2>1. /\ r \in GetRow /\ r.overwrite = gets[g].overwrite /\ r.pc = "done" /\ r.name = n
        /\ r.content = gets[g].content
    BY Zenon, <1>1, GetRowMoves
  <2> HIDE DEF r
  <2>2. folder' \in [Names -> Outputs \cup {Absent}]
    BY <1>1, <1>2, <1>3
  <2>3. \A m \in Names : folder[m] # Absent => folder'[m] = folder[m]
    BY <1>1, <1>2, <1>3
  <2>4. folder'[r.name] = r.content
    BY <1>1, <1>2, <1>3, <2>1
  <2>5. Set(g, r)
    BY <1>3 DEF r
  <2> QED
    BY <1>2, <2>1, <2>2, <2>3, <2>4, <2>5, GetStepKeeps
<1>4. ASSUME folder' = folder, Set(g, [gets[g] EXCEPT !.pc = "compare"]) PROVE OutputInv'
  <2> DEFINE r == [gets[g] EXCEPT !.pc = "compare"]
  <2>1. r \in GetRow /\ r.overwrite = gets[g].overwrite /\ r.pc = "compare" /\ r.name = n
    BY Zenon, <1>1, GetRowMoves
  <2>2. Set(g, r)
    BY <1>4
  <2> HIDE DEF r
  <2> QED
    BY <1>1, <1>2, <1>4, <2>1, <2>2, GetStepKeeps
<1> QED
  BY <1>3, <1>4 DEF Link

LEMMA CompareKeeps == ASSUME OutputInv, NEW g \in Gets, Compare(g) PROVE OutputInv'
<1> DEFINE n == gets[g].name
<1>1. gets[g] \in GetRow /\ folder \in [Names -> Outputs \cup {Absent}] /\ folder' = folder
  BY DEF OutputInv, OutputTyped, Compare
<1>2. n \in Names /\ n \in 0..MaxNames /\ n + 1 \in 0..MaxNames
  BY OutputsAssumption DEF OutputInv, OutputTyped, Compare, Names
<1>3. ASSUME folder[n] = gets[g].content, Set(g, [gets[g] EXCEPT !.pc = "done"]) PROVE OutputInv'
  <2> DEFINE r == [gets[g] EXCEPT !.pc = "done"]
  <2>1. /\ r \in GetRow /\ r.overwrite = gets[g].overwrite /\ r.pc = "done" /\ r.name = n
        /\ r.content = gets[g].content
    BY Zenon, <1>1, GetRowMoves
  <2>2. Set(g, r)
    BY <1>3
  <2> HIDE DEF r
  <2> QED
    BY <1>1, <1>2, <1>3, <2>1, <2>2, GetStepKeeps
<1>4. ASSUME Set(g, [gets[g] EXCEPT !.pc = "staged", !.name = n + 1]) PROVE OutputInv'
  <2> DEFINE r == [gets[g] EXCEPT !.pc = "staged", !.name = n + 1]
  <2>1. r \in GetRow /\ r.overwrite = gets[g].overwrite /\ r.pc = "staged"
    BY Zenon, <1>1, <1>2 DEF GetRow
  <2>2. Set(g, r)
    BY <1>4
  <2> HIDE DEF r
  <2> QED
    BY <1>1, <2>1, <2>2, GetStepKeeps
<1> QED
  BY <1>3, <1>4 DEF Compare

LEMMA NamesExhaustedKeeps == ASSUME OutputInv, NEW g \in Gets, NamesExhausted(g) PROVE OutputInv'
<1> DEFINE r == [gets[g] EXCEPT !.pc = "failed"]
<1>1. gets[g] \in GetRow /\ folder \in [Names -> Outputs \cup {Absent}] /\ folder' = folder
  BY DEF OutputInv, OutputTyped, NamesExhausted
<1>3. r \in GetRow /\ r.overwrite = gets[g].overwrite /\ r.pc = "failed"
  BY Zenon, <1>1, GetRowMoves
<1>4. Set(g, r)
  BY DEF NamesExhausted
<1> HIDE DEF r
<1> QED
  BY <1>1, <1>3, <1>4, GetStepKeeps

LEMMA OutputStutters == OutputInv /\ UNCHANGED outputVars => OutputInv'
  BY DEF outputVars, OutputInv, OutputTyped, NoneOverwrites, GetsKept

\* The inductive invariant of the published outputs: where nobody overwrites,
\* a command that is done has its output under its name.
THEOREM OutputInvariant == OutputSpec => []OutputInv
<1>1. OutputInv /\ [OutputNext]_outputVars => OutputInv'
  BY StageKeeps, ReplaceKeeps, LinkKeeps, CompareKeeps, NamesExhaustedKeeps, OutputStutters
  DEF OutputNext
<1> QED
  BY <1>1, OutputInitHolds, PTL DEF OutputSpec

\* PublishedKept for any number of commands, contents and names: what a
\* command without --overwrite has published stays under its name
\* (_publish_task_output).
THEOREM OutputsStayPublished == OutputSpec => []PublishedKept
<1>1. OutputInv => PublishedKept
  BY DEF OutputInv, PublishedKept, NoneOverwrites, GetsKept
<1> QED
  BY <1>1, OutputInvariant, PTL

-----------------------------------------------------------------------------
(* The usage ledger *)

LedgerSpec == LedgerInit /\ [][LedgerNext]_ledgerVars

CallsTyped ==
    /\ ledgerCalls \in [Calls -> [step : {"idle", "stamped", "read", "done"}, stamp : Int, prior : Int]]
    /\ ledgerClock \in Int

RowTyped(r) ==
    /\ r.id \in LedgerIds /\ r.created \in Int
    /\ r.previous \in LedgerIds \cup {NoLink} /\ r.reverses \in LedgerIds \cup {NoLink}

\* What a row refers to is there.
RefersWithin(r, rows) ==
    \A link \in {r.previous, r.reverses} : link # NoLink => \E s \in rows : s.id = link

\* Some row comes after all others in the order of (created_at, id).
HasLast(rows) == rows # {} => \E r \in rows : \A s \in rows \ {r} : Later(r, s)

LedgerInv ==
    /\ CallsTyped
    /\ \A r \in ledger : RowTyped(r) /\ RefersWithin(r, ledger)
    /\ \A r, s \in ledger : r.id = s.id => r = s
    /\ HasLast(ledger)
    /\ LedgerHangsTogether

LEMMA LedgerInitHolds == LedgerInit => LedgerInv
<1> SUFFICES ASSUME LedgerInit PROVE LedgerInv
  OBVIOUS
<1>1. CallsTyped
  BY DEF LedgerInit, CallsTyped, NotCalled, NoLink
<1>2. CASE ledger = {}
  BY <1>1, <1>2 DEF LedgerInv, HasLast, LedgerHangsTogether, Follows
<1>3. ASSUME NEW x \in LedgerIds, NEW y \in LedgerIds \ {x},
             ledger = {Row(x, 0, "charge", TRUE, 2, NoLink, NoLink),
                       Row(y, 1, "charge", FALSE, 0, x, NoLink)}
      PROVE  LedgerInv
  <2> DEFINE X == Row(x, 0, "charge", TRUE, 2, NoLink, NoLink)
             Y == Row(y, 1, "charge", FALSE, 0, x, NoLink)
  <2>1. /\ X.id = x /\ X.created = 0 /\ X.previous = NoLink /\ X.reverses = NoLink
        /\ Y.id = y /\ Y.created = 1 /\ Y.previous = x /\ Y.reverses = NoLink
    BY DEF Row
  <2>2. ledger = {X, Y}
    BY <1>3
  <2> HIDE DEF X, Y
  <2>3. x \in Nat /\ x # NoLink /\ y \in Nat /\ y # NoLink /\ NoLink = 0
    BY LedgerAssumption DEF NoLink
  <2>4. \A r \in ledger : RowTyped(r) /\ RefersWithin(r, ledger)
    BY <2>1, <2>2, <2>3 DEF RowTyped, RefersWithin
  <2>5. \A r, s \in ledger : r.id = s.id => r = s
    BY <2>1, <2>2
  <2>6. HasLast(ledger)
    BY <2>1, <2>2 DEF HasLast, Later
  <2>7. \A S \in SUBSET ledger : Follows(S) => S = ledger
    BY <2>1, <2>2 DEF Follows
  <2>8. \A r \in ledger : Reversals(r) = {}
    BY <2>1, <2>2, <2>3 DEF Reversals
  <2>9. \A r, s \in ledger : r.previous = NoLink /\ s.previous = NoLink => r = s
    BY <2>1, <2>2, <2>3
  <2> QED
    BY <1>1, <2>4, <2>5, <2>6, <2>7, <2>8, <2>9 DEF LedgerInv, LedgerHangsTogether
<1> QED
  BY Zenon, <1>2, <1>3 DEF LedgerInit

\* The row a new one is linked to is there.
LEMMA PriorLinkThere ==
  ASSUME LedgerInv
  PROVE  /\ ledger = {} => PriorLink = NoLink
         /\ ledger # {} => PriorLink \in LedgerIds /\ \E s \in ledger : s.id = PriorLink
<1>1. ledger = {} => PriorLink = NoLink
  BY DEF PriorLink
<1>2. ASSUME ledger # {} PROVE PriorLink \in LedgerIds /\ \E s \in ledger : s.id = PriorLink
  <2> DEFINE last == CHOOSE r \in ledger : \A s \in ledger \ {r} : Later(r, s)
  <2>1. last \in ledger
    BY <1>2 DEF LedgerInv, HasLast
  <2>2. PriorLink = last.id
    BY <1>2 DEF PriorLink
  <2> HIDE DEF last
  <2> QED
    BY <2>1, <2>2 DEF LedgerInv, RowTyped
<1> QED
  BY <1>1, <1>2

\* One more row keeps some row last.
LEMMA LastKept ==
  ASSUME LedgerInv, NEW row, row.id \in Unused, row.created \in Int
  PROVE  HasLast(ledger \cup {row})
<1>1. CASE ledger = {}
  BY <1>1 DEF HasLast
<1>2. CASE ledger # {}
  <2>1. PICK m \in ledger : \A s \in ledger \ {m} : Later(m, s)
    BY <1>2 DEF LedgerInv, HasLast
  <2>0. \A n \in LedgerIds : n \in Int
    BY LedgerAssumption
  <2>2. \A r \in ledger : r.id \in Int /\ r.created \in Int /\ r.id # row.id
    BY <2>0 DEF LedgerInv, RowTyped, Unused
  <2>3. row.id \in Int /\ row \notin ledger
    BY <2>0, <2>2 DEF Unused
  <2>4. CASE Later(row, m)
    <3>1. \A s \in ledger : Later(row, s)
      BY <2>1, <2>2, <2>3, <2>4 DEF Later
    <3> QED
      BY <3>1 DEF HasLast
  <2>5. CASE ~Later(row, m)
    <3>1. Later(m, row)
      BY <2>2, <2>3, <2>5 DEF Later
    <3> QED
      BY <2>1, <3>1 DEF HasLast
  <2> QED
    BY <2>4, <2>5
<1> QED
  BY <1>1, <1>2

\* A row appended to the last one, that takes nothing back or an open charge.
LEMMA LedgerAppendKeeps ==
  ASSUME LedgerInv, CallsTyped', NEW row, row.id \in Unused, row.created \in Int,
         row.previous = PriorLink, ledger' = ledger \cup {row},
         \/ row.reverses = NoLink
         \/ \E r \in ledger : /\ row.reverses = r.id /\ Reversals(r) = {}
                              /\ r.type = "charge" /\ row.total = -r.total
  PROVE  LedgerInv'
<1>1. \A r \in ledger : r.id \in LedgerIds /\ r.id # row.id
  BY DEF LedgerInv, RowTyped, Unused
<1>2. row.id \in LedgerIds /\ row.id # NoLink /\ NoLink \notin LedgerIds
  BY LedgerAssumption DEF Unused, NoLink
<1>r. \A r \in ledger : RowTyped(r) /\ RefersWithin(r, ledger)
  BY DEF LedgerInv
<1>3. \A r \in ledger : r.previous # row.id /\ r.reverses # row.id
  BY <1>1, <1>2, <1>r DEF RefersWithin
<1>4. row.reverses \in LedgerIds \cup {NoLink} /\ row.reverses # row.id
      /\ (row.reverses # NoLink => \E s \in ledger : s.id = row.reverses)
  BY <1>1, <1>2 DEF LedgerInv
<1>5. \A r \in ledger' : RowTyped(r) /\ RefersWithin(r, ledger')
  <2>1. RowTyped(row)
    BY <1>2, <1>4, PriorLinkThere DEF RowTyped
  <2>2. RefersWithin(row, ledger')
    BY <1>4, PriorLinkThere DEF RefersWithin
  <2>3. ASSUME NEW r \in ledger PROVE RowTyped(r) /\ RefersWithin(r, ledger')
    <3>1. RowTyped(r) /\ RefersWithin(r, ledger)
      BY <1>r
    <3> QED BY <3>1 DEF RefersWithin
  <2> QED
    BY SMTT(30), <2>1, <2>2, <2>3
<1>6. \A r, s \in ledger' : r.id = s.id => r = s
  BY <1>1 DEF LedgerInv
<1>7. HasLast(ledger')
  BY LastKept
<1>8. \A r, s \in ledger' : r.previous = NoLink /\ s.previous = NoLink => r = s
  BY <1>2, PriorLinkThere DEF LedgerInv, LedgerHangsTogether
<1>9. ASSUME NEW S \in SUBSET ledger', Follows(S)' PROVE S = ledger'
  <2>1. \A r \in ledger' : (r.previous = NoLink \/ \E s \in S : r.previous = s.id) => r \in S
    BY <1>9 DEF Follows
  <2> DEFINE T == S \cap ledger
  <2>2. Follows(T)
    BY <2>1 DEF Follows
  <2>3. T = ledger
    BY <2>2 DEF LedgerInv, LedgerHangsTogether
  <2>4. row \in S
    BY <2>1, <2>3, PriorLinkThere
  <2> QED
    BY <2>3, <2>4
<1>10. ASSUME NEW r \in ledger', NEW s \in Reversals(r)', NEW u \in Reversals(r)'
       PROVE  r.type = "charge" /\ s = u /\ s.total = -r.total
  <2>1. s \in ledger' /\ u \in ledger' /\ s.reverses = r.id /\ u.reverses = r.id
    BY DEF Reversals
  <2>2. r \in ledger
    BY <1>3, <1>4, <2>1
  <2>3. CASE s # row /\ u # row
    <3>1. s \in Reversals(r) /\ u \in Reversals(r)
      BY <2>1, <2>3 DEF Reversals
    <3> QED
      BY <2>2, <3>1 DEF LedgerInv, LedgerHangsTogether
  <2>4. CASE s = row \/ u = row
    <3>1. PICK q \in ledger : /\ row.reverses = q.id /\ Reversals(q) = {}
                              /\ q.type = "charge" /\ row.total = -q.total
      BY <1>1, <1>2, <2>1, <2>2, <2>4
    <3>2. q = r
      BY <2>1, <2>2, <2>4, <3>1 DEF LedgerInv
    <3>3. s = row /\ u = row
      BY <2>1, <3>1, <3>2 DEF Reversals
    <3> QED
      BY <3>1, <3>2, <3>3
  <2> QED
    BY <2>3, <2>4
<1>11. LedgerHangsTogether'
  BY <1>8, <1>9, <1>10 DEF LedgerHangsTogether
<1> QED
  BY <1>5, <1>6, <1>7, <1>11 DEF LedgerInv, RowTyped, RefersWithin, HasLast, Later

\* A step of the clock or of a handler that appends nothing.
LEMMA UnappendedKeeps ==
  ASSUME LedgerInv, CallsTyped', ledger' = ledger PROVE LedgerInv'
<1>1. LedgerHangsTogether'
  BY DEF LedgerInv, LedgerHangsTogether, Follows, Reversals
<1> QED
  BY <1>1 DEF LedgerInv, RowTyped, RefersWithin, HasLast, Later

LEMMA LedgerNextKeeps == LedgerInv /\ [LedgerNext]_ledgerVars => LedgerInv'
<1> SUFFICES ASSUME LedgerInv, [LedgerNext]_ledgerVars PROVE LedgerInv'
  OBVIOUS
<1> USE DEF NoLink
<1>0. CallsTyped
  BY DEF LedgerInv
<1>1. CASE UNCHANGED ledgerVars
  <2>1. CallsTyped'
    BY <1>0, <1>1 DEF CallsTyped, ledgerVars
  <2> QED
    BY <1>1, <2>1, UnappendedKeeps DEF ledgerVars
<1>2. CASE Tick
  <2>1. CallsTyped'
    BY <1>0, <1>2 DEF CallsTyped, Tick
  <2> QED
    BY <1>2, <2>1, UnappendedKeeps DEF Tick
<1>3. ASSUME NEW c \in Calls, ReadClock(c) PROVE LedgerInv'
  <2>1. CallsTyped'
    BY Zenon, <1>0, <1>3 DEF CallsTyped, ReadClock, Step
  <2> QED
    BY <1>3, <2>1, UnappendedKeeps DEF ReadClock
<1>6. ASSUME NEW c \in Calls, CallAgain(c) PROVE LedgerInv'
  <2>1. NotCalled \in [step : {"idle", "stamped", "read", "done"}, stamp : Int, prior : Int]
    BY DEF NotCalled
  <2>2. CallsTyped'
    BY <1>0, <1>6, <2>1 DEF CallsTyped, CallAgain, Step
  <2> QED
    BY <1>6, <2>2, UnappendedKeeps DEF CallAgain
<1>4. ASSUME NEW c \in Calls, NEW id \in Unused, AppendCharge(c, id) PROVE LedgerInv'
  <2>1. CallsTyped' /\ ledgerCalls[c].stamp \in Int
    BY <1>0, <1>4 DEF CallsTyped, AppendCharge, Step
  <2> DEFINE row == Row(id, ledgerCalls[c].stamp, "charge", FALSE, 0, PriorLink, NoLink)
  <2>2. row.id = id /\ row.created = ledgerCalls[c].stamp /\ row.previous = PriorLink /\ row.reverses = NoLink
    BY DEF Row
  <2>3. ledger' = ledger \cup {row}
    BY <1>4 DEF AppendCharge
  <2> HIDE DEF row, NoLink
  <2> QED
    BY <2>1, <2>2, <2>3, LedgerAppendKeeps
<1>5. ASSUME NEW c \in Calls, NEW id \in Unused, NEW r \in ledger, Reverse(c, r, id) PROVE LedgerInv'
  <2>1. CallsTyped' /\ ledgerCalls[c].stamp \in Int
    BY <1>0, <1>5 DEF CallsTyped, Reverse, Step
  <2>2. CASE Reversals(r) = {} /\ Reversible(r)
    <3> DEFINE row == Row(id, ledgerCalls[c].stamp, "reversal", TRUE, -r.total, PriorLink, r.id)
    <3>1. /\ row.id = id /\ row.created = ledgerCalls[c].stamp /\ row.previous = PriorLink
          /\ row.reverses = r.id /\ row.total = -r.total
      BY DEF Row
    <3>2. ledger' = ledger \cup {row} /\ r.type = "charge"
      BY Zenon, <1>5, <2>2 DEF Reverse, Reversible
    <3> HIDE DEF row
    <3> QED
      BY <2>1, <2>2, <3>1, <3>2, LedgerAppendKeeps
  <2>3. CASE ~(Reversals(r) = {} /\ Reversible(r))
    BY Zenon, <1>5, <2>1, <2>3, UnappendedKeeps DEF Reverse
  <2> QED
    BY <2>2, <2>3
<1> QED
  BY <1>1, <1>2, <1>3, <1>4, <1>5, <1>6 DEF LedgerNext

\* The inductive invariant of the ledger: rows have their own ids, refer to
\* rows that are there, and one of them is last, so that the row a new one is
\* linked to always exists.
THEOREM LedgerInvariant == LedgerSpec => []LedgerInv
  BY LedgerInitHolds, LedgerNextKeeps, PTL DEF LedgerSpec

\* LedgerHangsTogether for any number of handlers, ids and times: no row of
\* the ledger is detached from the first one, and only a charge is taken back,
\* once and in full (_append_ledger, reverse_usage_charge).
THEOREM LedgersHangTogether == LedgerSpec => []LedgerHangsTogether
<1>1. LedgerInv => LedgerHangsTogether
  BY DEF LedgerInv
<1> QED
  BY <1>1, LedgerInvariant, PTL

=============================================================================
