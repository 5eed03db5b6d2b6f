---------------------------- MODULE BrokerRekey ----------------------------
(***************************************************************************)
(* A task whose Worker lost its lease is given to another Worker by        *)
(* whoever holds its key: the Gateway can reserve a replacement attempt,   *)
(* but only a Broker device or the consumer's command line can seal the    *)
(* task key for it.  The Gateway side is repository.py (the sweeper, the   *)
(* command table, prepare_retry, commit_rekey) behind the idempotency      *)
(* cache of app.py; the Broker side is broker/daemon.py and rekey.py.      *)
(*                                                                         *)
(* One task is followed.  `gate` is the Gateway's database, `brokers` the  *)
(* daemons with the HTTP calls they make, `cli` the `vgen task retry` and  *)
(* `vgen task cancel` of the consumer.  A call passes through the Gateway  *)
(* in three transactions (look the key up, run the handler, store the      *)
(* answer), and between any two of them other calls run.  A client that    *)
(* gives up leaves its call behind (`late`): the Gateway still works on    *)
(* it.  Lifetimes are "live" or "lapsed"; the clock lapses them in any     *)
(* order.                                                                  *)
(*                                                                         *)
(* Left out: the checks of certificates, allocation proofs and the reader  *)
(* envelope, all of which only make the handler raise; the expiry of cache *)
(* entries (24 h, longer than a command lives); revoked devices.           *)
(***************************************************************************)
EXTENDS Naturals, Sequences, FiniteSets, FiniteSetsExt

CONSTANTS Workers, Devices,
          NoDevice,         \* no Broker device was seen in the last 300 s
          MaxAttempts,      \* bound on the attempts of the task
          MaxRekeyFaults,   \* bound on sessions renewed, calls given up, restarts
          MaxLapses,        \* bound on lifetimes that run out
          MaxCliCalls       \* bound on the consumer's retries and cancellations

VARIABLES gate, brokers, cli, rekeyFaults
rekeyVars == <<gate, brokers, cli, rekeyFaults>>

NoCall == [stage |-> "none"]
NoCommand == [state |-> "none", device |-> NoDevice, life |-> "live"]
Last(d) == Len(d.attempts)

\* A task is "committed" only within a transaction, and "running" stands for
\* "reserved" too, the state between a lease and the start of its attempt.
HandledStates == {"queued", "running", "succeeded", "cancelled"}

----------------------------------------------------------------------------
(* The transactions of the Gateway, as operators on its database.          *)

EndAttempts(d, from, to) ==
    [a \in 1..Last(d) |->
        IF d.attempts[a].state \in from
        THEN [d.attempts[a] EXCEPT !.state = to] ELSE d.attempts[a]]

ExpireReservations(d) ==
    IF d.resv = "lapsed" /\ d.state \in {"queued", "rekey_required"}
    THEN [d EXCEPT !.attempts = EndAttempts(d, {"reserved", "leased"}, "expired"),
                   !.state = "expired"]
    ELSE d

\* A command exists once per failed attempt; only an expired one is routed anew.
EnqueueRekey(d, a) ==
    IF /\ d.state = "rekey_required" /\ d.latest # NoDevice
       /\ d.cmds[a].state \in {"none", "expired"}
    THEN [d EXCEPT !.cmds[a] = [state |-> "pending", device |-> d.latest, life |-> "live"]]
    ELSE d

ExpireLeases(d) ==
    IF d.lease = "lapsed"
    THEN LET a == CHOOSE b \in 1..Last(d) : d.attempts[b].state = "leased"
         IN EnqueueRekey([d EXCEPT !.lease = "none",
                                   !.attempts[a].state = "expired",
                                   !.state = IF @ = "running" THEN "rekey_required" ELSE @], a)
    ELSE d

EnsureRekeyCommands(d) ==
    IF \E a \in 1..Last(d) : d.attempts[a].state = "reserved" /\ d.resv = "live"
    THEN d ELSE EnqueueRekey(d, Last(d))

SweepExpired(d) ==
    LET e == [d EXCEPT !.cmds = [a \in DOMAIN d.cmds |->
                IF d.cmds[a].state = "pending" /\ d.cmds[a].life = "lapsed"
                THEN [d.cmds[a] EXCEPT !.state = "expired"] ELSE d.cmds[a]]]
    IN EnsureRekeyCommands(ExpireLeases(ExpireReservations(e)))

Heartbeat(d, x) == EnsureRekeyCommands(ExpireLeases([d EXCEPT !.latest = x]))

\* Workers of capacity one: an attempt counts while its reservation stands.
Busy(d, w) ==
    /\ d.resv # "lapsed"
    /\ \E a \in 1..Last(d) : /\ d.attempts[a].worker = w
                             /\ d.attempts[a].state \in {"reserved", "leased"}
Candidates(d) == {w \in Workers \ {d.assigned} : ~Busy(d, w)}

Retryable(d) == d.state \in {"failed", "rekey_required", "expired"}

\* The outcomes of prepare_retry: a reservation per candidate, or a refusal.
\* A refusal rolls back, the expiry included.
PrepareRetry(d) ==
    LET e == ExpireReservations(d)
    IN IF ~Retryable(e) THEN {[db |-> d, answer |-> [code |-> "conflict"]]}
       ELSE IF Candidates(e) = {} THEN {[db |-> d, answer |-> [code |-> "unavailable"]]}
       ELSE {[db |-> [e EXCEPT !.attempts = Append(@, [worker |-> w, state |-> "reserved"]),
                               !.assigned = w, !.resv = "live", !.state = "rekey_required"],
              answer |-> [code |-> "ok", worker |-> w, attempt |-> Last(e) + 1]]
             : w \in Candidates(e)}

RekeyAnyWorker(d, w, a) ==
    IF d.state # "rekey_required" THEN [db |-> d, answer |-> [code |-> "conflict"]]
    ELSE [db |-> [d EXCEPT !.sealed = {[to |-> w, for |-> a]},
                           !.state = "queued", !.resv = "none"],
          answer |-> [code |-> "ok"]]

\* commit_rekey knows the reservation by its Worker only.  A task that lost
\* its lease has no reservation at all, and comparing that one fails.
CommitRekey(d, w, a) ==
    IF d.state # "rekey_required" \/ d.assigned # w
    THEN [db |-> d, answer |-> [code |-> "conflict"]]
    ELSE IF d.resv = "none" THEN [db |-> d, answer |-> [code |-> "error"]]
    ELSE IF d.resv = "lapsed" THEN [db |-> d, answer |-> [code |-> "expired"]]
    ELSE [db |-> [d EXCEPT !.sealed = {[to |-> w, for |-> a]},
                           !.state = "queued", !.resv = "none"],
          answer |-> [code |-> "ok"]]

\* A "rekeyed" result must carry the state "committed"; commit_rekey answers
\* "queued", so only "not_needed" closes a command.  "handled" stands for the
\* states both sides list as needing no rekey.
ValidResult(result) ==
    \/ result.status = "rekeyed" /\ result.state = "committed"
    \/ result.status = "not_needed" /\ result.state = "handled"

CompleteCommand(d, x, c, result) ==
    IF d.cmds[c].device # x THEN [db |-> d, answer |-> [code |-> "not_found"]]
    ELSE IF ~ValidResult(result) THEN [db |-> d, answer |-> [code |-> "invalid"]]
    ELSE IF d.cmds[c].state # "pending" THEN [db |-> d, answer |-> [code |-> "not_found"]]
    ELSE [db |-> [d EXCEPT !.cmds[c].state = "completed"], answer |-> [code |-> "ok"]]

----------------------------------------------------------------------------
(* What a daemon does with an answer: the next call goes out at once, and  *)
(* may take any time to arrive.                                            *)

Command(b) == Min(b.batch)
Send(b, kind, key, body) ==
    [b EXCEPT !.pc = "waiting",
              !.call = [kind |-> kind, key |-> key, body |-> body, sess |-> b.sess,
                        stage |-> "sent", answer |-> [code |-> "none"]]]
Idle(b) == [b EXCEPT !.pc = "idle", !.batch = {}, !.call = NoCall]

AfterRetry(b, answer) ==
    IF answer.code # "ok" THEN Idle(b)
    ELSE Send(b, "rekey", <<Command(b), answer.attempt>>,
              [worker |-> answer.worker, attempt |-> answer.attempt])

\* Only an expired reservation advances the generation in the journal.
AfterRekey(b, answer) ==
    CASE answer.code = "ok"      -> Send(b, "complete", <<Command(b)>>,
                                         [status |-> "rekeyed", state |-> "queued"])
      [] answer.code = "expired" -> Idle([b EXCEPT !.gen[Command(b)] = @ + 1])
      [] OTHER                   -> Idle(b)

\* A command that fails ends the round: the ones behind it keep their order.
AfterComplete(b, answer) ==
    LET rest == b.batch \ {Command(b)}
    IN IF answer.code # "ok" \/ rest = {} THEN Idle(b)
       ELSE [b EXCEPT !.pc = "command", !.batch = rest, !.call = NoCall]

Deliver(b, slot, answer) ==
    IF slot = "late" THEN [b EXCEPT !.late = NoCall]
    ELSE CASE b.call.kind = "retry"    -> AfterRetry(b, answer)
           [] b.call.kind = "rekey"    -> AfterRekey(b, answer)
           [] b.call.kind = "complete" -> AfterComplete(b, answer)

----------------------------------------------------------------------------
(* The Gateway's middleware: one call, three steps.                        *)

\* The cache is keyed by the session's token, not by the device.
KeyOf(x, call) == <<x, call.sess, call.kind, call.key>>
Cached(x, call) == {r \in gate.idem : r.key = KeyOf(x, call)}

\* A wrapped key differs at every wrapping, so a rekey never repeats a body.
SameBody(r, call) == call.kind # "rekey" /\ r.body = call.body

Lookup(x, slot) ==
    LET call == brokers[x][slot] IN
    /\ call.stage = "sent"
    /\ \/ /\ Cached(x, call) = {}
          /\ brokers' = [brokers EXCEPT ![x][slot].stage = "missed"]
       \/ \E r \in Cached(x, call) :
              brokers' = [brokers EXCEPT ![x] = Deliver(@, slot,
                             IF SameBody(r, call) THEN r.answer ELSE [code |-> "mismatch"])]
    /\ UNCHANGED <<gate, cli, rekeyFaults>>

Outcomes(x, call) ==
    CASE call.kind = "retry"    -> PrepareRetry(gate)
      [] call.kind = "rekey"    -> {CommitRekey(gate, call.body.worker, call.body.attempt)}
      [] call.kind = "complete" -> {CompleteCommand(gate, x, call.key[1], call.body)}

RunHandler(x, slot) ==
    LET call == brokers[x][slot] IN
    /\ call.stage = "missed"
    /\ \E o \in Outcomes(x, call) :
           /\ Last(o.db) <= MaxAttempts
           /\ gate' = o.db
           /\ brokers' = [brokers EXCEPT ![x][slot] =
                  [call EXCEPT !.stage = "ran", !.answer = o.answer]]
    /\ UNCHANGED <<cli, rekeyFaults>>

\* Successes and conflicts are stored, unless another call stored one first.
Storable(answer) == answer.code \in {"ok", "conflict", "expired"}

StoreAnswer(x, slot) ==
    LET call == brokers[x][slot] IN
    /\ call.stage = "ran"
    /\ gate' = [gate EXCEPT !.idem =
           IF Storable(call.answer) /\ Cached(x, call) = {}
           THEN @ \cup {[key |-> KeyOf(x, call), body |-> call.body, answer |-> call.answer]}
           ELSE @]
    /\ brokers' = [brokers EXCEPT ![x] = Deliver(@, slot, call.answer)]
    /\ UNCHANGED <<cli, rekeyFaults>>

----------------------------------------------------------------------------
(* The Broker daemon: heartbeat, poll, and one command after the other.    *)

BrokerHeartbeat(x) ==
    /\ brokers[x].pc = "idle"
    /\ gate' = Heartbeat(gate, x)
    /\ brokers' = [brokers EXCEPT ![x].pc = "poll"]
    /\ UNCHANGED <<cli, rekeyFaults>>

PollCommands(x) ==
    LET mine == {c \in DOMAIN gate.cmds : gate.cmds[c] =
                    [state |-> "pending", device |-> x, life |-> "live"]} IN
    /\ brokers[x].pc = "poll"
    /\ brokers' = [brokers EXCEPT ![x].pc = IF mine = {} THEN "idle" ELSE "command",
                                  ![x].batch = mine]
    /\ UNCHANGED <<gate, cli, rekeyFaults>>

\* The handler reads the task and decides; what it decides is sent later.
ReadTask(x) ==
    LET b == brokers[x] IN
    /\ b.pc = "command"
    /\ brokers' = [brokers EXCEPT ![x] =
           IF gate.state \in HandledStates
           THEN Send(b, "complete", <<Command(b)>>, [status |-> "not_needed", state |-> "handled"])
           ELSE Send(b, "retry", <<Command(b), b.gen[Command(b)]>>, "empty")]
    /\ UNCHANGED <<gate, cli, rekeyFaults>>

\* An expired session is answered before the cache is read; the client logs
\* in and sends the same request again under the new token.
RenewSession(x) ==
    /\ brokers[x].pc = "waiting" /\ brokers[x].call.stage = "sent"
    /\ rekeyFaults.calls > 0
    /\ rekeyFaults' = [rekeyFaults EXCEPT !.calls = @ - 1]
    /\ brokers' = [brokers EXCEPT ![x].sess = @ + 1, ![x].call.sess = @ + 1]
    /\ UNCHANGED <<gate, cli>>

\* A network error or a restart of the daemon: the journal stays, the rest is
\* forgotten, and the call out, if any, either never arrives or goes on alone.
Interrupt(x) ==
    /\ brokers[x].pc # "idle" /\ rekeyFaults.calls > 0
    /\ rekeyFaults' = [rekeyFaults EXCEPT !.calls = @ - 1]
    /\ \/ /\ brokers[x].call.stage \in {"none", "sent"}
          /\ brokers' = [brokers EXCEPT ![x] = Idle(@)]
       \/ /\ brokers[x].call # NoCall /\ brokers[x].late = NoCall
          /\ brokers' = [brokers EXCEPT ![x] = [Idle(@) EXCEPT !.late = brokers[x].call]]
    /\ UNCHANGED <<gate, cli>>

\* The Gateway restarts: what was between two transactions is gone.
RestartGateway ==
    /\ rekeyFaults.calls > 0
    /\ rekeyFaults' = [rekeyFaults EXCEPT !.calls = @ - 1]
    /\ brokers' = [x \in Devices |->
           [(IF brokers[x].call # NoCall THEN Idle(brokers[x]) ELSE brokers[x])
                EXCEPT !.late = NoCall]]
    /\ UNCHANGED <<gate, cli>>

----------------------------------------------------------------------------
(* The sweeper, the Workers, the consumer and the clock.                   *)

Sweep ==
    /\ gate' = SweepExpired(gate)
    /\ UNCHANGED <<brokers, cli, rekeyFaults>>

\* The assigned Worker asks for work: the latest attempt reserved for it, and
\* the envelope addressed to it.
Leasable(d) ==
    /\ d.state = "queued"
    /\ \E a \in 1..Last(d) : d.attempts[a] = [worker |-> d.assigned, state |-> "reserved"]
    /\ \E s \in d.sealed : s.to = d.assigned
LeaseOf(d) == Max({a \in 1..Last(d) :
                     d.attempts[a] = [worker |-> d.assigned, state |-> "reserved"]})

Lease ==
    LET d == ExpireLeases(ExpireReservations(gate)) IN
    /\ gate' = IF Leasable(d)
               THEN [d EXCEPT !.attempts[LeaseOf(d)].state = "leased",
                              !.state = "running", !.lease = "live"]
               ELSE d
    /\ UNCHANGED <<brokers, cli, rekeyFaults>>

\* The report of an attempt whose task was cancelled ends the attempt as such.
Finish(outcome) ==
    /\ gate.lease = "live"
    /\ LET final == IF gate.state = "cancelled" THEN "cancelled" ELSE outcome
       IN gate' = [gate EXCEPT !.state = final, !.lease = "none",
                               !.attempts = EndAttempts(gate, {"leased"}, final)]
    /\ UNCHANGED <<brokers, cli, rekeyFaults>>

\* cancel_task: an attempt that has started keeps its lease for the last report.
Cancel ==
    /\ cli.left > 0
    /\ gate.state \notin {"succeeded", "failed", "cancelled", "expired"}
    /\ cli' = [cli EXCEPT !.left = @ - 1]
    /\ \E started \in BOOLEAN :
           gate' = [gate EXCEPT !.state = "cancelled",
                       !.lease = IF started THEN @ ELSE "none",
                       !.attempts = EndAttempts(gate,
                           {"reserved"} \cup (IF started THEN {} ELSE {"leased"}), "cancelled")]
    /\ UNCHANGED <<brokers, rekeyFaults>>

\* `vgen task retry`: a fresh key, so the cache never answers it.
CliRetry ==
    /\ cli.pc = "idle" /\ cli.left > 0
    /\ \E o \in PrepareRetry(gate) :
           /\ Last(o.db) <= MaxAttempts
           /\ gate' = o.db
           /\ cli' = IF o.answer.code = "ok"
                     THEN [pc |-> "sealing", left |-> cli.left - 1, answer |-> o.answer]
                     ELSE [cli EXCEPT !.left = @ - 1]
    /\ UNCHANGED <<brokers, rekeyFaults>>

CliRekey ==
    /\ cli.pc = "sealing"
    /\ gate' = CommitRekey(gate, cli.answer.worker, cli.answer.attempt).db
    /\ cli' = [pc |-> "idle", left |-> cli.left, answer |-> [code |-> "none"]]
    /\ UNCHANGED <<brokers, rekeyFaults>>

Lapse ==
    /\ rekeyFaults.lapses > 0
    /\ rekeyFaults' = [rekeyFaults EXCEPT !.lapses = @ - 1]
    /\ \/ gate.resv = "live" /\ gate' = [gate EXCEPT !.resv = "lapsed"]
       \/ gate.lease = "live" /\ gate' = [gate EXCEPT !.lease = "lapsed"]
       \/ gate.latest # NoDevice /\ gate' = [gate EXCEPT !.latest = NoDevice]
       \/ \E a \in DOMAIN gate.cmds :
              /\ gate.cmds[a].state = "pending" /\ gate.cmds[a].life = "live"
              /\ gate' = [gate EXCEPT !.cmds[a].life = "lapsed"]
    /\ UNCHANGED <<brokers, cli>>

RekeyInit ==
    /\ \E w \in Workers :
        gate = [state |-> "running", assigned |-> w, resv |-> "none", lease |-> "live",
                attempts |-> <<[worker |-> w, state |-> "leased"]>>,
                sealed |-> {[to |-> w, for |-> 1]},
                cmds |-> [a \in 1..MaxAttempts |-> NoCommand],
                latest |-> NoDevice, idem |-> {}]
    /\ brokers = [x \in Devices |->
                    [pc |-> "idle", batch |-> {}, call |-> NoCall, late |-> NoCall,
                     sess |-> 1, gen |-> [a \in 1..MaxAttempts |-> 0]]]
    /\ cli = [pc |-> "idle", left |-> MaxCliCalls, answer |-> [code |-> "none"]]
    /\ rekeyFaults = [calls |-> MaxRekeyFaults, lapses |-> MaxLapses]

RekeyNext ==
    \/ \E x \in Devices, slot \in {"call", "late"} :
           Lookup(x, slot) \/ RunHandler(x, slot) \/ StoreAnswer(x, slot)
    \/ \E x \in Devices :
           \/ BrokerHeartbeat(x) \/ PollCommands(x) \/ ReadTask(x)
           \/ RenewSession(x) \/ Interrupt(x)
    \/ RestartGateway \/ Sweep \/ Lease \/ Cancel \/ CliRetry \/ CliRekey \/ Lapse
    \/ \E outcome \in {"succeeded", "failed"} : Finish(outcome)

----------------------------------------------------------------------------

\* However Brokers and the consumer race, and whichever of their calls arrive
\* late, a queued task can be leased, by the one Worker it is sealed for, which
\* has the reserved attempt, and the envelope was made for an attempt of that
\* Worker (commit_rekey); and no command is closed while its failed attempt is
\* the task's last: a newer one went to another Worker, unless the task was
\* cancelled (complete_broker_command, cancel_task).
RekeyReplaces ==
    /\ gate.state = "queued" => Leasable(gate) /\ Cardinality(gate.sealed) = 1
    /\ \A s \in gate.sealed : gate.attempts[s.for].worker = s.to
    /\ \A a \in DOMAIN gate.cmds :
           gate.cmds[a].state = "completed" =>
               \/ gate.state = "cancelled"
               \/ \E b \in (a + 1)..Last(gate) :
                      gate.attempts[b].worker # gate.attempts[a].worker
=============================================================================
