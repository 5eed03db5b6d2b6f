------------------------- MODULE WorkerMaintenance -------------------------
(***************************************************************************)
(* Maintenance jobs of Workers (runtime updates, capability, model and     *)
(* node-pack installs) together with the task scheduler they exclude       *)
(* (gateway/repository.py).                                                *)
(*                                                                         *)
(* A job is created by one intent that a device of the Worker's manager    *)
(* Broker signed, so a job is named by the intent that created it.  The    *)
(* scheduler is TaskLifecycle: the jobs of a Worker are mapped to the      *)
(* single state that it reads.  Here too every action is one transaction,  *)
(* and the end of a lease or of an intent is a step of the environment.    *)
(***************************************************************************)
EXTENDS Integers, FiniteSets

CONSTANTS Workers, Tasks, NoWorker, Joined, Capacity, MaxQueued, MaxAttempts,
          Intents, NoIntent,
          Target,              \* the Worker an intent is for
          Kind,                \* its kind
          Subject,             \* its spec digest, or the workflow it installs
          Device,              \* the device that signed it
          Broker,              \* the Broker it was signed for
          Brokers, Sessions, NoSession,
          MaxFence             \* bound on a job's fencing token

VARIABLES db,        \* the scheduler's tables, see TaskLifecycle
          job,       \* worker_maintenance_jobs + maintenance_artifacts
          receipt,   \* maintenance_intent_receipts: the job an intent got
          grant,     \* workflow and model authorizations, by source job
          revoked,   \* revoked devices
          manager    \* workers.manager_broker_id

jobVars == <<job, receipt, grant, revoked, manager>>

vars == <<db, jobVars>>

Kinds == {"worker_update", "capability_install", "model_install", "node_pack_install"}

ArtifactKinds == {"worker_update", "capability_install", "node_pack_install"}

GrantingKinds == {"capability_install", "model_install"}

HeldStates == {"leased", "running", "restarting"}

ActiveStates == HeldStates \cup {"awaiting_upload", "queued"}

DoneStates == {"succeeded", "failed", "cancelled", "expired"}

Devices == {Device[i] : i \in Intents}

\* The kinds a Worker may say it supports.
ActionSets == SUBSET {Kind[i] : i \in Intents} \ {{}}

ASSUME IntentsAssumption ==
    /\ Target \in [Intents -> Workers]
    /\ Kind \in [Intents -> Kinds]
    /\ Broker \in [Intents -> Brokers]
    /\ NoIntent \notin Intents
    /\ NoSession \notin Sessions
    /\ MaxFence \in Nat

\* lease is lease_expires_at, intent is expires_at of the signed intent.
JobRow == [state: {"absent"} \cup ActiveStates \cup DoneStates,
           fence: Nat, session: Sessions \cup {NoSession},
           lease: {"none", "live", "lapsed"}, intent: {"live", "lapsed"},
           art: {"none", "pending", "uploaded", "available", "failed", "deleted"}]

NoJob == [state |-> "absent", fence |-> 0, session |-> NoSession,
          lease |-> "none", intent |-> "live", art |-> "none"]

Held(i) == job[i].state \in HeldStates

Active(i) == job[i].state \in ActiveStates

-----------------------------------------------------------------------------
(* What the scheduler sees of the jobs of a Worker *)

SeenByScheduler ==
    [w \in Workers |->
        IF \E i \in Intents : Target[i] = w /\ Held(i) THEN "held"
        ELSE IF \E i \in Intents : Target[i] = w /\ job[i].state = "queued" THEN "queued"
        ELSE "none"]

TL == INSTANCE TaskLifecycle WITH maint <- SeenByScheduler

Init ==
    /\ job = [i \in Intents |-> NoJob]
    /\ receipt = [i \in Intents |-> NoIntent]
    /\ grant = [i \in Intents |-> "none"]
    /\ revoked = {}
    /\ manager \in [Workers -> Brokers]
    /\ TL!Init

-----------------------------------------------------------------------------
(* Statement sequences *)

ExpireIntentOnly(j) ==
    IF j.state \in ActiveStates /\ j.intent = "lapsed"
    THEN [j EXCEPT !.state = "expired", !.session = NoSession, !.lease = "none"]
    ELSE j

ExpireJob(j) ==
    IF j.state \in ActiveStates /\ j.intent = "lapsed"
    THEN [j EXCEPT !.state = "expired", !.session = NoSession, !.lease = "none"]
    ELSE IF j.state \in HeldStates /\ j.lease = "lapsed"
    THEN [j EXCEPT !.state = "queued", !.session = NoSession, !.lease = "none"]
    ELSE j

ExpireJobs(jobs) == [i \in Intents |-> ExpireJob(jobs[i])]

\* Withdrawn at a revocation boundary: the token moves on.
Withdraw(j) ==
    IF j.state \in ActiveStates
    THEN [j EXCEPT !.state = "cancelled", !.session = NoSession, !.lease = "none",
                   !.fence = @ + 1]
    ELSE j

SameIntent(i, k) == i = k

\* Updates to one version share a job; installs are one job per intent.
SameWork(i, k) ==
    \/ i = k
    \/ /\ Kind[i] = "worker_update" /\ Kind[k] = "worker_update"
       /\ Target[i] = Target[k] /\ Subject[i] = Subject[k]

NewJob(i) ==
    IF Kind[i] \in ArtifactKinds
    THEN [NoJob EXCEPT !.state = "awaiting_upload", !.art = "pending"]
    ELSE [NoJob EXCEPT !.state = "queued"]

-----------------------------------------------------------------------------
(* The Broker's transactions *)

\* A replayed intent gets the job of its receipt.
CreateWorkerMaintenance(i) ==
    LET jobs == ExpireJobs(job)
        same == {k \in Intents : SameWork(i, k) /\ jobs[k].state \in ActiveStates}
    IN
    /\ job[i].intent = "live"
    /\ Device[i] \notin revoked
    /\ manager[Target[i]] = Broker[i]
    /\ db.wrk[Target[i]].status # "revoked"
    /\ \/ /\ receipt[i] # NoIntent
          /\ job' = jobs
          /\ UNCHANGED receipt
       \/ /\ receipt[i] = NoIntent
          /\ same # {}
          /\ \E k \in same : receipt' = [receipt EXCEPT ![i] = k]
          /\ job' = jobs
       \/ /\ receipt[i] = NoIntent
          /\ same = {}
          /\ receipt' = [receipt EXCEPT ![i] = i]
          /\ job' = [jobs EXCEPT ![i] = NewJob(i)]
    /\ UNCHANGED <<db, grant, revoked, manager>>

UploadSucceeds(i) ==
    /\ job[i].art \in {"pending", "uploaded"}
    /\ job' = [job EXCEPT ![i].art = "uploaded"]
    /\ UNCHANGED <<db, receipt, grant, revoked, manager>>

\* The bytes are not the announced ones.  The artifact was pending or
\* uploaded when it was read; it may be anything by the time it is written.
UploadFails(i) ==
    /\ job[i].art # "none"
    /\ job' = [job EXCEPT ![i].art = "failed",
                          ![i].state = IF @ = "awaiting_upload" THEN "failed" ELSE @]
    /\ UNCHANGED <<db, receipt, grant, revoked, manager>>

\* The device and the manager are checked before the transaction starts.
CommitWorkerMaintenance(i) ==
    LET jobs == ExpireJobs(job) IN
    /\ \/ /\ jobs[i].state = "queued"
          /\ job' = jobs
       \/ /\ jobs[i].state = "awaiting_upload"
          /\ jobs[i].art = "uploaded"
          /\ job' = [jobs EXCEPT ![i].state = "queued"]
    /\ UNCHANGED <<db, receipt, grant, revoked, manager>>

\* The token stays: a report finds the state cancelled.
CancelWorkerMaintenance(i) ==
    /\ Active(i)
    /\ job' = [job EXCEPT ![i].state = "cancelled", ![i].lease = "none"]
    /\ UNCHANGED <<db, receipt, grant, revoked, manager>>

\* source is the job of an install that is rolled back, or NoIntent for
\* every dynamic grant of the workflow.
DeactivateWorkerWorkflow(w, workflow, source) ==
    LET concerned == {i \in Intents : /\ Target[i] = w /\ Subject[i] = workflow
                                      /\ Kind[i] \in GrantingKinds
                                      /\ source \in {i, NoIntent}}
    IN
    /\ db.wrk[w].status # "revoked"
    /\ source # NoIntent => source \in concerned /\ job[source].state # "absent"
    /\ grant' = [i \in Intents |-> IF i \in concerned /\ grant[i] = "active"
                                   THEN "revoked" ELSE grant[i]]
    /\ job' = [i \in Intents |->
                IF i \in concerned /\ Active(i)
                THEN [Withdraw(job[i]) EXCEPT
                        !.art = IF @ \in {"pending", "uploaded"} THEN "deleted" ELSE @]
                ELSE job[i]]
    /\ UNCHANGED <<db, receipt, revoked, manager>>

RevokeDeviceOnly(device) ==
    /\ revoked' = revoked \cup {device}
    /\ UNCHANGED <<db, job, receipt, grant, manager>>

RevokeDevice(device) ==
    /\ revoked' = revoked \cup {device}
    /\ job' = [i \in Intents |-> IF Device[i] = device THEN Withdraw(job[i]) ELSE job[i]]
    /\ UNCHANGED <<db, receipt, grant, manager>>

SetWorkerManager(w, broker) ==
    /\ db.wrk[w].status # "revoked"
    /\ \A i \in Intents : Target[i] = w => ~Active(i)
    /\ manager' = [manager EXCEPT ![w] = broker]
    /\ UNCHANGED <<db, job, receipt, grant, revoked>>

-----------------------------------------------------------------------------
(* The Worker's transactions *)

Claimable(jobs, w, actions) ==
    {i \in Intents : /\ Target[i] = w /\ jobs[i].state = "queued"
                     /\ Kind[i] \in actions}

LeasedSameToken(j, s) ==
    [j EXCEPT !.state = "leased", !.session = s, !.lease = "live"]

Leased(j, s) ==
    [j EXCEPT !.state = "leased", !.fence = @ + 1, !.session = s, !.lease = "live"]

NoneHeld(jobs, w) ==
    \A i \in Intents : Target[i] = w => jobs[i].state \notin HeldStates

NothingRunning(d, w) == TL!AttemptsOn(d, w, {"running"}) = {}

NotExecuting(d, w) == TL!AttemptsOn(d, w, TL!LiveStates) = {}

\* After the expiries a Worker that holds no job and executes nothing gets a
\* queued job of a kind it supports; the oldest one, which is left open.  One
\* that holds a job is given it again, if it is the same session.
ClaimWorkerMaintenance(w, s, actions) ==
    LET jobs == ExpireJobs(job)
        d == TL!Expired(db)
    IN
    /\ d.wrk[w].status = "active"
    /\ db' = d
    /\ IF /\ NoneHeld(jobs, w)
          /\ NotExecuting(d, w)
          /\ Claimable(jobs, w, actions) # {}
       THEN \E i \in Claimable(jobs, w, actions) :
                /\ jobs[i].fence < MaxFence
                /\ job' = [jobs EXCEPT ![i] = Leased(jobs[i], s)]
       ELSE job' = jobs
    /\ UNCHANGED <<receipt, grant, revoked, manager>>

LeaseUnexpired(j) == j.lease = "live" /\ j.intent = "live"

\* adopt: the process that restarts on a new runtime takes the lease over.
HeartbeatWorkerMaintenance(i, f, s, state, adopt) ==
    /\ job[i].fence = f
    /\ LeaseUnexpired(job[i])
    /\ IF adopt THEN /\ Kind[i] = "worker_update"
                     /\ job[i].state = "restarting" /\ state = "restarting"
       ELSE job[i].session = s /\ Held(i)
    /\ db.wrk[Target[i]].status = "active"
    /\ job' = [job EXCEPT ![i].state = state,
                          ![i].session = IF adopt THEN s ELSE @]
    /\ UNCHANGED <<db, receipt, grant, revoked, manager>>

\* A report of the expected result.  rolledBack: the old runtime reports for
\* the session of the one that failed to start.
CompleteWorkerMaintenance(i, f, s, succeeded, rolledBack) ==
    /\ job[i].fence = f
    /\ Held(i)
    /\ LeaseUnexpired(job[i])
    /\ \/ job[i].session = s
       \/ /\ Kind[i] = "worker_update" /\ job[i].state = "restarting"
          /\ ~succeeded /\ rolledBack
    /\ job' = [job EXCEPT
                ![i] = [@ EXCEPT !.state = IF succeeded THEN "succeeded" ELSE "failed",
                                 !.lease = "none",
                                 !.art = IF succeeded /\ job[i].art = "uploaded"
                                         THEN "available" ELSE job[i].art]]
    /\ grant' = IF succeeded /\ Kind[i] \in GrantingKinds /\ grant[i] = "none"
                THEN [grant EXCEPT ![i] = "active"] ELSE grant
    /\ UNCHANGED <<db, receipt, revoked, manager>>

-----------------------------------------------------------------------------
(* Shared transactions, the sweeper, time *)

LeaveWorker(w, force) ==
    /\ job' = [i \in Intents |-> IF Target[i] = w THEN Withdraw(job[i]) ELSE job[i]]
    /\ db' = TL!Left(db, w, force)
    /\ UNCHANGED <<receipt, grant, revoked, manager>>

SweepExpired ==
    /\ db' = TL!Expired(db)
    /\ job' = ExpireJobs(job)
    /\ UNCHANGED <<receipt, grant, revoked, manager>>

\* The sweeper's second transaction.
PruneExpiredSecurityState ==
    /\ receipt' = [i \in Intents |-> IF job[i].intent = "lapsed" THEN NoIntent ELSE receipt[i]]
    /\ \E over \in SUBSET Sessions :
        job' = [i \in Intents |->
                 IF job[i].state \in DoneStates /\ job[i].session \in over
                 THEN [job[i] EXCEPT !.session = NoSession] ELSE job[i]]
    /\ UNCHANGED <<db, grant, revoked, manager>>

JobLeaseLapses(i) ==
    /\ job[i].lease = "live"
    /\ job' = [job EXCEPT ![i].lease = "lapsed"]
    /\ UNCHANGED <<db, receipt, grant, revoked, manager>>

\* A lease never outlasts its intent.
IntentLapses(i) ==
    /\ job[i].intent = "live"
    /\ job' = [job EXCEPT ![i].intent = "lapsed",
                          ![i].lease = IF @ = "live" THEN "lapsed" ELSE @]
    /\ UNCHANGED <<db, receipt, grant, revoked, manager>>

\* The scheduler's transactions that do not touch the jobs.
SchedulerStep ==
    /\ UNCHANGED jobVars
    /\ \/ \E t \in Tasks, w \in Workers : \/ TL!PrepareTask(t, w)
                                          \/ TL!PrepareRetry(t, w)
                                          \/ TL!CommitRekey(t, w)
       \/ \E t \in Tasks : \/ TL!CommitTask(t)
                           \/ TL!CancelTask(t)
                           \/ TL!ReservationLapses(t)
       \/ \E t \in Tasks, n \in TL!Numbers :
            \/ TL!LeaseLapses(t, n)
            \/ \E f \in TL!Tokens(t, n) :
                \/ \E started \in BOOLEAN : TL!HeartbeatAttempt(t, n, f, started)
                \/ \E report \in TL!Reports : TL!FinishAttempt(t, n, f, report)
       \/ \E w \in Workers : \/ TL!WorkerHeartbeat(w)
                             \/ TL!Lease(w)
                             \/ TL!OfferWorker(w)
                             \/ TL!ApproveAllocation(w)
       \/ TL!BrokerDeviceHeartbeat

JobStep ==
    \/ \E i \in Intents :
        \/ CreateWorkerMaintenance(i)
        \/ UploadSucceeds(i)
        \/ UploadFails(i)
        \/ CommitWorkerMaintenance(i)
        \/ CancelWorkerMaintenance(i)
        \/ JobLeaseLapses(i)
        \/ IntentLapses(i)
        \/ \E f \in 1..job[i].fence, s \in Sessions :
            \/ \E state \in {"running", "restarting"}, adopt \in BOOLEAN :
                HeartbeatWorkerMaintenance(i, f, s, state, adopt)
            \/ \E succeeded, rolledBack \in BOOLEAN :
                CompleteWorkerMaintenance(i, f, s, succeeded, rolledBack)
    \/ \E w \in Workers :
        \/ \E s \in Sessions, actions \in ActionSets : ClaimWorkerMaintenance(w, s, actions)
        \/ \E broker \in Brokers : SetWorkerManager(w, broker)
        \/ \E force \in BOOLEAN : LeaveWorker(w, force)
        \/ \E i \in Intents, source \in Intents \cup {NoIntent} :
            DeactivateWorkerWorkflow(w, Subject[i], source)
    \/ \E device \in Devices : RevokeDevice(device)
    \/ SweepExpired
    \/ PruneExpiredSecurityState

Next == SchedulerStep \/ JobStep

Spec == Init /\ [][Next]_vars

\* The sweeper runs on an interval, a Worker polls for jobs of every kind,
\* and no execution of a task lasts for ever.
FairSpec ==
    /\ Spec
    /\ WF_vars(SweepExpired)
    /\ \A w \in Workers : WF_vars(\E s \in Sessions : ClaimWorkerMaintenance(w, s, Kinds))
    /\ \A t \in Tasks, n \in TL!Numbers :
        WF_vars(UNCHANGED jobVars /\ TL!ExecutionEnds(t, n))

-----------------------------------------------------------------------------
(* Correctness *)

\* The jobs and the scheduler together behave as the scheduler with the
\* three-valued view of the jobs: in particular no task is leased to a Worker
\* that holds a job and no job is claimed by one that executes a task.
SchedulerRefined == TL!Spec

\* Several intents for one update share a job, and a new job starts only when
\* it is over: the unique index over active jobs is never violated.  Every
\* active job was signed by a device that is not revoked, for the Broker that
\* still manages the Worker, although commit checks both before its
\* transaction.  A job is held on a Worker that may work, and a Worker holds
\* one, whatever leases lapse and sessions change.
ActiveJobsInForce ==
    /\ \A i \in Intents : Active(i) =>
         Device[i] \notin revoked /\ manager[Target[i]] = Broker[i]
    /\ \A i \in Intents : Held(i) => db.wrk[Target[i]].status = "active"
    /\ \A i, k \in Intents : i # k /\ Target[i] = Target[k] =>
         /\ ~(Held(i) /\ Held(k))
         /\ ~(/\ Active(i) /\ Active(k) /\ Subject[i] = Subject[k]
              /\ Kind[i] = "worker_update" /\ Kind[k] = "worker_update")

\* The grant of an install follows its success, while its device, its
\* Broker's delegation and its Worker are all still in force although the
\* report is not checked against them; a revoked grant never comes back.
GrantsAreAuthorized ==
    [][\A i \in Intents :
        /\ grant[i] = "none" /\ grant'[i] # "none" =>
            /\ job'[i].state = "succeeded"
            /\ Device[i] \notin revoked
            /\ manager[Target[i]] = Broker[i]
            /\ db.wrk[Target[i]].status = "active"
        /\ grant[i] = "revoked" => grant'[i] = "revoked"]_vars

\* A held job changes hands only with a larger token, or by the adoption that
\* a restarting update announces; and a job that is over keeps its state,
\* whatever is uploaded or reported late (complete_worker_maintenance).
HandoverIsFenced ==
    [][\A i \in Intents :
        /\ job[i].state \in DoneStates => job'[i].state = job[i].state
        /\ Held(i) /\ job'[i].state \in HeldStates /\ job'[i].session # job[i].session =>
              \/ job'[i].fence > job[i].fence
              \/ Kind[i] = "worker_update" /\ job[i].state = "restarting"]_vars

\* The job of a process that stopped does not stay held until its intent is
\* over: it is queued again or ends.
AbandonedJobsReturn ==
    \A i \in Intents : Held(i) /\ job[i].lease = "lapsed" ~> job[i].lease # "lapsed"

=============================================================================
