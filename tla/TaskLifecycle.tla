--------------------------- MODULE TaskLifecycle ---------------------------
(***************************************************************************)
(* The Gateway's task scheduler: tasks, attempts, leases, fencing counters *)
(* and the Workers they run on (gateway/repository.py).                    *)
(*                                                                         *)
(* db is the content of the SQLite database between two transactions.      *)
(* Every handler is one BEGIN IMMEDIATE transaction, so one action; a      *)
(* handler that raises rolls back and is no step.  An operator that takes  *)
(* and returns a database d is a statement sequence inside a transaction.  *)
(*                                                                         *)
(* Time is abstracted to the comparison the code makes with it: a          *)
(* reservation or a lease is "live" until the environment makes it         *)
(* "lapsed" (expires_at <= stamp).  This also covers stamps that are read  *)
(* before the transaction starts: a lapse not yet seen is a later lapse.   *)
(* The rekey commands that several handlers enqueue are left out.          *)
(***************************************************************************)
EXTENDS Integers, FiniteSets

CONSTANTS Workers, Tasks, NoWorker,
          Joined,        \* Workers that start active and allocated
          Capacity,      \* workers.capacity
          MaxQueued,     \* MAX_QUEUED_TASKS_PER_WORKER
          MaxAttempts    \* bound on the attempts of one task

Numbers == 1..MaxAttempts

ASSUME ConstantsAssumption ==
    /\ IsFiniteSet(Tasks)
    /\ NoWorker \notin Workers
    /\ Joined \subseteq Workers
    /\ Capacity \in [Workers -> Nat]
    /\ MaxQueued \in Nat
    /\ MaxAttempts \in Nat

VARIABLES db,     \* tasks, task_attempts + leases, workers, key_envelopes
          maint   \* per Worker: the strongest state of its maintenance jobs

vars == <<db, maint>>

TaskStates == {"absent", "prepared", "queued", "reserved", "running",
               "rekey_required", "succeeded", "failed", "cancelled", "expired"}

LiveStates == {"leased", "running"}

OpenStates == LiveStates \cup {"reserved"}

FinalStates == {"succeeded", "failed", "cancelled", "expired"}

Reports == {"succeeded", "failed", "cancelled"}

HeldLease == {"live", "lapsed"}     \* released_at IS NULL

\* A tasks row; "committed" is never visible outside commit_task.
TaskRow == [state: TaskStates, worker: Workers \cup {NoWorker},
            resv: {"none", "live", "lapsed"}, content: BOOLEAN]

\* A task_attempts row joined with its leases row and its ledger charges.
AttemptRow == [state: {"none"} \cup OpenStates \cup FinalStates,
               worker: Workers \cup {NoWorker}, fence: Nat, started: BOOLEAN,
               lease: {"none", "released"} \cup HeldLease,
               receipt: {"none"} \cup Reports,
               usage: Nat]

WorkerRow == [status: {"offline", "active", "draining", "revoked"},
              counter: Nat, alloc: BOOLEAN]

\* env[t]: Workers that hold an unrevoked envelope of the key of task t.
Database == [task: [Tasks -> TaskRow],
             att: [Tasks -> [Numbers -> AttemptRow]],
             wrk: [Workers -> WorkerRow],
             env: [Tasks -> SUBSET (Workers \cup {NoWorker})]]

NoTask == [state |-> "absent", worker |-> NoWorker, resv |-> "none",
           content |-> FALSE]

NoAttempt == [state |-> "none", worker |-> NoWorker, fence |-> 0,
              started |-> FALSE, lease |-> "none", receipt |-> "none",
              usage |-> 0]

\* create_worker leaves a Worker offline; a joined one has reported healthy.
Init ==
    /\ db = [task |-> [t \in Tasks |-> NoTask],
             att |-> [t \in Tasks |-> [n \in Numbers |-> NoAttempt]],
             wrk |-> [w \in Workers |->
                        [status |-> IF w \in Joined THEN "active" ELSE "offline",
                         counter |-> 0, alloc |-> w \in Joined]],
             env |-> [t \in Tasks |-> {}]]
    /\ maint = [w \in Workers |-> "none"]

-----------------------------------------------------------------------------
(* Rows and sets of rows *)

Release(a) ==
    IF a.lease \in HeldLease THEN [a EXCEPT !.lease = "released"] ELSE a

Close(a, from, to) ==
    IF a.state \in from THEN [a EXCEPT !.state = to] ELSE a

AttemptsOn(d, w, states) ==
    {x \in Tasks \X Numbers : /\ d.att[x[1]][x[2]].worker = w
                              /\ d.att[x[1]][x[2]].state \in states}

-----------------------------------------------------------------------------
(* Expiry, run first in most scheduling transactions *)

ReservationGoneInAnyState(d, t) == d.task[t].resv = "lapsed"

ReservationGone(d, t) ==
    /\ d.task[t].resv = "lapsed"
    /\ d.task[t].state \in {"prepared", "queued", "rekey_required"}

ExpireReservations(d) ==
    [d EXCEPT
        !.att = [t \in Tasks |-> [n \in Numbers |->
                    IF ReservationGone(d, t)
                    THEN Release(Close(d.att[t][n], {"reserved", "leased"}, "expired"))
                    ELSE d.att[t][n]]],
        !.task = [t \in Tasks |->
                    IF ReservationGone(d, t)
                    THEN [d.task[t] EXCEPT !.state = "expired"] ELSE d.task[t]]]

FinalizeNothing(d) == d

FinalizeDrained(d) ==
    [d EXCEPT !.wrk = [w \in Workers |->
        IF /\ d.wrk[w].status = "draining"
           /\ AttemptsOn(d, w, OpenStates) = {}
        THEN [d.wrk[w] EXCEPT !.status = "revoked"]
        ELSE d.wrk[w]]]

ExecutionLost(d, t) ==
    /\ \E n \in Numbers : d.att[t][n].lease = "lapsed"
    /\ d.task[t].state \in {"reserved", "running"}

ExpireTasksOnly(d) ==
    [d EXCEPT !.task = [t \in Tasks |->
        IF ExecutionLost(d, t)
        THEN [d.task[t] EXCEPT !.state = "rekey_required"] ELSE d.task[t]]]

ExpireLeases(d) ==
    FinalizeDrained([d EXCEPT
        !.att = [t \in Tasks |-> [n \in Numbers |->
                    IF d.att[t][n].lease = "lapsed"
                    THEN Release(Close(d.att[t][n], LiveStates, "expired"))
                    ELSE d.att[t][n]]],
        !.task = [t \in Tasks |->
                    IF ExecutionLost(d, t)
                    THEN [d.task[t] EXCEPT !.state = "rekey_required"] ELSE d.task[t]]])

Expired(d) == ExpireLeases(ExpireReservations(d))

-----------------------------------------------------------------------------
(* The consumer's transactions *)

Candidate(d, w) ==
    /\ d.wrk[w].status = "active"
    /\ d.wrk[w].alloc
    /\ maint[w] = "none"

HasSlot(d, w) ==
    Cardinality({x \in AttemptsOn(d, w, OpenStates) : d.task[x[1]].resv # "lapsed"})
        < Capacity[w]

NewAttempt(w, token) ==
    [state |-> "reserved", worker |-> w, fence |-> token, started |-> FALSE,
     lease |-> "none", receipt |-> "none", usage |-> 0]

\* A new attempt row n of t on w takes the next fencing token of w.
Reserve(d, t, n, w) ==
    [d EXCEPT !.wrk[w].counter = @ + 1,
              !.att[t][n] = NewAttempt(w, d.wrk[w].counter + 1)]

\* Which candidate is first (last_seen_at, load, requirements) is left open.
PrepareTask(t, w) ==
    LET d == Expired(db) IN
    /\ d.task[t].state = "absent"
    /\ Candidate(d, w)
    /\ \/ HasSlot(d, w)
       \/ Cardinality(AttemptsOn(d, w, OpenStates)) < MaxQueued
    /\ 1 \in Numbers
    /\ db' = [Reserve(d, t, 1, w) EXCEPT
                !.task[t] = [state |-> "prepared", worker |-> w,
                             resv |-> "live", content |-> FALSE]]
    /\ UNCHANGED maint

\* An expired reservation is reported by an exception: nothing is stored.
CommitTask(t) ==
    /\ db.task[t].state = "prepared"
    /\ db.task[t].resv = "live"
    /\ db' = [db EXCEPT !.task[t] = [@ EXCEPT !.state = "queued", !.resv = "none",
                                              !.content = TRUE],
                        !.env[t] = @ \cup {db.task[t].worker}]
    /\ UNCHANGED maint

\* n is MAX(attempt_number)+1.
IsNextNumber(d, t, n) ==
    \A m \in Numbers : d.att[t][m].state # "none" <=> m < n

PrepareRetry(t, w) ==
    LET d == ExpireReservations(db) IN
    /\ d.task[t].state \in {"failed", "rekey_required", "expired"}
    /\ d.task[t].content
    /\ Candidate(d, w)
    /\ w # d.task[t].worker
    /\ HasSlot(d, w)
    /\ \E n \in Numbers :
        /\ IsNextNumber(d, t, n)
        /\ db' = [Reserve(d, t, n, w) EXCEPT
                    !.task[t] = [@ EXCEPT !.state = "rekey_required",
                                          !.worker = w, !.resv = "live"]]
    /\ UNCHANGED maint

CommitRekeyOldEnvelopes(t, w) ==
    /\ db.task[t].state = "rekey_required"
    /\ db.task[t].worker = w
    /\ db.task[t].resv = "live"
    /\ db' = [db EXCEPT !.task[t] = [@ EXCEPT !.state = "queued", !.resv = "none"]]
    /\ UNCHANGED maint

\* w is the replacement the client wrapped the key for.  A reservation that
\* is NULL raises in the comparison with the stamp, like one that is over.
CommitRekey(t, w) ==
    /\ db.task[t].state = "rekey_required"
    /\ db.task[t].worker = w
    /\ db.task[t].resv = "live"
    /\ db' = [db EXCEPT !.task[t] = [@ EXCEPT !.state = "queued", !.resv = "none"],
                        !.env[t] = {w}]
    /\ UNCHANGED maint

\* The lease of an attempt that is cancelled and never started is released.
CancelAttempt(a) ==
    LET c == Close(a, {"reserved", "leased"}, "cancelled")
    IN  IF c.state = "cancelled" /\ ~c.started THEN Release(c) ELSE c

\* A running attempt keeps its lease until the Worker reports.
CancelTask(t) ==
    /\ db.task[t].state \notin FinalStates \cup {"absent"}
    /\ db' = [db EXCEPT !.att[t] = [n \in Numbers |-> CancelAttempt(db.att[t][n])],
                        !.task[t].state = "cancelled"]
    /\ UNCHANGED maint

-----------------------------------------------------------------------------
(* The Worker's transactions *)

\* The first report of a healthy Worker makes it schedulable.
WorkerHeartbeat(w) ==
    /\ db.wrk[w].status \in {"offline", "active"}
    /\ db' = [db EXCEPT !.wrk[w].status = "active"]
    /\ UNCHANGED maint

HasFreeSlotOrFull(d, w) == Cardinality(AttemptsOn(d, w, LiveStates)) <= Capacity[w]

HasFreeSlot(d, w) == Cardinality(AttemptsOn(d, w, LiveStates)) < Capacity[w]

MaintenanceClear(w) == maint[w] = "none"

ReadyWhileReserved(d, w) ==
    {t \in Tasks : /\ d.task[t].state = "queued"
                   /\ d.task[t].worker = w
                   /\ d.task[t].resv = "live"}

ReadyTasks(d, w) ==
    {t \in Tasks : /\ d.task[t].state = "queued"
                   /\ d.task[t].worker = w
                   /\ d.task[t].resv # "lapsed"}

NewestReserved(d, t, n, w) ==
    LET Reserved(m) == d.att[t][m].worker = w /\ d.att[t][m].state = "reserved"
    IN  Reserved(n) /\ \A m \in Numbers : Reserved(m) => m <= n

Grant(d, t, n, w) ==
    [d EXCEPT !.wrk[w].counter = @ + 1,
              !.att[t][n] = [@ EXCEPT !.state = "leased", !.lease = "live",
                                      !.fence = d.wrk[w].counter + 1],
              !.task[t].state = "reserved"]

\* Which ready task is first (priority, age) is left open.  A poll that
\* finds nothing still commits the expiries.
Lease(w) ==
    LET d == Expired(db) IN
    /\ d.wrk[w].status = "active"
    /\ IF HasFreeSlot(d, w) /\ MaintenanceClear(w) /\ ReadyTasks(d, w) # {}
       THEN \E t \in ReadyTasks(d, w), n \in Numbers :
                /\ NewestReserved(d, t, n, w)
                /\ w \in d.env[t]
                /\ db' = Grant(d, t, n, w)
       ELSE db' = d
    /\ UNCHANGED maint

\* The row both attempt reports select: exact fence, lease neither released
\* nor over.
LeaseValid(a, f) == a.fence = f /\ a.lease = "live"

HeartbeatAttempt(t, n, f, started) ==
    /\ LeaseValid(db.att[t][n], f)
    /\ db' = IF /\ db.task[t].state # "cancelled"
                /\ started /\ db.att[t][n].state = "leased"
             THEN [db EXCEPT !.att[t][n] = [@ EXCEPT !.state = "running", !.started = TRUE],
                             !.task[t].state = "running"]
             ELSE db
    /\ UNCHANGED maint

ChargeUnlessCancelled(a, cancellation) ==
    IF cancellation THEN a.usage ELSE a.usage + 1

\* A cancelled attempt is charged only for work that had started.
Charge(a, cancellation) ==
    IF ~cancellation \/ a.started THEN a.usage + 1 ELSE a.usage

\* report "cancelled" is EXECUTION_CANCELLED.  Every other call replays a
\* receipt, acknowledges, or raises: it stores nothing.
FinishAttempt(t, n, f, report) ==
    LET a == db.att[t][n]
        cancellation == db.task[t].state = "cancelled"
        outcome == IF cancellation THEN "cancelled" ELSE report
        d == [db EXCEPT !.att[t][n] = [a EXCEPT !.state = outcome,
                                                !.lease = "released",
                                                !.receipt = report,
                                                !.usage = Charge(a, cancellation)],
                        !.task[t].state = outcome]
    IN
    /\ LeaseValid(a, f)
    /\ a.state \in LiveStates
    /\ report = "cancelled" => cancellation
    /\ db' = IF d.wrk[a.worker].status = "draining" THEN FinalizeDrained(d) ELSE d
    /\ UNCHANGED maint

-----------------------------------------------------------------------------
(* The provider's transactions *)

OfferWorker(w) ==
    /\ db.wrk[w].status # "revoked"
    /\ db' = [db EXCEPT !.wrk[w].alloc = FALSE]
    /\ UNCHANGED maint

ApproveAllocation(w) ==
    /\ db' = [db EXCEPT !.wrk[w].alloc = TRUE]
    /\ UNCHANGED maint

\* Tasks prepared for w have no ciphertext yet: they just expire.
ExpirePrepared(d, w) ==
    LET gone == {t \in Tasks : d.task[t].worker = w /\ d.task[t].state = "prepared"}
    IN  [d EXCEPT
            !.att = [t \in Tasks |-> [n \in Numbers |->
                        IF t \in gone THEN Close(d.att[t][n], {"reserved"}, "expired")
                        ELSE d.att[t][n]]],
            !.task = [t \in Tasks |->
                        IF t \in gone THEN [d.task[t] EXCEPT !.state = "expired"]
                        ELSE d.task[t]]]

UnleasedOrLeased(d, w) ==
    {t \in Tasks : d.task[t].worker = w
                   /\ d.task[t].state \in {"queued", "reserved", "rekey_required"}}

\* Tasks of w that it has not leased.
Unleased(d, w) ==
    {t \in Tasks :
        /\ d.task[t].worker = w
        /\ \/ d.task[t].state = "queued"
           \/ /\ d.task[t].state = "rekey_required"
              /\ \E n \in Numbers : /\ d.att[t][n].worker = w
                                    /\ d.att[t][n].state = "reserved"}

\* Graceful: the unleased tasks leave w's queue.
Requeue(d, w) ==
    [d EXCEPT
        !.att = [t \in Tasks |-> [n \in Numbers |->
                    IF t \in Unleased(d, w)
                    THEN Close(d.att[t][n], {"reserved"}, "cancelled")
                    ELSE d.att[t][n]]],
        !.task = [t \in Tasks |->
                    IF t \in Unleased(d, w)
                    THEN [d.task[t] EXCEPT !.state = "rekey_required", !.resv = "none"]
                    ELSE d.task[t]]]

\* Forced: everything w holds is taken from it.
Evict(d, w) ==
    [d EXCEPT
        !.att = [t \in Tasks |-> [n \in Numbers |->
                    IF d.att[t][n].worker = w
                    THEN Release(Close(d.att[t][n], OpenStates, "cancelled"))
                    ELSE d.att[t][n]]],
        !.task = [t \in Tasks |->
                    IF /\ d.task[t].worker = w
                       /\ d.task[t].state \in {"queued", "reserved", "running"}
                    THEN [d.task[t] EXCEPT !.state = "rekey_required"]
                    ELSE d.task[t]]]

Left(d, w, force) ==
    LET idle == AttemptsOn(d, w, LiveStates) = {}
        p == ExpirePrepared(d, w)
        q == IF force THEN Evict(p, w) ELSE Requeue(p, w)
    IN  [q EXCEPT !.wrk[w].status = IF force \/ idle THEN "revoked" ELSE "draining",
                  !.wrk[w].alloc = FALSE]

LeaveWorker(w, force) ==
    /\ db' = Left(db, w, force)
    /\ maint' = [maint EXCEPT ![w] = "none"]

-----------------------------------------------------------------------------
(* The sweeper, and the maintenance jobs as the scheduler sees them: "none", *)
(* "queued", or "held" (leased, running, restarting); see WorkerMaintenance  *)

MaintenanceStates == {"none", "queued", "held"}

MayBecome(m) == IF m = "held" THEN MaintenanceStates ELSE {m, "none"}

\* What ends of leases and of signed intents may make of the jobs.
MaintenanceLapses(m) ==
    {f \in [Workers -> MaintenanceStates] : \A w \in Workers : f[w] \in MayBecome(m[w])}

SweepExpired ==
    /\ db' = Expired(db)
    /\ maint' \in MaintenanceLapses(maint)

\* A Broker's heartbeat sees the leases that are over, not the reservations.
BrokerDeviceHeartbeat ==
    /\ db' = ExpireLeases(db)
    /\ UNCHANGED maint

\* A job is created, or its upload is committed (which looks at the Worker
\* before its transaction starts).
MaintenanceQueued(w) ==
    /\ \E m \in MaintenanceLapses(maint) :
        /\ m[w] # "held"
        /\ maint' = [m EXCEPT ![w] = "queued"]
    /\ UNCHANGED db

NotStarted(d, w) == AttemptsOn(d, w, {"running"}) = {}

NotExecuting(d, w) == AttemptsOn(d, w, LiveStates) = {}

\* A claim that finds no job is a SweepExpired.
MaintenanceClaimed(w) ==
    LET d == Expired(db) IN
    /\ d.wrk[w].status = "active"
    /\ NotExecuting(d, w)
    /\ \E m \in MaintenanceLapses(maint) :
        /\ m[w] = "queued"
        /\ maint' = [m EXCEPT ![w] = "held"]
    /\ db' = d

\* Jobs are completed, cancelled or failed, or the ends of leases are seen.
MaintenanceEnded ==
    /\ maint' \in MaintenanceLapses(maint)
    /\ UNCHANGED db

-----------------------------------------------------------------------------
(* Time *)

ReservationLapses(t) ==
    /\ db.task[t].resv = "live"
    /\ db' = [db EXCEPT !.task[t].resv = "lapsed"]
    /\ UNCHANGED maint

LeaseLapses(t, n) ==
    /\ db.att[t][n].lease = "live"
    /\ db' = [db EXCEPT !.att[t][n].lease = "lapsed"]
    /\ UNCHANGED maint

-----------------------------------------------------------------------------

\* Tokens a caller can present: any that w has issued, current or not.
Tokens(t, n) ==
    IF db.att[t][n].worker = NoWorker THEN {}
    ELSE 1..db.wrk[db.att[t][n].worker].counter

Next ==
    \/ \E t \in Tasks, w \in Workers : \/ PrepareTask(t, w)
                                       \/ PrepareRetry(t, w)
                                       \/ CommitRekey(t, w)
    \/ \E t \in Tasks : \/ CommitTask(t)
                        \/ CancelTask(t)
                        \/ ReservationLapses(t)
    \/ \E t \in Tasks, n \in Numbers :
        \/ LeaseLapses(t, n)
        \/ \E f \in Tokens(t, n) :
            \/ \E started \in BOOLEAN : HeartbeatAttempt(t, n, f, started)
            \/ \E report \in Reports : FinishAttempt(t, n, f, report)
    \/ \E w \in Workers : \/ WorkerHeartbeat(w)
                          \/ Lease(w)
                          \/ OfferWorker(w)
                          \/ ApproveAllocation(w)
                          \/ MaintenanceQueued(w)
                          \/ MaintenanceClaimed(w)
                          \/ \E force \in BOOLEAN : LeaveWorker(w, force)
    \/ SweepExpired
    \/ BrokerDeviceHeartbeat
    \/ MaintenanceEnded

Spec == Init /\ [][Next]_vars

\* An execution ends or stops renewing its lease.
ExecutionEnds(t, n) ==
    \/ LeaseLapses(t, n)
    \/ \E f \in Tokens(t, n), report \in Reports : FinishAttempt(t, n, f, report)

\* The sweeper runs on an interval, an active Worker polls in a loop, and no
\* execution lasts for ever.
Fairness ==
    /\ WF_vars(SweepExpired)
    /\ \A w \in Workers : WF_vars(Lease(w))
    /\ \A t \in Tasks, n \in Numbers : WF_vars(ExecutionEnds(t, n))

FairSpec == Spec /\ Fairness

-----------------------------------------------------------------------------
(* Correctness *)

\* Every row has its type; a Worker's jobs are in one of three states.
TypeOK ==
    /\ db \in Database
    /\ maint \in [Workers -> MaintenanceStates]

\* At most one attempt of a task may execute, whatever retries, rekeys,
\* cancellations and departures have happened.
OneExecution ==
    \A t \in Tasks : \A m, n \in Numbers :
        db.att[t][m].state \in LiveStates /\ db.att[t][n].state \in LiveStates
            => m = n

\* A lease is unreleased exactly while its attempt is leased or running, so
\* no late report can find a lease of an attempt that was closed.
LeaseMatchesAttempt ==
    \A t \in Tasks, n \in Numbers :
        db.att[t][n].lease \in HeldLease <=> db.att[t][n].state \in LiveStates

\* The tasks row and the attempts agree: an executing attempt belongs to the
\* assigned Worker and shows in the task's state, and a task that shows
\* execution has such an attempt.
TaskMirrorsAttempt ==
    \A t \in Tasks :
        /\ \A n \in Numbers : db.att[t][n].state \in LiveStates =>
              /\ db.att[t][n].worker = db.task[t].worker
              /\ IF db.att[t][n].state = "leased" THEN db.task[t].state = "reserved"
                 ELSE db.task[t].state \in {"running", "cancelled"}
        /\ db.task[t].state = "reserved" =>
              \E n \in Numbers : db.att[t][n].state = "leased"
        /\ db.task[t].state = "running" =>
              \E n \in Numbers : db.att[t][n].state = "running"

\* One task's row k and its attempts A, between transactions; the inductive
\* form of the three invariants above.
RowsAgree(k, A) ==
    /\ \A n \in Numbers :
        /\ A[n].lease \in HeldLease <=> A[n].state \in LiveStates
        /\ A[n].state = "leased" => k.state = "reserved"
        /\ A[n].state = "running" => k.state \in {"running", "cancelled"}
        /\ A[n].state \in {"reserved", "leased"} => ~A[n].started
        /\ A[n].state = "running" => A[n].started
        /\ A[n].state \in LiveStates => A[n].worker = k.worker
        /\ k.state = "absent" => A[n].state = "none"
    /\ \A m, n \in Numbers :
        A[m].state \in LiveStates /\ A[n].state \in LiveStates => m = n
    /\ k.state = "reserved" => \E n \in Numbers : A[n].state = "leased"
    /\ k.state = "running" => \E n \in Numbers : A[n].state = "running"

Consistent(d) == \A t \in Tasks : RowsAgree(d.task[t], d.att[t])

\* Only a started attempt runs, an unstarted one is reserved or leased, and
\* rows of tasks that do not exist are empty, with the invariants above.
RowsConsistent == Consistent(db)

\* A Worker never executes more attempts than its capacity, although tasks
\* are queued beyond it and attempts of several tasks compete for it.
CapacityRespected ==
    \A w \in Workers : Cardinality(AttemptsOn(db, w, LiveStates)) <= Capacity[w]

FencesOK(d) ==
    \A t \in Tasks, m \in Numbers : d.att[t][m].state # "none" =>
        /\ d.att[t][m].worker \in Workers
        /\ d.att[t][m].fence \in 1..d.wrk[d.att[t][m].worker].counter
        /\ \A u \in Tasks, n \in Numbers :
            /\ d.att[u][n].state # "none"
            /\ d.att[u][n].worker = d.att[t][m].worker
            /\ d.att[u][n].fence = d.att[t][m].fence
            => t = u /\ m = n

\* UNIQUE(worker_id, fencing_token) is never violated, and no attempt holds
\* a token its Worker's counter has not reached.
FencingUnique == FencesOK(db)

\* A Worker does not execute a task while it holds a maintenance job.
MaintenanceExcludesExecution ==
    \A w \in Workers : maint[w] = "held" => AttemptsOn(db, w, LiveStates) = {}

\* A queued task is leasable: its Worker, unless it was revoked, can still
\* lease, holds the task key and has a reserved attempt of the task.
QueuedIsLeasable ==
    \A t \in Tasks : LET w == db.task[t].worker IN
        db.task[t].state = "queued" /\ db.wrk[w].status # "revoked" =>
            /\ db.wrk[w].status = "active"
            /\ w \in db.env[t]
            /\ \E n \in Numbers : NewestReserved(db, t, n, w)

\* An attempt is charged at most once, and exactly when its final report was
\* accepted and it was not cancelled before it started.
ChargedExactlyOnce ==
    \A t \in Tasks, n \in Numbers : LET a == db.att[t][n] IN
        a.usage = IF /\ a.receipt # "none"
                     /\ a.state = "cancelled" => a.started
                  THEN 1 ELSE 0

ClosedRowsKept(d, e) ==
    \A t \in Tasks, n \in Numbers :
        d.att[t][n].state \in FinalStates => e.att[t][n] = d.att[t][n]

\* A closed attempt is history: no later step changes its row.
ClosedAttemptsStay == [][ClosedRowsKept(db, db')]_vars

\* A succeeded or a cancelled task keeps its state; a failed or an expired
\* one leaves it only by a retry that reserves a new attempt.
FinishedTasksStay ==
    [][\A t \in Tasks :
        /\ db.task[t].state \in {"succeeded", "cancelled"} =>
              db'.task[t].state = db.task[t].state
        /\ db.task[t].state \in {"failed", "expired"} =>
              \/ db'.task[t].state = db.task[t].state
              \/ /\ db'.task[t].state = "rekey_required"
                 /\ \E n \in Numbers : /\ db.att[t][n].state = "none"
                                       /\ db'.att[t][n].state = "reserved"]_vars

NewTokensLarger(d, e) ==
    \A t, u \in Tasks, m, n \in Numbers :
        /\ e.att[t][n].fence # d.att[t][n].fence
        /\ d.att[u][m].state # "none"
        /\ d.att[u][m].worker = e.att[t][n].worker
        => e.att[t][n].fence > d.att[u][m].fence

\* A token handed out is larger than every token of that Worker before it.
TokensIncrease == [][NewTokensLarger(db, db')]_vars

Waiting(t) ==
    db.task[t].state = "queued" /\ db.wrk[db.task[t].worker].status # "revoked"

\* Unless maintenance keeps coming, a task that is queued for a Worker does
\* not wait for ever, whatever occupies the Worker's slots and whichever ready
\* task lease takes first: it is leased, cancelled, or the Worker departs.
\* There are finitely many tasks: an endless supply of tasks of a higher
\* priority does make one wait.
QueuedProgress ==
    <>[](\A w \in Workers : maint[w] = "none") =>
        \A t \in Tasks : Waiting(t) ~> ~Waiting(t)

\* A Worker that drains its leased attempts ends up revoked, unless a second
\* retry before the rekey left a reserved attempt on it.
DrainCompletes ==
    \A w \in Workers :
        db.wrk[w].status = "draining" /\ AttemptsOn(db, w, {"reserved"}) = {}
            ~> db.wrk[w].status = "revoked"

=============================================================================
