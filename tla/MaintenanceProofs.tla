------------------------- MODULE MaintenanceProofs -------------------------
(***************************************************************************)
(* Proofs about WorkerMaintenance, for every set of Workers, tasks and     *)
(* intents and whatever their targets, kinds, subjects, devices and        *)
(* Brokers: with its jobs it implements the task scheduler                 *)
(* (TaskLifecycle), the active jobs are in force, and hand-overs and       *)
(* grants are safe.                                                        *)
(*                                                                         *)
(* Almost every transaction calms the jobs: it starts none and holds none. *)
(* The argument is made once for those, and separately for the three       *)
(* transactions that create, queue and claim a job.                        *)
(***************************************************************************)
EXTENDS WorkerMaintenance, TLAPS

-----------------------------------------------------------------------------
(* Rows *)

JobsTyped(jobs) == jobs \in [Intents -> JobRow]

\* What every transaction but create, commit and claim does to a job's row.
Calmer(i, j, k) ==
    /\ k.state \in HeldStates => j.state \in HeldStates
    /\ k.state = "queued" => j.state \in HeldStates \cup {"queued"}
    /\ k.state \in ActiveStates => j.state \in ActiveStates
    /\ j.state \in DoneStates => k.state = j.state
    /\ j.state \in HeldStates /\ k.state \in HeldStates /\ k.session # j.session =>
          Kind[i] = "worker_update" /\ j.state = "restarting"
    /\ k.state # "absent" => j.state # "absent"
    /\ k.intent = "live" => j.intent = "live"
    /\ k.fence >= j.fence

Calms(jobs, later) ==
    /\ JobsTyped(later)
    /\ \A i \in Intents : Calmer(i, jobs[i], later[i])

\* _expire_maintenance_locked on one job.
LEMMA ExpireCalms ==
    ASSUME NEW i, NEW j \in JobRow
    PROVE  ExpireJob(j) \in JobRow /\ Calmer(i, j, ExpireJob(j))
<1> DEFINE a == [j EXCEPT !.state = "expired", !.session = NoSession, !.lease = "none"]
           b == [j EXCEPT !.state = "queued", !.session = NoSession, !.lease = "none"]
<1>1. a \in JobRow /\ b \in JobRow
  BY Zenon DEF JobRow, ActiveStates, DoneStates
<1>2. /\ a.state = "expired" /\ b.state = "queued"
      /\ a.intent = j.intent /\ b.intent = j.intent
      /\ a.fence = j.fence /\ b.fence = j.fence /\ j.fence \in Nat
  BY DEF JobRow
<1>3. /\ j.state \in ActiveStates => Calmer(i, j, a)
      /\ j.state \in HeldStates => Calmer(i, j, b)
      /\ Calmer(i, j, j)
  <2> HIDE DEF a, b
  <2> QED BY <1>2 DEF Calmer, ActiveStates, HeldStates, DoneStates
<1>4. ExpireJob(j) = IF j.state \in ActiveStates /\ j.intent = "lapsed" THEN a
                     ELSE IF j.state \in HeldStates /\ j.lease = "lapsed" THEN b ELSE j
  BY DEF ExpireJob
<1> HIDE DEF a, b
<1> QED BY <1>1, <1>3, <1>4

\* The row of a job that is claimed.
LEMMA LeasedRow ==
    ASSUME NEW j \in JobRow, NEW s \in Sessions
    PROVE  /\ Leased(j, s) \in JobRow
           /\ Leased(j, s).state = "leased" /\ Leased(j, s).intent = j.intent
           /\ j.fence \in Nat /\ Leased(j, s).fence = j.fence + 1
<1> DEFINE a == [j EXCEPT !.state = "leased", !.fence = @ + 1, !.session = s, !.lease = "live"]
<1>1. a.state = "leased" /\ a.intent = j.intent /\ a.fence = j.fence + 1
  BY DEF JobRow
<1>2. j.fence \in Nat /\ j.fence + 1 \in Nat
  BY DEF JobRow
<1>3. \A n \in Nat : [j EXCEPT !.state = "leased", !.fence = n, !.session = s,
                                !.lease = "live"] \in JobRow
  BY Zenon DEF JobRow, ActiveStates, HeldStates
<1>4. a = [j EXCEPT !.state = "leased", !.fence = j.fence + 1, !.session = s, !.lease = "live"]
  BY DEF JobRow
<1>5. Leased(j, s) = a
  BY DEF Leased
<1> HIDE DEF a
<1>6. a \in JobRow
  BY Zenon, <1>2, <1>3, <1>4
<1> QED BY Zenon, <1>1, <1>2, <1>5, <1>6

\* The job a revocation withdraws is over.
LEMMA WithdrawCalms ==
    ASSUME NEW i, NEW j \in JobRow
    PROVE  /\ Withdraw(j) \in JobRow /\ Calmer(i, j, Withdraw(j))
           /\ Withdraw(j).state \notin ActiveStates
<1> DEFINE a == [j EXCEPT !.state = "cancelled", !.session = NoSession, !.lease = "none",
                          !.fence = @ + 1]
<1>1. /\ a \in JobRow /\ a.state = "cancelled" /\ a.intent = j.intent
      /\ a.fence = j.fence + 1 /\ j.fence \in Nat
  <2>1. a.state = "cancelled" /\ a.intent = j.intent /\ a.fence = j.fence + 1
    BY DEF JobRow
  <2>2. j.fence \in Nat /\ j.fence + 1 \in Nat
    BY DEF JobRow
  <2>3. \A n \in Nat : [j EXCEPT !.state = "cancelled", !.session = NoSession,
                                  !.lease = "none", !.fence = n] \in JobRow
    BY Zenon DEF JobRow, DoneStates
  <2>4. a = [j EXCEPT !.state = "cancelled", !.session = NoSession, !.lease = "none",
                      !.fence = j.fence + 1]
    BY DEF JobRow
  <2> HIDE DEF a
  <2> QED BY Zenon, <2>1, <2>2, <2>3, <2>4
<1>2. Withdraw(j) = IF j.state \in ActiveStates THEN a ELSE j
  BY DEF Withdraw
<1> HIDE DEF a
<1>3. /\ j.state \in ActiveStates => Calmer(i, j, a)
      /\ Calmer(i, j, j)
  BY <1>1 DEF Calmer, ActiveStates, HeldStates, DoneStates
<1> QED BY SMTT(30), <1>1, <1>2, <1>3 DEF ActiveStates, HeldStates

\* The expiry of all jobs.
LEMMA ExpireJobsCalms ==
    ASSUME NEW jobs, JobsTyped(jobs)
    PROVE  Calms(jobs, ExpireJobs(jobs))
<1>1. \A i \in Intents : /\ ExpireJob(jobs[i]) \in JobRow
                         /\ Calmer(i, jobs[i], ExpireJob(jobs[i]))
  BY ExpireCalms DEF JobsTyped
<1> QED BY <1>1 DEF Calms, JobsTyped, ExpireJobs

\* A transaction that leaves the jobs alone.
LEMMA SameJobsCalm ==
    ASSUME NEW jobs, JobsTyped(jobs)
    PROVE  Calms(jobs, jobs)
<1>1. \A i \in Intents : jobs[i].fence \in Nat
  BY DEF JobsTyped, JobRow
<1> QED BY <1>1 DEF Calms, Calmer

\* A transaction on one job.
LEMMA OneJobCalms ==
    ASSUME NEW jobs, JobsTyped(jobs), NEW i \in Intents, NEW k \in JobRow,
           Calmer(i, jobs[i], k)
    PROVE  Calms(jobs, [jobs EXCEPT ![i] = k])
<1>1. \A n \in Intents : [jobs EXCEPT ![i] = k][n] = IF n = i THEN k ELSE jobs[n]
  BY DEF JobsTyped
<1>2. \A n \in Intents : Calmer(n, jobs[n], jobs[n])
  BY SameJobsCalm DEF Calms
<1>3. JobsTyped([jobs EXCEPT ![i] = k])
  BY DEF JobsTyped
<1> QED BY <1>1, <1>2, <1>3 DEF Calms

-----------------------------------------------------------------------------
(* The transactions that calm the jobs *)

\* An upload arrives, or its bytes are wrong.
LEMMA UploadCalms ==
    ASSUME JobsTyped(job), NEW i \in Intents, UploadSucceeds(i) \/ UploadFails(i)
    PROVE  Calms(job, job')
<1> DEFINE j == job[i]
           a == [j EXCEPT !.art = "uploaded"]
           b == [j EXCEPT !.art = "failed",
                          !.state = IF j.state = "awaiting_upload" THEN "failed" ELSE j.state]
<1>1. j \in JobRow
  BY DEF JobsTyped
<1>2. job' = [job EXCEPT ![i] = a] \/ job' = [job EXCEPT ![i] = b]
  BY Zenon, <1>1 DEF UploadSucceeds, UploadFails, JobsTyped
<1> HIDE DEF j
<1>3. a \in JobRow /\ b \in JobRow
  BY Zenon, <1>1 DEF JobRow, DoneStates
<1>4. /\ a.state = j.state /\ a.session = j.session /\ a.intent = j.intent
      /\ a.fence = j.fence /\ b.fence = j.fence /\ j.fence \in Nat
      /\ b.state = IF j.state = "awaiting_upload" THEN "failed" ELSE j.state
      /\ b.session = j.session /\ b.intent = j.intent
  BY <1>1 DEF JobRow
<1> HIDE DEF a, b
<1>5. Calmer(i, j, a) /\ Calmer(i, j, b)
  BY <1>4 DEF Calmer, ActiveStates, HeldStates, DoneStates
<1> QED BY <1>2, <1>3, <1>5, OneJobCalms DEF j

\* cancel_worker_maintenance.
LEMMA CancelCalms ==
    ASSUME JobsTyped(job), NEW i \in Intents, CancelWorkerMaintenance(i)
    PROVE  Calms(job, job')
<1> DEFINE j == job[i]
           a == [j EXCEPT !.state = "cancelled", !.lease = "none"]
<1>1. j \in JobRow /\ j.state \in ActiveStates
  BY DEF JobsTyped, CancelWorkerMaintenance, Active
<1>2. job' = [job EXCEPT ![i] = a]
  BY Zenon, <1>1 DEF CancelWorkerMaintenance, JobsTyped
<1> HIDE DEF j
<1>3. /\ a \in JobRow /\ a.state = "cancelled" /\ a.intent = j.intent
      /\ a.fence = j.fence /\ j.fence \in Nat
  BY Zenon, <1>1 DEF JobRow, DoneStates
<1> HIDE DEF a
<1>4. Calmer(i, j, a)
  BY <1>1, <1>3 DEF Calmer, ActiveStates, HeldStates, DoneStates
<1> QED BY Zenon, <1>2, <1>3, <1>4, OneJobCalms DEF j

\* The end of a lease, and of an intent.
LEMMA LapsesCalm ==
    ASSUME JobsTyped(job), NEW i \in Intents, JobLeaseLapses(i) \/ IntentLapses(i)
    PROVE  Calms(job, job')
<1> DEFINE j == job[i]
           a == [j EXCEPT !.lease = "lapsed"]
           b == [j EXCEPT !.intent = "lapsed",
                          !.lease = IF j.lease = "live" THEN "lapsed" ELSE j.lease]
<1>1. j \in JobRow
  BY DEF JobsTyped
<1>2. job' = [job EXCEPT ![i] = a] \/ job' = [job EXCEPT ![i] = b]
  BY Zenon, <1>1 DEF JobLeaseLapses, IntentLapses, JobsTyped
<1> HIDE DEF j
<1>3. a \in JobRow /\ b \in JobRow
  BY Zenon, <1>1 DEF JobRow
<1>4. /\ a.state = j.state /\ a.session = j.session /\ a.intent = j.intent
      /\ b.state = j.state /\ b.session = j.session /\ b.intent = "lapsed"
      /\ a.fence = j.fence /\ b.fence = j.fence /\ j.fence \in Nat
  BY <1>1 DEF JobRow
<1> HIDE DEF a, b
<1>5. Calmer(i, j, a) /\ Calmer(i, j, b)
  BY <1>4 DEF Calmer
<1> QED BY <1>2, <1>3, <1>5, OneJobCalms DEF j

\* heartbeat_worker_maintenance: only the adoption of a restarting update
\* changes the session.
LEMMA HeartbeatCalms ==
    ASSUME JobsTyped(job), NEW i \in Intents, NEW f, NEW s \in Sessions,
           NEW state \in {"running", "restarting"}, NEW adopt \in BOOLEAN,
           HeartbeatWorkerMaintenance(i, f, s, state, adopt)
    PROVE  Calms(job, job')
<1> DEFINE j == job[i]
           a == [j EXCEPT !.state = state, !.session = IF adopt THEN s ELSE j.session]
<1>1. /\ j \in JobRow /\ j.state \in HeldStates
      /\ adopt => Kind[i] = "worker_update" /\ j.state = "restarting"
  BY DEF JobsTyped, HeartbeatWorkerMaintenance, Held, HeldStates
<1>2. job' = [job EXCEPT ![i] = a]
  BY Zenon, <1>1 DEF HeartbeatWorkerMaintenance, JobsTyped
<1> HIDE DEF j
<1>3. /\ a \in JobRow /\ a.state = state /\ a.intent = j.intent
      /\ a.fence = j.fence /\ j.fence \in Nat
      /\ ~adopt => a.session = j.session
  BY Zenon, <1>1 DEF JobRow, ActiveStates, HeldStates
<1> HIDE DEF a
<1>4. Calmer(i, j, a)
  BY <1>1, <1>3 DEF Calmer, ActiveStates, HeldStates, DoneStates
<1> QED BY Zenon, <1>2, <1>3, <1>4, OneJobCalms DEF j

\* complete_worker_maintenance ends a held job.
LEMMA CompleteCalms ==
    ASSUME JobsTyped(job), NEW i \in Intents, NEW f, NEW s,
           NEW succeeded \in BOOLEAN, NEW rolledBack,
           CompleteWorkerMaintenance(i, f, s, succeeded, rolledBack)
    PROVE  /\ Calms(job, job')
           /\ Held(i) /\ job'[i].state = IF succeeded THEN "succeeded" ELSE "failed"
<1> DEFINE j == job[i]
           a == [j EXCEPT !.state = IF succeeded THEN "succeeded" ELSE "failed",
                          !.lease = "none",
                          !.art = IF succeeded /\ j.art = "uploaded"
                                  THEN "available" ELSE j.art]
<1>1. j \in JobRow /\ j.state \in HeldStates /\ Held(i)
  BY DEF JobsTyped, CompleteWorkerMaintenance, Held
<1>2. job' = [job EXCEPT ![i] = a]
  BY Zenon DEF CompleteWorkerMaintenance
<1> HIDE DEF j
<1>3. /\ a \in JobRow /\ a.intent = j.intent
      /\ a.fence = j.fence /\ j.fence \in Nat
      /\ a.state = IF succeeded THEN "succeeded" ELSE "failed"
  BY Zenon, <1>1 DEF JobRow, DoneStates
<1> HIDE DEF a
<1>4. Calmer(i, j, a)
  BY <1>1, <1>3 DEF Calmer, ActiveStates, HeldStates, DoneStates
<1>5. job'[i] = a
  BY <1>2 DEF JobsTyped
<1> QED BY Zenon, <1>1, <1>2, <1>3, <1>4, <1>5, OneJobCalms DEF j

\* deactivate_worker_workflow withdraws the jobs of the workflow.
LEMMA DeactivateCalms ==
    ASSUME JobsTyped(job), NEW w, NEW workflow, NEW source,
           DeactivateWorkerWorkflow(w, workflow, source)
    PROVE  Calms(job, job')
<1> DEFINE row(i) == [Withdraw(job[i]) EXCEPT
                        !.art = IF @ \in {"pending", "uploaded"} THEN "deleted" ELSE @]
<1>1. \A i \in Intents : job'[i] \in {job[i], row(i)} /\ (job'[i] = row(i) \/ job'[i] = job[i])
  BY DEF DeactivateWorkerWorkflow
<1>2. job' = [i \in Intents |-> job'[i]]
  BY DEF DeactivateWorkerWorkflow
<1>3. ASSUME NEW i \in Intents
      PROVE  /\ row(i) \in JobRow /\ Calmer(i, job[i], row(i))
             /\ job[i] \in JobRow /\ Calmer(i, job[i], job[i])
  <2> DEFINE v == Withdraw(job[i])
  <2>1. job[i] \in JobRow
    BY DEF JobsTyped
  <2>2. v \in JobRow /\ Calmer(i, job[i], v)
    BY <2>1, WithdrawCalms
  <2> HIDE DEF v
  <2> DEFINE x == [v EXCEPT !.art = IF @ \in {"pending", "uploaded"} THEN "deleted" ELSE @]
  <2>3. /\ x \in JobRow /\ x.state = v.state /\ x.session = v.session
        /\ x.intent = v.intent /\ x.fence = v.fence
    BY <2>2 DEF JobRow
  <2>4. row(i) = x
    BY DEF v
  <2> HIDE DEF x
  <2>5. Calmer(i, job[i], x) /\ Calmer(i, job[i], job[i])
    BY <2>2, <2>3, SameJobsCalm DEF Calmer, Calms
  <2> QED BY <2>1, <2>3, <2>4, <2>5
<1> HIDE DEF row
<1>4. \A i \in Intents : job'[i] \in JobRow /\ Calmer(i, job[i], job'[i])
  BY <1>1, <1>3
<1> QED BY <1>2, <1>4 DEF Calms, JobsTyped

\* revoke_device and leave_worker withdraw jobs.
LEMMA WithdrawnCalm ==
    ASSUME JobsTyped(job), NEW S,
           job' = [i \in Intents |-> IF i \in S THEN Withdraw(job[i]) ELSE job[i]]
    PROVE  /\ Calms(job, job')
           /\ \A i \in Intents : i \in S => job'[i].state \notin ActiveStates
<1>1. ASSUME NEW i \in Intents
      PROVE  /\ job'[i] \in JobRow /\ Calmer(i, job[i], job'[i])
             /\ i \in S => job'[i].state \notin ActiveStates
  <2>1. job[i] \in JobRow /\ Calmer(i, job[i], job[i])
    BY SameJobsCalm DEF JobsTyped, Calms
  <2> QED BY <2>1, WithdrawCalms
<1> QED BY <1>1 DEF Calms, JobsTyped

\* prune_expired_security_state forgets sessions of jobs that are over.
LEMMA PruneCalms ==
    ASSUME JobsTyped(job), PruneExpiredSecurityState
    PROVE  Calms(job, job')
<1>1. PICK over \in SUBSET Sessions :
        job' = [i \in Intents |->
                 IF job[i].state \in DoneStates /\ job[i].session \in over
                 THEN [job[i] EXCEPT !.session = NoSession] ELSE job[i]]
  BY Zenon DEF PruneExpiredSecurityState
<1>2. ASSUME NEW i \in Intents
      PROVE  job'[i] \in JobRow /\ Calmer(i, job[i], job'[i])
  <2> DEFINE j == job[i]
             a == [j EXCEPT !.session = NoSession]
  <2>1. j \in JobRow
    BY DEF JobsTyped
  <2>2. job'[i] = IF j.state \in DoneStates /\ j.session \in over THEN a ELSE j
    BY <1>1
  <2> HIDE DEF j
  <2>3. /\ a \in JobRow /\ a.state = j.state /\ a.intent = j.intent
        /\ a.fence = j.fence /\ j.fence \in Nat
    BY <2>1 DEF JobRow
  <2> HIDE DEF a
  <2>4. Calmer(i, j, j) /\ (j.state \in DoneStates => Calmer(i, j, a))
    BY <2>3 DEF Calmer, DoneStates, HeldStates
  <2> QED BY <2>1, <2>2, <2>3, <2>4 DEF j
<1> QED BY <1>1, <1>2 DEF Calms, JobsTyped

-----------------------------------------------------------------------------
(* The scheduler *)

\* What the scheduler sees, as a function of the jobs.
View(jobs) ==
    [w \in Workers |->
        IF \E i \in Intents : Target[i] = w /\ jobs[i].state \in HeldStates THEN "held"
        ELSE IF \E i \in Intents : Target[i] = w /\ jobs[i].state = "queued" THEN "queued"
        ELSE "none"]

\* The view, before and after a step.
LEMMA Seen == SeenByScheduler = View(job) /\ SeenByScheduler' = View(job')
  BY DEF SeenByScheduler, View, Held

\* Calming the jobs is what the scheduler allows at any time.
LEMMA CalmView ==
    ASSUME NEW jobs, NEW later, Calms(jobs, later)
    PROVE  View(later) \in TL!MaintenanceLapses(View(jobs))
<1> SUFFICES ASSUME NEW w \in Workers
             PROVE  View(later)[w] \in TL!MayBecome(View(jobs)[w])
  BY DEF View, TL!MaintenanceLapses, TL!MaintenanceStates
<1>1. \A i \in Intents :
        /\ later[i].state \in HeldStates => jobs[i].state \in HeldStates
        /\ later[i].state = "queued" => jobs[i].state \in HeldStates \cup {"queued"}
  BY DEF Calms, Calmer
<1> QED BY <1>1 DEF View, TL!MayBecome, TL!MaintenanceStates

\* Steps of the jobs alone are steps of the scheduler's maintenance.
LEMMA CalmRefines ==
    ASSUME Calms(job, job'), UNCHANGED db
    PROVE  TL!Next
<1>1. SeenByScheduler' \in TL!MaintenanceLapses(SeenByScheduler)
  BY CalmView, Seen
<1>2. TL!MaintenanceEnded
  BY <1>1 DEF TL!MaintenanceEnded
<1> QED BY <1>2 DEF TL!Next

\* A job of w that was neither queued nor held becomes queued: the scheduler
\* sees that, or the job that w holds already.
LEMMA QueuedRefines ==
    ASSUME NEW jobs, Calms(job, jobs), NEW i \in Intents, NEW k \in JobRow,
           k.state \in {"awaiting_upload", "queued"},
           jobs[i].state \notin HeldStates \cup {"queued"},
           job' = [jobs EXCEPT ![i] = k], UNCHANGED db
    PROVE  TL!Next
<1> DEFINE w == Target[i]
           m == View(jobs)
<1>1. w \in Workers
  BY IntentsAssumption
<1>2. \A n \in Intents : job'[n] = IF n = i THEN k ELSE jobs[n]
  BY DEF Calms, JobsTyped
<1>3. m \in TL!MaintenanceLapses(SeenByScheduler)
  BY CalmView, Seen
<1>4. CASE k.state = "awaiting_upload"
  <2>1. \A n \in Intents :
          /\ job'[n].state \in HeldStates <=> jobs[n].state \in HeldStates
          /\ job'[n].state = "queued" <=> jobs[n].state = "queued"
    BY <1>2, <1>4 DEF HeldStates
  <2>2. View(job') = m
    BY <2>1 DEF View
  <2>3. TL!MaintenanceEnded
    BY <1>3, <2>2, Seen DEF TL!MaintenanceEnded
  <2> QED BY <2>3 DEF TL!Next
<1>5. CASE k.state = "queued"
  <2>1. \A n \in Intents :
          /\ job'[n].state \in HeldStates <=> jobs[n].state \in HeldStates
          /\ n # i => (job'[n].state = "queued" <=> jobs[n].state = "queued")
    BY <1>2, <1>5 DEF HeldStates
  <2>2. job'[i].state = "queued"
    BY <1>2, <1>5
  <2>3. CASE m[w] = "held"
    <3>1. View(job') = m
      <4>1. \A v \in Workers : View(job')[v] = m[v]
        BY <1>1, <2>1, <2>2, <2>3 DEF View
      <4> QED BY <4>1 DEF View
    <3>2. TL!MaintenanceEnded
      BY <1>3, <3>1, Seen DEF TL!MaintenanceEnded
    <3> QED BY <3>2 DEF TL!Next
  <2>4. CASE m[w] # "held"
    <3>1. View(job') = [m EXCEPT ![w] = "queued"]
      <4>1. \A v \in Workers : View(job')[v] = IF v = w THEN "queued" ELSE m[v]
        BY <1>1, <2>1, <2>2, <2>4 DEF View
      <4> QED BY Zenon, <4>1 DEF View
    <3>2. TL!MaintenanceQueued(w)
      <4> HIDE DEF m, w
      <4> QED BY Zenon, <1>3, <2>4, <3>1, Seen DEF TL!MaintenanceQueued
    <3> QED BY <1>1, <3>2 DEF TL!Next
  <2> QED BY <2>3, <2>4
<1> QED BY <1>4, <1>5

\* claim_worker_maintenance.
LEMMA ClaimRefines ==
    ASSUME JobsTyped(job), NEW w \in Workers, NEW s, NEW actions,
           ClaimWorkerMaintenance(w, s, actions)
    PROVE  TL!Next
<1> DEFINE jobs == ExpireJobs(job)
           m == View(jobs)
           d == TL!Expired(db)
<1>1. Calms(job, jobs)
  BY ExpireJobsCalms
<1>2. m \in TL!MaintenanceLapses(SeenByScheduler)
  BY <1>1, CalmView, Seen
<1>3. db' = d /\ d.wrk[w].status = "active"
  BY DEF ClaimWorkerMaintenance
<1>4. CASE job' = jobs
  <2>1. TL!SweepExpired
    BY <1>2, <1>3, <1>4, Seen DEF TL!SweepExpired
  <2> QED BY <2>1 DEF TL!Next
<1>5. CASE job' # jobs
  <2>1. /\ NoneHeld(jobs, w) /\ NotExecuting(d, w)
        /\ \E i \in Claimable(jobs, w, actions) : job' = [jobs EXCEPT ![i] = Leased(jobs[i], s)]
    BY <1>5 DEF ClaimWorkerMaintenance
  <2>2. PICK i \in Intents : /\ Target[i] = w /\ jobs[i].state = "queued"
                             /\ job' = [jobs EXCEPT ![i] = Leased(jobs[i], s)]
    BY Zenon, <2>1 DEF Claimable
  <2>3. NotExecuting(d, w)
    BY <2>1
  <2> HIDE DEF jobs, d
  <2>4. jobs[i] \in JobRow
    BY <1>1 DEF Calms, JobsTyped
  <2>5. Leased(jobs[i], s).state = "leased"
    BY <2>4 DEF Leased, JobRow
  <2>6. /\ job'[i].state = "leased"
        /\ \A n \in Intents : n # i => job'[n] = jobs[n]
    BY <1>1, <2>2, <2>5 DEF Calms, JobsTyped
  <2>7. View(job') = [m EXCEPT ![w] = "held"]
    <3>1. ASSUME NEW v \in Workers, v # w
          PROVE  \A n \in Intents : Target[n] = v => job'[n] = jobs[n]
      BY <2>2, <2>6, <3>1
    <3>2. \A v \in Workers : View(job')[v] = IF v = w THEN "held" ELSE m[v]
      BY <2>2, <2>6, <3>1 DEF View, HeldStates
    <3> QED BY Zenon, <3>2 DEF View
  <2>8. m[w] = "queued"
    BY <2>1, <2>2 DEF View, NoneHeld, jobs
  <2>9. TL!NotExecuting(d, w)
    BY <2>3 DEF NotExecuting, TL!NotExecuting
  <2>10. TL!MaintenanceClaimed(w)
    <3> HIDE DEF m
    <3>1. \E x \in TL!MaintenanceLapses(SeenByScheduler) :
            x[w] = "queued" /\ SeenByScheduler' = [x EXCEPT ![w] = "held"]
      BY Zenon, <1>2, <2>7, <2>8, Seen
    <3> QED BY Zenon, <1>3, <2>9, <3>1 DEF TL!MaintenanceClaimed, d
  <2> QED BY <2>10 DEF TL!Next
<1> QED BY <1>4, <1>5

\* leave_worker.
LEMMA LeaveRefines ==
    ASSUME JobsTyped(job), NEW w \in Workers, NEW force \in BOOLEAN, LeaveWorker(w, force)
    PROVE  TL!Next
<1>1. job' = [i \in Intents |-> IF Target[i] = w THEN Withdraw(job[i]) ELSE job[i]]
  BY DEF LeaveWorker
<1>2. \A i \in Intents : IF Target[i] = w THEN job'[i].state \notin ActiveStates
                         ELSE job'[i] = job[i]
  BY <1>1, WithdrawCalms DEF JobsTyped
<1>3. \A v \in Workers : View(job')[v] = IF v = w THEN "none" ELSE View(job)[v]
  BY <1>2 DEF View, ActiveStates, HeldStates
<1>4. View(job') = [View(job) EXCEPT ![w] = "none"]
  BY Zenon, <1>3 DEF View
<1>5. TL!LeaveWorker(w, force)
  BY <1>4, Seen DEF LeaveWorker, TL!LeaveWorker
<1> QED BY <1>5 DEF TL!Next

\* The rows create_worker_maintenance and commit_worker_maintenance write.
LEMMA NewRows ==
    ASSUME NEW i, NEW j \in JobRow
    PROVE  /\ NewJob(i) \in JobRow /\ NewJob(i).state \in {"awaiting_upload", "queued"}
           /\ [j EXCEPT !.state = "queued"] \in JobRow
           /\ [j EXCEPT !.state = "queued"].state = "queued"
<1>1. NoJob \in JobRow
  BY DEF NoJob, JobRow
<1> DEFINE a == [NoJob EXCEPT !.state = "awaiting_upload", !.art = "pending"]
           b == [NoJob EXCEPT !.state = "queued"]
<1>2. a \in JobRow /\ b \in JobRow /\ a.state = "awaiting_upload" /\ b.state = "queued"
  BY Zenon, <1>1 DEF JobRow, ActiveStates
<1>3. NewJob(i) = a \/ NewJob(i) = b
  BY DEF NewJob
<1> HIDE DEF a, b
<1>4. NewJob(i) \in JobRow /\ NewJob(i).state \in {"awaiting_upload", "queued"}
  BY <1>2, <1>3
<1> QED BY <1>4 DEF JobRow, ActiveStates

\* create_worker_maintenance expires jobs, and perhaps adds one for an intent
\* that has no active job and no receipt.
LEMMA CreateSteps ==
    ASSUME JobsTyped(job), NEW i \in Intents, CreateWorkerMaintenance(i)
    PROVE  \/ Calms(job, job') /\ (receipt' = receipt \/ \E k \in Intents :
                                     receipt' = [receipt EXCEPT ![i] = k])
           \/ /\ receipt[i] = NoIntent /\ receipt' = [receipt EXCEPT ![i] = i]
              /\ \A k \in Intents :
                    SameWork(i, k) => ExpireJobs(job)[k].state \notin ActiveStates
              /\ job' = [ExpireJobs(job) EXCEPT ![i] = NewJob(i)]
<1> DEFINE jobs == ExpireJobs(job)
           same == {k \in Intents : SameWork(i, k) /\ jobs[k].state \in ActiveStates}
<1>1. Calms(job, jobs)
  BY ExpireJobsCalms
<1>2. \/ job' = jobs /\ receipt' = receipt
      \/ job' = jobs /\ \E k \in same : receipt' = [receipt EXCEPT ![i] = k]
      \/ /\ receipt[i] = NoIntent /\ same = {} /\ receipt' = [receipt EXCEPT ![i] = i]
         /\ job' = [jobs EXCEPT ![i] = NewJob(i)]
  BY DEF CreateWorkerMaintenance
<1>3. same \subseteq Intents
  OBVIOUS
<1>4. same = {} => \A k \in Intents : SameWork(i, k) => jobs[k].state \notin ActiveStates
  OBVIOUS
<1> HIDE DEF jobs, same
<1> QED BY <1>1, <1>2, <1>3, <1>4 DEF jobs

\* commit_worker_maintenance expires jobs, and perhaps queues the one whose
\* upload is complete.
LEMMA CommitSteps ==
    ASSUME JobsTyped(job), NEW i \in Intents, CommitWorkerMaintenance(i)
    PROVE  \/ Calms(job, job')
           \/ /\ ExpireJobs(job)[i].state = "awaiting_upload"
              /\ job' = [ExpireJobs(job) EXCEPT
                            ![i] = [ExpireJobs(job)[i] EXCEPT !.state = "queued"]]
<1>1. Calms(job, ExpireJobs(job))
  BY ExpireJobsCalms
<1> QED BY <1>1 DEF CommitWorkerMaintenance

\* The steps of the jobs that hold none and start none.
CalmStep ==
    \/ \E i \in Intents :
        \/ UploadSucceeds(i) \/ UploadFails(i) \/ CancelWorkerMaintenance(i)
        \/ JobLeaseLapses(i) \/ IntentLapses(i)
        \/ \E f \in 1..job[i].fence, s \in Sessions :
            \/ \E state \in {"running", "restarting"}, adopt \in BOOLEAN :
                HeartbeatWorkerMaintenance(i, f, s, state, adopt)
            \/ \E succeeded, rolledBack \in BOOLEAN :
                CompleteWorkerMaintenance(i, f, s, succeeded, rolledBack)
    \/ \E w \in Workers :
        \/ \E broker \in Brokers : SetWorkerManager(w, broker)
        \/ \E i \in Intents, source \in Intents \cup {NoIntent} :
            DeactivateWorkerWorkflow(w, Subject[i], source)
    \/ \E device \in Devices : RevokeDevice(device)
    \/ PruneExpiredSecurityState

\* They calm the jobs and leave the scheduler's tables alone.
LEMMA CalmSteps ==
    ASSUME JobsTyped(job), CalmStep
    PROVE  Calms(job, job') /\ UNCHANGED db
<1>1. ASSUME NEW i \in Intents,
             \/ UploadSucceeds(i) \/ UploadFails(i) \/ CancelWorkerMaintenance(i)
             \/ JobLeaseLapses(i) \/ IntentLapses(i)
      PROVE  Calms(job, job') /\ UNCHANGED db
  <2>1. Calms(job, job')
    BY <1>1, UploadCalms, CancelCalms, LapsesCalm
  <2>2. UNCHANGED db
    BY <1>1 DEF UploadSucceeds, UploadFails, CancelWorkerMaintenance, JobLeaseLapses,
                IntentLapses
  <2> QED BY <2>1, <2>2
<1>2. ASSUME NEW i \in Intents, NEW f, NEW s \in Sessions,
             \/ \E state \in {"running", "restarting"}, adopt \in BOOLEAN :
                    HeartbeatWorkerMaintenance(i, f, s, state, adopt)
             \/ \E succeeded, rolledBack \in BOOLEAN :
                    CompleteWorkerMaintenance(i, f, s, succeeded, rolledBack)
      PROVE  Calms(job, job') /\ UNCHANGED db
  <2>1. Calms(job, job')
    BY <1>2, HeartbeatCalms, CompleteCalms
  <2>2. UNCHANGED db
    BY Zenon, <1>2 DEF HeartbeatWorkerMaintenance, CompleteWorkerMaintenance
  <2> QED BY <2>1, <2>2
<1>3. ASSUME NEW w \in Workers, \E broker \in Brokers : SetWorkerManager(w, broker)
      PROVE  Calms(job, job') /\ UNCHANGED db
  BY <1>3, SameJobsCalm DEF SetWorkerManager
<1>4. ASSUME NEW w \in Workers,
             \E i \in Intents, source \in Intents \cup {NoIntent} :
                DeactivateWorkerWorkflow(w, Subject[i], source)
      PROVE  Calms(job, job') /\ UNCHANGED db
  <2>1. PICK workflow, source : DeactivateWorkerWorkflow(w, workflow, source)
    BY Zenon, <1>4
  <2>2. UNCHANGED db
    BY Zenon, <2>1 DEF DeactivateWorkerWorkflow
  <2> QED BY <2>1, <2>2, DeactivateCalms
<1>5. ASSUME NEW device \in Devices, RevokeDevice(device)
      PROVE  Calms(job, job') /\ UNCHANGED db
  <2> DEFINE S == {i \in Intents : Device[i] = device}
  <2>1. job' = [i \in Intents |-> IF i \in S THEN Withdraw(job[i]) ELSE job[i]]
    BY <1>5 DEF RevokeDevice
  <2>2. Calms(job, job')
    BY Zenon, <2>1, WithdrawnCalm
  <2> QED BY <1>5, <2>2 DEF RevokeDevice
<1>6. CASE PruneExpiredSecurityState
  BY Zenon, <1>6, PruneCalms DEF PruneExpiredSecurityState
<1> QED BY ZenonT(30), <1>1, <1>2, <1>3, <1>4, <1>5, <1>6 DEF CalmStep

\* A step of the jobs is one that calms them, or one of the other five.
LEMMA JobSteps ==
    ASSUME JobStep
    PROVE  \/ CalmStep
           \/ \E i \in Intents : CreateWorkerMaintenance(i) \/ CommitWorkerMaintenance(i)
           \/ \E w \in Workers :
                \/ \E s \in Sessions, actions \in ActionSets :
                        ClaimWorkerMaintenance(w, s, actions)
                \/ \E force \in BOOLEAN : LeaveWorker(w, force)
           \/ SweepExpired
  BY Zenon DEF JobStep, CalmStep

\* Every step of the jobs is a step of the scheduler.
LEMMA JobStepRefines ==
    ASSUME JobsTyped(job), JobStep
    PROVE  TL!Next
<1> DEFINE jobs == ExpireJobs(job)
<1>1. Calms(job, jobs)
  BY ExpireJobsCalms
<1>2. CASE CalmStep
  BY <1>2, CalmSteps, CalmRefines
<1>3. ASSUME NEW i \in Intents, CreateWorkerMaintenance(i)
      PROVE  TL!Next
  <2>1. UNCHANGED db
    BY Zenon, <1>3 DEF CreateWorkerMaintenance
  <2>2. CASE Calms(job, job')
    BY <2>1, <2>2, CalmRefines
  <2>3. CASE /\ jobs[i].state \notin ActiveStates
             /\ job' = [jobs EXCEPT ![i] = NewJob(i)]
    <3>1. NewJob(i) \in JobRow /\ NewJob(i).state \in {"awaiting_upload", "queued"}
      BY Zenon, NewRows DEF JobsTyped
    <3>2. jobs[i].state \notin HeldStates \cup {"queued"}
      BY <2>3 DEF ActiveStates
    <3> HIDE DEF jobs
    <3> QED BY Zenon, <1>1, <2>1, <2>3, <3>1, <3>2, QueuedRefines
  <2>4. SameWork(i, i)
    BY DEF SameWork
  <2> QED BY <1>3, <2>2, <2>3, <2>4, CreateSteps
<1>4. ASSUME NEW i \in Intents, CommitWorkerMaintenance(i)
      PROVE  TL!Next
  <2>1. UNCHANGED db
    BY <1>4 DEF CommitWorkerMaintenance
  <2>2. CASE Calms(job, job')
    BY <2>1, <2>2, CalmRefines
  <2>3. CASE /\ jobs[i].state = "awaiting_upload"
             /\ job' = [jobs EXCEPT ![i] = [jobs[i] EXCEPT !.state = "queued"]]
    <3> DEFINE k == [jobs[i] EXCEPT !.state = "queued"]
    <3> HIDE DEF jobs
    <3>1. k \in JobRow /\ k.state \in {"awaiting_upload", "queued"}
      BY Zenon, <1>1, NewRows DEF Calms, JobsTyped
    <3>2. jobs[i].state \notin HeldStates \cup {"queued"}
      BY <2>3 DEF HeldStates
    <3> HIDE DEF k
    <3>3. job' = [jobs EXCEPT ![i] = k]
      BY <2>3 DEF k
    <3> QED BY Zenon, <1>1, <2>1, <3>1, <3>2, <3>3, QueuedRefines
  <2> QED BY <1>4, <2>2, <2>3, CommitSteps
<1>5. CASE SweepExpired
  <2>1. SeenByScheduler' \in TL!MaintenanceLapses(SeenByScheduler)
    BY <1>1, <1>5, CalmView, Seen DEF SweepExpired
  <2>2. TL!SweepExpired
    BY <1>5, <2>1 DEF SweepExpired, TL!SweepExpired
  <2> QED BY <2>2 DEF TL!Next
<1> QED BY <1>2, <1>3, <1>4, <1>5, ClaimRefines, LeaveRefines, JobSteps

\* The jobs keep their types.
LEMMA JobStepTyped ==
    ASSUME JobsTyped(job), JobStep
    PROVE  JobsTyped(job')
<1> DEFINE jobs == ExpireJobs(job)
<1>1. Calms(job, jobs) /\ JobsTyped(jobs)
  BY ExpireJobsCalms DEF Calms
<1>2. CASE CalmStep
  BY <1>2, CalmSteps DEF Calms
<1>3. ASSUME NEW i \in Intents, CreateWorkerMaintenance(i) \/ CommitWorkerMaintenance(i)
      PROVE  JobsTyped(job')
  <2>1. ASSUME NEW k \in JobRow, job' = [jobs EXCEPT ![i] = k]
        PROVE  JobsTyped(job')
    BY <1>1, <2>1 DEF JobsTyped
  <2>2. NewJob(i) \in JobRow /\ [jobs[i] EXCEPT !.state = "queued"] \in JobRow
    BY <1>1, NewRows DEF JobsTyped
  <2> HIDE DEF jobs
  <2>3. \/ Calms(job, job') \/ job' = [jobs EXCEPT ![i] = NewJob(i)]
        \/ job' = [jobs EXCEPT ![i] = [jobs[i] EXCEPT !.state = "queued"]]
    BY <1>3, CreateSteps, CommitSteps DEF jobs
  <2> QED BY <2>1, <2>2, <2>3 DEF Calms
<1>4. ASSUME NEW w \in Workers, NEW s \in Sessions, NEW actions,
             ClaimWorkerMaintenance(w, s, actions)
      PROVE  JobsTyped(job')
  <2>1. \/ job' = jobs
        \/ \E i \in Intents : job' = [jobs EXCEPT ![i] = Leased(jobs[i], s)]
    BY <1>4 DEF ClaimWorkerMaintenance, Claimable
  <2> HIDE DEF jobs
  <2>2. \A i \in Intents : Leased(jobs[i], s) \in JobRow
    BY <1>1, LeasedRow DEF JobsTyped
  <2> QED BY <1>1, <2>1, <2>2 DEF JobsTyped
<1>5. ASSUME NEW w \in Workers, NEW force, LeaveWorker(w, force)
      PROVE  JobsTyped(job')
  <2> DEFINE S == {i \in Intents : Target[i] = w}
  <2>1. job' = [i \in Intents |-> IF i \in S THEN Withdraw(job[i]) ELSE job[i]]
    BY <1>5 DEF LeaveWorker
  <2> QED BY Zenon, <2>1, WithdrawnCalm DEF Calms
<1>6. CASE SweepExpired
  BY <1>1, <1>6 DEF SweepExpired
<1> QED BY <1>2, <1>3, <1>4, <1>5, <1>6, JobSteps

\* The rows of the jobs have their types in every behaviour.
THEOREM JobRowsTyped == Spec => []JobsTyped(job)
<1>1. Init => JobsTyped(job)
  BY DEF Init, JobsTyped, NoJob, JobRow
<1>2. JobsTyped(job) /\ [Next]_vars => JobsTyped(job)'
  <2> SUFFICES ASSUME JobsTyped(job), [Next]_vars PROVE JobsTyped(job')
    OBVIOUS
  <2>1. CASE JobStep
    BY <2>1, JobStepTyped
  <2>2. CASE SchedulerStep \/ UNCHANGED vars
    BY Zenon, <2>2 DEF SchedulerStep, jobVars, vars
  <2> QED BY <2>1, <2>2 DEF Next
<1> QED BY <1>1, <1>2, PTL DEF Spec

\* The scheduler's own transactions see the jobs unchanged.
LEMMA SchedulerStepRefines ==
    ASSUME SchedulerStep
    PROVE  TL!Next
  BY Zenon DEF SchedulerStep, TL!Next

\* Jobs and scheduler together implement the scheduler: what TaskLifecycle
\* promises holds whatever is created, claimed, adopted, withdrawn and
\* expired, since every transaction on the jobs is, for it, a change of the
\* one state per Worker that it reads.
THEOREM JobsImplementMaintenance == Spec => SchedulerRefined
<1>1. Init => TL!Init
  BY DEF Init
<1>2. JobsTyped(job) /\ [Next]_vars => [TL!Next]_(TL!vars)
  <2> SUFFICES ASSUME JobsTyped(job), [Next]_vars PROVE [TL!Next]_(TL!vars)
    OBVIOUS
  <2>1. CASE JobStep
    BY <2>1, JobStepRefines
  <2>2. CASE SchedulerStep
    BY <2>2, SchedulerStepRefines
  <2>3. CASE UNCHANGED vars
    <3>1. db' = db /\ SeenByScheduler' = SeenByScheduler
      BY <2>3, Seen DEF vars, jobVars
    <3> QED BY <3>1 DEF TL!vars
  <2> QED BY <2>1, <2>2, <2>3 DEF Next
<1> QED BY <1>1, <1>2, JobRowsTyped, PTL DEF Spec, SchedulerRefined, TL!Spec

-----------------------------------------------------------------------------
(* What the scheduler's transactions do to the Workers *)

\* The tables of the scheduler, and the types of the Workers' rows.
Shape(d) ==
    /\ d = [task |-> d.task, att |-> d.att, wrk |-> d.wrk, env |-> d.env]
    /\ d.wrk \in [Workers -> TL!WorkerRow]

\* A Worker that may work still may.
WorkersKept(d, e) ==
    /\ Shape(e)
    /\ \A w \in Workers : d.wrk[w].status = "active" => e.wrk[w].status = "active"

\* What is kept over two transactions.
LEMMA KeptTransitive ==
    ASSUME NEW d, NEW e, NEW f, WorkersKept(d, e), WorkersKept(e, f)
    PROVE  WorkersKept(d, f)
  BY DEF WorkersKept

\* A transaction on one of the other tables: the attempts.
LEMMA AttTable ==
    ASSUME NEW d, Shape(d), NEW A
    PROVE  WorkersKept(d, [d EXCEPT !.att = A])
<1>1. [d EXCEPT !.att = A] = [task |-> d.task, att |-> A, wrk |-> d.wrk, env |-> d.env]
  BY DEF Shape
<1> QED BY <1>1 DEF Shape, WorkersKept

\* The tasks table.
LEMMA TaskTable ==
    ASSUME NEW d, Shape(d), NEW T
    PROVE  WorkersKept(d, [d EXCEPT !.task = T])
<1>1. [d EXCEPT !.task = T] = [task |-> T, att |-> d.att, wrk |-> d.wrk, env |-> d.env]
  BY DEF Shape
<1> QED BY <1>1 DEF Shape, WorkersKept

\* The key envelopes.
LEMMA EnvTable ==
    ASSUME NEW d, Shape(d), NEW V
    PROVE  WorkersKept(d, [d EXCEPT !.env = V])
<1>1. [d EXCEPT !.env = V] = [task |-> d.task, att |-> d.att, wrk |-> d.wrk, env |-> V]
  BY DEF Shape
<1> QED BY <1>1 DEF Shape, WorkersKept

\* A transaction on attempts and tasks.
LEMMA AttTaskTables ==
    ASSUME NEW d, Shape(d), NEW A, NEW T
    PROVE  WorkersKept(d, [d EXCEPT !.att = A, !.task = T])
<1> DEFINE m == [d EXCEPT !.att = A]
<1>1. WorkersKept(d, m)
  BY AttTable
<1>2. [d EXCEPT !.att = A, !.task = T] = [m EXCEPT !.task = T]
  BY Zenon
<1> HIDE DEF m
<1>3. WorkersKept(m, [m EXCEPT !.task = T])
  BY <1>1, TaskTable DEF WorkersKept
<1>4. WorkersKept(d, [m EXCEPT !.task = T])
  BY <1>1, <1>3, KeptTransitive
<1> QED BY <1>2, <1>4

\* A transaction on tasks and key envelopes.
LEMMA TaskEnvTables ==
    ASSUME NEW d, Shape(d), NEW T, NEW V
    PROVE  WorkersKept(d, [d EXCEPT !.task = T, !.env = V])
<1> DEFINE m == [d EXCEPT !.task = T]
<1>1. WorkersKept(d, m)
  BY TaskTable
<1>2. [d EXCEPT !.task = T, !.env = V] = [m EXCEPT !.env = V]
  BY Zenon
<1> HIDE DEF m
<1>3. WorkersKept(m, [m EXCEPT !.env = V])
  BY <1>1, EnvTable DEF WorkersKept
<1>4. WorkersKept(d, [m EXCEPT !.env = V])
  BY <1>1, <1>3, KeptTransitive
<1> QED BY <1>2, <1>4

\* A transaction on a Worker's row.
LEMMA WorkerTable ==
    ASSUME NEW d, Shape(d), NEW w \in Workers, NEW r \in TL!WorkerRow
    PROVE  LET e == [d EXCEPT !.wrk = [d.wrk EXCEPT ![w] = r]] IN
           /\ Shape(e)
           /\ (d.wrk[w].status = "active" => r.status = "active") => WorkersKept(d, e)
<1> DEFINE W == [d.wrk EXCEPT ![w] = r]
<1>1. /\ W \in [Workers -> TL!WorkerRow]
      /\ \A v \in Workers : W[v] = IF v = w THEN r ELSE d.wrk[v]
  BY DEF Shape
<1> HIDE DEF W
<1> DEFINE e == [d EXCEPT !.wrk = W]
<1>2. e = [task |-> d.task, att |-> d.att, wrk |-> W, env |-> d.env]
  BY DEF Shape
<1> HIDE DEF e
<1>3. Shape(e) /\ e.wrk = W
  BY <1>1, <1>2 DEF Shape
<1>4. (d.wrk[w].status = "active" => r.status = "active") => WorkersKept(d, e)
  BY <1>1, <1>3 DEF WorkersKept
<1> QED BY <1>3, <1>4 DEF W, e

\* _finalize_drained_workers revokes draining Workers only.
LEMMA FinalizeKeepsWorkers ==
    ASSUME NEW d, Shape(d)
    PROVE  WorkersKept(d, TL!FinalizeDrained(d))
<1> DEFINE W == [w \in Workers |->
                    IF /\ d.wrk[w].status = "draining"
                       /\ TL!AttemptsOn(d, w, TL!OpenStates) = {}
                    THEN [d.wrk[w] EXCEPT !.status = "revoked"]
                    ELSE d.wrk[w]]
<1>1. \A w \in Workers : /\ [d.wrk[w] EXCEPT !.status = "revoked"] \in TL!WorkerRow
                         /\ d.wrk[w] \in TL!WorkerRow
  BY DEF Shape, TL!WorkerRow
<1>2. /\ W \in [Workers -> TL!WorkerRow]
      /\ \A w \in Workers : d.wrk[w].status = "active" => W[w].status = "active"
  BY <1>1
<1>3. TL!FinalizeDrained(d) = [d EXCEPT !.wrk = W]
  BY DEF TL!FinalizeDrained
<1> HIDE DEF W
<1> QED BY <1>2, <1>3 DEF Shape, WorkersKept

\* The expiries.
LEMMA ExpiredKeepsWorkers ==
    ASSUME NEW d, Shape(d)
    PROVE  /\ WorkersKept(d, TL!ExpireReservations(d))
           /\ WorkersKept(d, TL!ExpireLeases(d))
           /\ WorkersKept(d, TL!Expired(d))
<1>1. ASSUME NEW c, Shape(c) PROVE WorkersKept(c, TL!ExpireReservations(c))
  BY Zenon, <1>1, AttTaskTables DEF TL!ExpireReservations
<1>2. ASSUME NEW c, Shape(c) PROVE WorkersKept(c, TL!ExpireLeases(c))
  <2>1. PICK A, T : TL!ExpireLeases(c) = TL!FinalizeDrained([c EXCEPT !.att = A, !.task = T])
    BY ZenonT(30) DEF TL!ExpireLeases
  <2> DEFINE e == [c EXCEPT !.att = A, !.task = T]
  <2>2. WorkersKept(c, e)
    BY Zenon, <1>2, AttTaskTables
  <2> HIDE DEF e
  <2>3. WorkersKept(e, TL!FinalizeDrained(e))
    BY <2>2, FinalizeKeepsWorkers DEF WorkersKept
  <2> QED BY SMTT(30), <2>1, <2>2, <2>3, KeptTransitive DEF e
<1> DEFINE e == TL!ExpireReservations(d)
<1>3. WorkersKept(d, e)
  BY <1>1
<1> HIDE DEF e
<1>4. WorkersKept(e, TL!ExpireLeases(e))
  BY <1>2, <1>3 DEF WorkersKept
<1>5. WorkersKept(d, TL!ExpireLeases(e))
  BY <1>3, <1>4, KeptTransitive
<1> QED BY SMTT(30), <1>1, <1>2, <1>5 DEF TL!Expired, e

\* A reservation counts a token of its Worker.
LEMMA ReserveKeepsWorkers ==
    ASSUME NEW d, Shape(d), NEW t, NEW n, NEW w \in Workers, NEW k
    PROVE  WorkersKept(d, [TL!Reserve(d, t, n, w) EXCEPT !.task[t] = k])
<1> DEFINE r == [d.wrk[w] EXCEPT !.counter = @ + 1]
<1>1. r \in TL!WorkerRow /\ r.status = d.wrk[w].status
  BY DEF Shape, TL!WorkerRow
<1> DEFINE m == [d EXCEPT !.wrk = [d.wrk EXCEPT ![w] = r]]
<1>2. PICK A : TL!Reserve(d, t, n, w) = [m EXCEPT !.att = A]
  BY Zenon DEF TL!Reserve
<1> HIDE DEF r
<1>3. WorkersKept(d, m)
  BY <1>1, WorkerTable
<1> HIDE DEF m
<1> DEFINE e == [m EXCEPT !.att = A]
<1>4. Shape(m)
  BY <1>3 DEF WorkersKept
<1>5. WorkersKept(m, e)
  BY <1>4, AttTable
<1>6. [TL!Reserve(d, t, n, w) EXCEPT !.task[t] = k] =
         [e EXCEPT !.task = [e.task EXCEPT ![t] = k]]
  BY Zenon, <1>2
<1> HIDE DEF e
<1>7. Shape(e)
  BY <1>5 DEF WorkersKept
<1>8. WorkersKept(e, [e EXCEPT !.task = [e.task EXCEPT ![t] = k]])
  BY <1>7, TaskTable
<1>9. WorkersKept(d, [e EXCEPT !.task = [e.task EXCEPT ![t] = k]])
  BY <1>3, <1>5, <1>8, KeptTransitive
<1> QED BY <1>6, <1>9

\* So does a grant.
LEMMA GrantKeepsWorkers ==
    ASSUME NEW d, Shape(d), NEW t, NEW n, NEW w \in Workers
    PROVE  WorkersKept(d, TL!Grant(d, t, n, w))
<1> DEFINE r == [d.wrk[w] EXCEPT !.counter = @ + 1]
<1>1. r \in TL!WorkerRow /\ r.status = d.wrk[w].status
  BY DEF Shape, TL!WorkerRow
<1> DEFINE m == [d EXCEPT !.wrk = [d.wrk EXCEPT ![w] = r]]
<1>2. PICK B, T : TL!Grant(d, t, n, w) = [m EXCEPT !.att = B, !.task = T]
  <2> DEFINE g == [m EXCEPT !.att[t][n] = [@ EXCEPT !.state = "leased", !.lease = "live",
                                                    !.fence = d.wrk[w].counter + 1]]
  <2>1. TL!Grant(d, t, n, w) = [g EXCEPT !.task[t].state = "reserved"]
    BY Zenon DEF TL!Grant
  <2>2. PICK B : g = [m EXCEPT !.att = B]
    BY Zenon
  <2> HIDE DEF g
  <2>3. PICK T : [g EXCEPT !.task[t].state = "reserved"] = [g EXCEPT !.task = T]
    BY Zenon
  <2> QED BY Zenon, <2>1, <2>2, <2>3
<1> HIDE DEF r
<1>3. WorkersKept(d, m)
  BY <1>1, WorkerTable
<1> HIDE DEF m
<1>4. Shape(m)
  BY <1>3 DEF WorkersKept
<1>5. WorkersKept(m, [m EXCEPT !.att = B, !.task = T])
  BY Zenon, <1>4, AttTaskTables
<1> QED BY <1>2, <1>3, <1>5, KeptTransitive

\* No transaction of the scheduler that leaves the jobs alone takes an active
\* Worker out of service.
LEMMA SchedulerKeepsWorkers ==
    ASSUME Shape(db), SchedulerStep
    PROVE  WorkersKept(db, db')
<1>1. ASSUME NEW t \in Tasks, NEW w \in Workers, TL!PrepareTask(t, w)
      PROVE  WorkersKept(db, db')
  <2> DEFINE d == TL!Expired(db)
  <2>1. WorkersKept(db, d)
    BY ExpiredKeepsWorkers
  <2>2. PICK k : db' = [TL!Reserve(d, t, 1, w) EXCEPT !.task[t] = k]
    BY Zenon, <1>1 DEF TL!PrepareTask
  <2> HIDE DEF d
  <2>3. WorkersKept(d, db')
    BY <2>1, <2>2, ReserveKeepsWorkers DEF WorkersKept
  <2> QED BY <2>1, <2>3, KeptTransitive
<1>2. ASSUME NEW t \in Tasks, NEW w \in Workers, TL!PrepareRetry(t, w)
      PROVE  WorkersKept(db, db')
  <2> DEFINE d == TL!ExpireReservations(db)
  <2>1. WorkersKept(db, d)
    BY ExpiredKeepsWorkers
  <2>2. PICK n, k : db' = [TL!Reserve(d, t, n, w) EXCEPT !.task[t] = k]
    BY ZenonT(30), <1>2 DEF TL!PrepareRetry
  <2> HIDE DEF d
  <2>3. WorkersKept(d, db')
    BY SMTT(30), <2>1, <2>2, ReserveKeepsWorkers DEF WorkersKept
  <2> QED BY <2>1, <2>3, KeptTransitive
<1>3. ASSUME NEW t \in Tasks,
             \/ TL!CommitTask(t) \/ TL!CancelTask(t) \/ TL!ReservationLapses(t)
             \/ \E w \in Workers : TL!CommitRekey(t, w)
      PROVE  WorkersKept(db, db')
  <2>1. \/ \E T, V : db' = [db EXCEPT !.task = T, !.env = V]
        \/ \E A, T : db' = [db EXCEPT !.att = A, !.task = T]
        \/ \E T : db' = [db EXCEPT !.task = T]
    BY ZenonT(30), <1>3 DEF TL!CommitTask, TL!CancelTask, TL!ReservationLapses, TL!CommitRekey
  <2>2. ASSUME NEW A, NEW T, db' = [db EXCEPT !.att = A, !.task = T]
        PROVE  WorkersKept(db, db')
    BY ZenonT(30), <2>2, AttTaskTables
  <2>3. ASSUME NEW T, NEW V, db' = [db EXCEPT !.task = T, !.env = V]
        PROVE  WorkersKept(db, db')
    BY Zenon, <2>3, TaskEnvTables
  <2>4. ASSUME NEW T, db' = [db EXCEPT !.task = T]
        PROVE  WorkersKept(db, db')
    BY SMTT(30), <2>4, TaskTable
  <2> QED BY Zenon, <2>1, <2>2, <2>3, <2>4
<1>4. ASSUME NEW t \in Tasks, NEW n,
             TL!LeaseLapses(t, n) \/ \E f, started : TL!HeartbeatAttempt(t, n, f, started)
      PROVE  WorkersKept(db, db')
  <2>1. \/ \E A, T : db' = [db EXCEPT !.att = A, !.task = T]
        \/ \E A : db' = [db EXCEPT !.att = A]
        \/ db' = db
    BY Zenon, <1>4 DEF TL!LeaseLapses, TL!HeartbeatAttempt
  <2>2. WorkersKept(db, db)
    BY SMTT(30) DEF WorkersKept
  <2>3. ASSUME NEW A, NEW T, db' = [db EXCEPT !.att = A, !.task = T]
        PROVE  WorkersKept(db, db')
    BY Zenon, <2>3, AttTaskTables
  <2>4. ASSUME NEW A, db' = [db EXCEPT !.att = A]
        PROVE  WorkersKept(db, db')
    BY <2>4, AttTable
  <2> QED BY ZenonT(30), <2>1, <2>2, <2>3, <2>4
<1>5. ASSUME NEW t \in Tasks, NEW n, NEW f, NEW report, TL!FinishAttempt(t, n, f, report)
      PROVE  WorkersKept(db, db')
  <2>1. PICK A, T : LET d == [db EXCEPT !.att = A, !.task = T] IN
                    db' = d \/ db' = TL!FinalizeDrained(d)
    BY ZenonT(30), <1>5 DEF TL!FinishAttempt
  <2> DEFINE d == [db EXCEPT !.att = A, !.task = T]
  <2>2. WorkersKept(db, d)
    BY Zenon, AttTaskTables
  <2>3. db' = d \/ db' = TL!FinalizeDrained(d)
    BY <2>1
  <2> HIDE DEF d
  <2> QED BY SMTT(30), <2>2, <2>3, FinalizeKeepsWorkers, KeptTransitive DEF WorkersKept
<1>6. ASSUME NEW w \in Workers,
             TL!WorkerHeartbeat(w) \/ TL!OfferWorker(w) \/ TL!ApproveAllocation(w)
      PROVE  WorkersKept(db, db')
  <2> DEFINE a == [db.wrk[w] EXCEPT !.status = "active"]
             b == [db.wrk[w] EXCEPT !.alloc = FALSE]
             c == [db.wrk[w] EXCEPT !.alloc = TRUE]
  <2>1. \A r \in {a, b, c} : r \in TL!WorkerRow /\ r.status \in {"active", db.wrk[w].status}
    BY Zenon DEF Shape, TL!WorkerRow
  <2>2. \E r \in {a, b, c} : db' = [db EXCEPT !.wrk = [db.wrk EXCEPT ![w] = r]]
    BY <1>6 DEF TL!WorkerHeartbeat, TL!OfferWorker, TL!ApproveAllocation
  <2> HIDE DEF a, b, c
  <2>3. PICK r \in TL!WorkerRow : /\ r.status \in {"active", db.wrk[w].status}
                                  /\ db' = [db EXCEPT !.wrk = [db.wrk EXCEPT ![w] = r]]
    BY Zenon, <2>1, <2>2
  <2> QED BY <2>3, WorkerTable
<1>7. ASSUME NEW w \in Workers, TL!Lease(w)
      PROVE  WorkersKept(db, db')
  <2> DEFINE d == TL!Expired(db)
  <2>1. WorkersKept(db, d)
    BY ExpiredKeepsWorkers
  <2>2. db' = d \/ \E t, n : db' = TL!Grant(d, t, n, w)
    BY <1>7 DEF TL!Lease
  <2> HIDE DEF d
  <2>3. Shape(d)
    BY <2>1 DEF WorkersKept
  <2>4. CASE db' = d
    BY <2>1, <2>4
  <2>5. ASSUME NEW t, NEW n, db' = TL!Grant(d, t, n, w)
        PROVE  WorkersKept(db, db')
    <3>1. WorkersKept(d, TL!Grant(d, t, n, w))
      BY <2>3, GrantKeepsWorkers
    <3> QED BY <2>1, <2>5, <3>1, KeptTransitive
  <2> QED BY <2>2, <2>4, <2>5
<1>8. CASE TL!BrokerDeviceHeartbeat
  BY <1>8, ExpiredKeepsWorkers DEF TL!BrokerDeviceHeartbeat
<1> QED BY ZenonT(30), <1>1, <1>2, <1>3, <1>4, <1>5, <1>6, <1>7, <1>8 DEF SchedulerStep

\* leave_worker changes the row of the Worker that leaves.
LEMMA LeftKeepsOthers ==
    ASSUME NEW d, Shape(d), NEW w \in Workers, NEW force
    PROVE  /\ Shape(TL!Left(d, w, force))
           /\ \A v \in Workers : v # w /\ d.wrk[v].status = "active" =>
                 TL!Left(d, w, force).wrk[v].status = "active"
<1> DEFINE p == TL!ExpirePrepared(d, w)
           q == IF force THEN TL!Evict(p, w) ELSE TL!Requeue(p, w)
           s == IF force \/ TL!AttemptsOn(d, w, TL!LiveStates) = {}
                THEN "revoked" ELSE "draining"
           r == [q.wrk[w] EXCEPT !.status = s, !.alloc = FALSE]
<1>1. WorkersKept(d, p)
  BY Zenon, AttTaskTables DEF TL!ExpirePrepared
<1> HIDE DEF p
<1>2. WorkersKept(p, TL!Evict(p, w)) /\ WorkersKept(p, TL!Requeue(p, w))
  <2>1. Shape(p)
    BY <1>1 DEF WorkersKept
  <2>2. WorkersKept(p, TL!Evict(p, w))
    BY Zenon, <2>1, AttTaskTables DEF TL!Evict
  <2>3. WorkersKept(p, TL!Requeue(p, w))
    BY Zenon, <2>1, AttTaskTables DEF TL!Requeue
  <2> QED BY <2>2, <2>3
<1>3. WorkersKept(d, q)
  BY <1>1, <1>2, KeptTransitive
<1>4. TL!Left(d, w, force) = [q EXCEPT !.wrk[w].status = s, !.wrk[w].alloc = FALSE]
  BY DEF TL!Left, p
<1>5. s \in {"revoked", "draining"}
  OBVIOUS
<1> HIDE DEF q, s
<1>6. r \in TL!WorkerRow
  BY Zenon, <1>3, <1>5 DEF WorkersKept, Shape, TL!WorkerRow
<1>7. TL!Left(d, w, force) = [q EXCEPT !.wrk = [q.wrk EXCEPT ![w] = r]]
  BY Zenon, <1>3, <1>4 DEF WorkersKept, Shape
<1> HIDE DEF r
<1>8. Shape([q EXCEPT !.wrk = [q.wrk EXCEPT ![w] = r]])
  BY SMTT(30), <1>3, <1>6, WorkerTable DEF WorkersKept
<1>9. \A v \in Workers : v # w => TL!Left(d, w, force).wrk[v] = q.wrk[v]
  BY <1>3, <1>7 DEF WorkersKept, Shape
<1> QED BY SMTT(30), <1>3, <1>7, <1>8, <1>9 DEF WorkersKept

-----------------------------------------------------------------------------
(* The jobs in force *)

\* ActiveJobsInForce, as a predicate of the tables.
InForce(jobs, d, gone, mgr) ==
    /\ \A i \in Intents : jobs[i].state \in ActiveStates =>
         Device[i] \notin gone /\ mgr[Target[i]] = Broker[i]
    /\ \A i \in Intents : jobs[i].state \in HeldStates => d.wrk[Target[i]].status = "active"
    /\ \A i, k \in Intents : i # k /\ Target[i] = Target[k] =>
         /\ ~(jobs[i].state \in HeldStates /\ jobs[k].state \in HeldStates)
         /\ ~(/\ jobs[i].state \in ActiveStates /\ jobs[k].state \in ActiveStates
              /\ Subject[i] = Subject[k]
              /\ Kind[i] = "worker_update" /\ Kind[k] = "worker_update")

\* An intent that has a job and is not over has a receipt.
Receipted(jobs, rec) ==
    /\ rec \in [Intents -> Intents \cup {NoIntent}]
    /\ \A i \in Intents : jobs[i].state # "absent" /\ jobs[i].intent = "live" =>
         rec[i] # NoIntent

\* The inductive invariant of the maintenance jobs.
MInv ==
    /\ JobsTyped(job)
    /\ Shape(db)
    /\ manager \in [Workers -> Brokers]
    /\ grant \in [Intents -> {"none", "active", "revoked"}]
    /\ Receipted(job, receipt)
    /\ InForce(job, db, revoked, manager)

\* What a step does to jobs that are over, and to jobs that are held.
Fenced(jobs, later) ==
    \A i \in Intents :
        /\ jobs[i].state \in DoneStates => later[i].state = jobs[i].state
        /\ /\ jobs[i].state \in HeldStates /\ later[i].state \in HeldStates
           /\ later[i].session # jobs[i].session
           => \/ later[i].fence > jobs[i].fence
              \/ Kind[i] = "worker_update" /\ jobs[i].state = "restarting"

\* Calming the jobs keeps the others in force, as long as no Worker is taken
\* out of service.
LEMMA CalmInForce ==
    ASSUME NEW jobs, NEW later, Calms(jobs, later), NEW d, NEW e, WorkersKept(d, e),
           NEW gone, NEW mgr, InForce(jobs, d, gone, mgr)
    PROVE  InForce(later, e, gone, mgr) /\ Fenced(jobs, later)
<1>1. \A i \in Intents :
        /\ later[i].state \in HeldStates => jobs[i].state \in HeldStates
        /\ later[i].state \in ActiveStates => jobs[i].state \in ActiveStates
        /\ Target[i] \in Workers
  BY IntentsAssumption DEF Calms, Calmer
<1>2. InForce(later, e, gone, mgr)
  BY <1>1 DEF InForce, WorkersKept
<1>3. Fenced(jobs, later)
  BY DEF Fenced, Calms, Calmer
<1> QED BY <1>2, <1>3

\* Receipts stay while intents do.
LEMMA CalmReceipts ==
    ASSUME NEW jobs, NEW later, Calms(jobs, later), NEW rec, Receipted(jobs, rec)
    PROVE  Receipted(later, rec)
  BY DEF Receipted, Calms, Calmer

\* The authority that the active jobs rest on is still there.
AuthorityKept(later, d, e, gone, now, mgr, new) ==
    \A i \in Intents : later[i].state \in ActiveStates =>
        /\ Device[i] \notin gone => Device[i] \notin now
        /\ new[Target[i]] = mgr[Target[i]]
        /\ d.wrk[Target[i]].status = "active" => e.wrk[Target[i]].status = "active"

\* revoke_device, set_worker_manager and leave_worker withdraw authority only
\* together with the jobs that rest on it.
LEMMA AuthorityInForce ==
    ASSUME NEW jobs, NEW later, Calms(jobs, later), NEW d, NEW e,
           NEW gone, NEW now, NEW mgr, NEW new, InForce(jobs, d, gone, mgr),
           AuthorityKept(later, d, e, gone, now, mgr, new)
    PROVE  InForce(later, e, now, new) /\ Fenced(jobs, later)
<1>1. \A i \in Intents :
        /\ later[i].state \in HeldStates => jobs[i].state \in HeldStates
        /\ later[i].state \in ActiveStates => jobs[i].state \in ActiveStates
        /\ later[i].state \in HeldStates => later[i].state \in ActiveStates
  BY DEF Calms, Calmer, ActiveStates
<1>2. InForce(later, e, now, new)
  BY <1>1 DEF InForce, AuthorityKept
<1>3. Fenced(jobs, later)
  BY DEF Fenced, Calms, Calmer
<1> QED BY <1>2, <1>3

\* A calm step of the jobs.
LEMMA CalmStepKeeps ==
    ASSUME MInv, CalmStep
    PROVE  MInv' /\ Fenced(job, job')
<1>1. Calms(job, job') /\ db' = db
  BY CalmSteps DEF MInv
<1>2. WorkersKept(db, db') /\ Shape(db')
  BY <1>1 DEF WorkersKept, MInv
<1>3. JobsTyped(job')
  BY <1>1 DEF Calms
<1>4. CASE UNCHANGED <<receipt, revoked, manager>> /\ grant' \in [Intents -> {"none", "active", "revoked"}]
  BY <1>1, <1>2, <1>3, <1>4, CalmInForce, CalmReceipts DEF MInv
<1>5. ASSUME NEW i \in Intents,
             \/ UploadSucceeds(i) \/ UploadFails(i) \/ CancelWorkerMaintenance(i)
             \/ JobLeaseLapses(i) \/ IntentLapses(i)
      PROVE  MInv' /\ Fenced(job, job')
  BY <1>4, <1>5 DEF UploadSucceeds, UploadFails, CancelWorkerMaintenance, JobLeaseLapses,
                    IntentLapses, MInv
<1>6. ASSUME NEW i \in Intents, NEW f, NEW s, NEW state, NEW adopt,
             HeartbeatWorkerMaintenance(i, f, s, state, adopt)
      PROVE  MInv' /\ Fenced(job, job')
  <2>1. UNCHANGED <<receipt, revoked, manager, grant>>
    BY Zenon, <1>6 DEF HeartbeatWorkerMaintenance
  <2> QED BY <1>4, <2>1 DEF MInv
<1>7. ASSUME NEW i \in Intents, NEW f, NEW s, NEW succeeded, NEW rolledBack,
             CompleteWorkerMaintenance(i, f, s, succeeded, rolledBack)
      PROVE  MInv' /\ Fenced(job, job')
  <2>1. /\ UNCHANGED <<receipt, revoked, manager>>
        /\ grant' = grant \/ grant' = [grant EXCEPT ![i] = "active"]
    BY Zenon, <1>7 DEF CompleteWorkerMaintenance
  <2> QED BY <1>4, <2>1 DEF MInv
<1>8. ASSUME NEW w \in Workers, NEW broker \in Brokers, SetWorkerManager(w, broker)
      PROVE  MInv' /\ Fenced(job, job')
  <2>1. /\ job' = job /\ UNCHANGED <<receipt, revoked, grant>>
        /\ manager' = [manager EXCEPT ![w] = broker]
        /\ \A i \in Intents : Target[i] = w => job[i].state \notin ActiveStates
    BY <1>8 DEF SetWorkerManager, Active
  <2>2. \A i \in Intents : Target[i] # w => manager'[Target[i]] = manager[Target[i]]
    BY <2>1, IntentsAssumption DEF MInv
  <2>3. /\ InForce(job, db, revoked, manager)
        /\ AuthorityKept(job', db, db', revoked, revoked', manager, manager')
    BY <1>1, <2>1, <2>2 DEF MInv, AuthorityKept
  <2>4. InForce(job', db', revoked', manager') /\ Fenced(job, job')
    BY <1>1, <2>3, AuthorityInForce
  <2>5. Receipted(job', receipt')
    BY <2>1 DEF MInv
  <2>6. manager' \in [Workers -> Brokers]
    BY <2>1 DEF MInv
  <2> QED BY <1>2, <1>3, <2>1, <2>4, <2>5, <2>6 DEF MInv
<1>9. ASSUME NEW w, NEW workflow, NEW source, DeactivateWorkerWorkflow(w, workflow, source)
      PROVE  MInv' /\ Fenced(job, job')
  <2>1. /\ UNCHANGED <<receipt, revoked, manager>>
        /\ \E S : grant' = [i \in Intents |-> IF i \in S /\ grant[i] = "active"
                                              THEN "revoked" ELSE grant[i]]
    BY Zenon, <1>9 DEF DeactivateWorkerWorkflow
  <2>2. grant' \in [Intents -> {"none", "active", "revoked"}]
    BY <2>1 DEF MInv
  <2> QED BY <1>4, <2>1, <2>2
<1>10. ASSUME NEW device, RevokeDevice(device)
       PROVE  MInv' /\ Fenced(job, job')
  <2> DEFINE S == {i \in Intents : Device[i] = device}
  <2>1. /\ job' = [i \in Intents |-> IF i \in S THEN Withdraw(job[i]) ELSE job[i]]
        /\ revoked' = revoked \cup {device} /\ UNCHANGED <<receipt, grant, manager>>
    BY <1>10 DEF RevokeDevice
  <2>2. \A i \in Intents : i \in S => job'[i].state \notin ActiveStates
    BY Zenon, <2>1, WithdrawnCalm DEF MInv
  <2>3. InForce(job', db', revoked', manager') /\ Fenced(job, job')
    <3>1. /\ InForce(job, db, revoked, manager)
          /\ AuthorityKept(job', db, db', revoked, revoked', manager, manager')
      BY <1>1, <2>1, <2>2 DEF MInv, AuthorityKept
    <3> QED BY <1>1, <3>1, AuthorityInForce
  <2>4. Receipted(job', receipt')
    BY <1>1, <2>1, CalmReceipts DEF MInv
  <2> QED BY <1>2, <1>3, <2>1, <2>3, <2>4 DEF MInv
<1>11. CASE PruneExpiredSecurityState
  <2>1. /\ UNCHANGED <<grant, revoked, manager>>
        /\ receipt' = [i \in Intents |-> IF job[i].intent = "lapsed" THEN NoIntent
                                         ELSE receipt[i]]
    BY <1>11 DEF PruneExpiredSecurityState
  <2>2. \A i \in Intents : job'[i].intent = "live" => job[i].intent = "live"
    BY <1>1 DEF Calms, Calmer
  <2>3. Receipted(job', receipt)
    BY <1>1, CalmReceipts DEF MInv
  <2>4. Receipted(job', receipt')
    BY <2>1, <2>2, <2>3 DEF Receipted
  <2>5. InForce(job', db', revoked', manager') /\ Fenced(job, job')
    BY <1>1, <1>2, <2>1, CalmInForce DEF MInv
  <2> QED BY <1>2, <1>3, <2>1, <2>4, <2>5 DEF MInv
<1>12. ASSUME NEW i \in Intents,
              \E f \in 1..job[i].fence, s \in Sessions :
                \/ \E state \in {"running", "restarting"}, adopt \in BOOLEAN :
                    HeartbeatWorkerMaintenance(i, f, s, state, adopt)
                \/ \E succeeded, rolledBack \in BOOLEAN :
                    CompleteWorkerMaintenance(i, f, s, succeeded, rolledBack)
       PROVE  MInv' /\ Fenced(job, job')
  BY Zenon, <1>6, <1>7, <1>12
<1>13. ASSUME NEW w \in Workers,
              \/ \E broker \in Brokers : SetWorkerManager(w, broker)
              \/ \E i \in Intents, source \in Intents \cup {NoIntent} :
                    DeactivateWorkerWorkflow(w, Subject[i], source)
       PROVE  MInv' /\ Fenced(job, job')
  BY Zenon, <1>8, <1>9, <1>13
<1> QED BY ZenonT(30), <1>5, <1>10, <1>11, <1>12, <1>13 DEF CalmStep

\* create_worker_maintenance: the device and the manager were checked in the
\* same transaction, and no other update to the same version is active.
LEMMA CreateKeeps ==
    ASSUME MInv, NEW i \in Intents, CreateWorkerMaintenance(i)
    PROVE  MInv' /\ Fenced(job, job')
<1> DEFINE jobs == ExpireJobs(job)
           k == NewJob(i)
<1>1. /\ db' = db /\ revoked' = revoked /\ manager' = manager /\ grant' = grant
      /\ job[i].intent = "live" /\ Device[i] \notin revoked
      /\ manager[Target[i]] = Broker[i]
  BY Zenon DEF CreateWorkerMaintenance
<1>2. WorkersKept(db, db') /\ Shape(db')
  BY <1>1 DEF WorkersKept, MInv
<1>3. Calms(job, jobs) /\ JobsTyped(jobs) /\ JobsTyped(job)
  BY ExpireJobsCalms DEF Calms, MInv
<1>4. CASE Calms(job, job') /\ (receipt' = receipt \/ \E n \in Intents :
                                     receipt' = [receipt EXCEPT ![i] = n])
  <2>1. InForce(job', db', revoked', manager') /\ Fenced(job, job')
    BY <1>1, <1>2, <1>4, CalmInForce DEF MInv
  <2>2. Receipted(job', receipt)
    BY <1>4, CalmReceipts DEF MInv
  <2>3. Receipted(job', receipt')
    BY <1>4, <2>2, IntentsAssumption DEF Receipted
  <2> QED BY <1>1, <1>2, <1>4, <2>1, <2>3 DEF MInv, Calms
<1>5. CASE /\ receipt[i] = NoIntent /\ receipt' = [receipt EXCEPT ![i] = i]
           /\ \A n \in Intents : SameWork(i, n) => jobs[n].state \notin ActiveStates
           /\ job' = [jobs EXCEPT ![i] = k]
  <2>1. k \in JobRow /\ k.state \in {"awaiting_upload", "queued"}
    BY Zenon, <1>3, NewRows DEF JobsTyped
  <2>2. job[i].state = "absent"
    BY <1>1, <1>5 DEF MInv, Receipted
  <2> HIDE DEF jobs, k
  <2>3. \A n \in Intents : job'[n] = IF n = i THEN k ELSE jobs[n]
    BY <1>3, <1>5 DEF JobsTyped
  <2>4. JobsTyped(job')
    BY <1>3, <1>5, <2>1 DEF JobsTyped
  <2>5. InForce(jobs, db', revoked', manager') /\ Fenced(job, jobs)
    BY <1>1, <1>2, <1>3, CalmInForce DEF MInv
  <2>6. /\ k.state \notin HeldStates /\ "absent" \notin DoneStates \cup HeldStates
    BY <2>1 DEF HeldStates, DoneStates
  <2>7. Fenced(job, job')
    BY <2>2, <2>3, <2>5, <2>6 DEF Fenced
  <2>8. ASSUME NEW n \in Intents, n # i, Target[n] = Target[i], Subject[n] = Subject[i],
               Kind[n] = "worker_update", Kind[i] = "worker_update"
        PROVE  job'[n].state \notin ActiveStates
    BY <1>5, <2>3, <2>8 DEF SameWork
  <2>9. InForce(job', db', revoked', manager')
    <3>1. \A n \in Intents : job'[n].state \in ActiveStates =>
            Device[n] \notin revoked' /\ manager'[Target[n]] = Broker[n]
      BY <1>1, <2>3, <2>5 DEF InForce
    <3>2. \A n \in Intents : job'[n].state \in HeldStates => n # i /\ job'[n] = jobs[n]
      BY <2>3, <2>6
    <3>3. \A n, m \in Intents : n # m /\ Target[n] = Target[m] =>
            /\ ~(job'[n].state \in HeldStates /\ job'[m].state \in HeldStates)
            /\ ~(/\ job'[n].state \in ActiveStates /\ job'[m].state \in ActiveStates
                 /\ Subject[n] = Subject[m]
                 /\ Kind[n] = "worker_update" /\ Kind[m] = "worker_update")
      BY <2>3, <2>5, <2>8, <3>2 DEF InForce
    <3>4. \A n \in Intents : job'[n].state \in HeldStates => db'.wrk[Target[n]].status = "active"
      BY <2>5, <3>2 DEF InForce
    <3> QED BY <3>1, <3>3, <3>4 DEF InForce
  <2>10. Receipted(job', receipt')
    <3>1. Receipted(jobs, receipt)
      BY <1>3, CalmReceipts DEF MInv
    <3> QED BY <1>5, <2>3, <3>1, IntentsAssumption DEF Receipted
  <2> QED BY <1>1, <1>2, <2>4, <2>7, <2>9, <2>10 DEF MInv
<1> QED BY <1>3, <1>4, <1>5, CreateSteps

\* commit_worker_maintenance queues a job that is active already.
LEMMA CommitKeeps ==
    ASSUME MInv, NEW i \in Intents, CommitWorkerMaintenance(i)
    PROVE  MInv' /\ Fenced(job, job')
<1> DEFINE jobs == ExpireJobs(job)
           k == [jobs[i] EXCEPT !.state = "queued"]
<1>1. UNCHANGED <<db, receipt, grant, revoked, manager>>
  BY DEF CommitWorkerMaintenance
<1>2. WorkersKept(db, db') /\ Shape(db')
  BY <1>1 DEF WorkersKept, MInv
<1>3. Calms(job, jobs) /\ JobsTyped(jobs) /\ JobsTyped(job)
  BY ExpireJobsCalms DEF Calms, MInv
<1>4. CASE Calms(job, job')
  BY <1>1, <1>2, <1>4, CalmInForce, CalmReceipts DEF MInv, Calms
<1>5. CASE jobs[i].state = "awaiting_upload" /\ job' = [jobs EXCEPT ![i] = k]
  <2> HIDE DEF jobs
  <2>1. k \in JobRow /\ k.state = "queued" /\ k.intent = jobs[i].intent
    BY SMTT(30), <1>3 DEF JobsTyped, JobRow, ActiveStates
  <2> HIDE DEF k
  <2>2. \A n \in Intents : job'[n] = IF n = i THEN k ELSE jobs[n]
    BY <1>3, <1>5 DEF JobsTyped
  <2>3. JobsTyped(job')
    BY <1>3, <1>5, <2>1 DEF JobsTyped
  <2>4. InForce(jobs, db', revoked', manager') /\ Fenced(job, jobs)
    BY <1>1, <1>2, <1>3, CalmInForce DEF MInv
  <2>5. \A n \in Intents :
          /\ job'[n].state \in HeldStates => jobs[n].state \in HeldStates /\ job'[n] = jobs[n]
          /\ job'[n].state \in ActiveStates => jobs[n].state \in ActiveStates
    BY <1>5, <2>1, <2>2 DEF HeldStates, ActiveStates
  <2>6. InForce(job', db', revoked', manager')
    BY <2>4, <2>5 DEF InForce
  <2>7. Fenced(job, job')
    <3>1. job[i].state \notin DoneStates
      BY <1>5, <2>4 DEF Fenced, DoneStates
    <3> QED BY <2>2, <2>4, <2>5, <3>1 DEF Fenced
  <2>8. Receipted(job', receipt')
    <3>1. Receipted(jobs, receipt)
      BY <1>3, CalmReceipts DEF MInv
    <3> QED BY <1>1, <1>5, <2>1, <2>2, <3>1 DEF Receipted
  <2> QED BY <1>1, <1>2, <2>3, <2>6, <2>7, <2>8 DEF MInv
<1> QED BY <1>3, <1>4, <1>5, CommitSteps

\* claim_worker_maintenance: the Worker may work and holds no other job, and
\* its token grows.
LEMMA ClaimKeeps ==
    ASSUME MInv, NEW w \in Workers, NEW s \in Sessions, NEW actions,
           ClaimWorkerMaintenance(w, s, actions)
    PROVE  MInv' /\ Fenced(job, job')
<1> DEFINE jobs == ExpireJobs(job)
<1>1. /\ UNCHANGED <<receipt, grant, revoked, manager>>
      /\ db' = TL!Expired(db) /\ db'.wrk[w].status = "active"
  BY DEF ClaimWorkerMaintenance
<1>2. WorkersKept(db, db') /\ Shape(db')
  BY <1>1, ExpiredKeepsWorkers DEF MInv, WorkersKept
<1>3. Calms(job, jobs) /\ JobsTyped(jobs) /\ JobsTyped(job)
  BY ExpireJobsCalms DEF Calms, MInv
<1>4. /\ InForce(jobs, db', revoked', manager') /\ Fenced(job, jobs)
      /\ Receipted(jobs, receipt')
  BY <1>1, <1>2, <1>3, CalmInForce, CalmReceipts DEF MInv
<1>5. CASE job' = jobs
  BY <1>1, <1>2, <1>3, <1>4, <1>5 DEF MInv
<1>6. CASE job' # jobs
  <2>1. NoneHeld(jobs, w) /\ \E i \in Claimable(jobs, w, actions) :
            job' = [jobs EXCEPT ![i] = Leased(jobs[i], s)]
    BY <1>6 DEF ClaimWorkerMaintenance
  <2> HIDE DEF jobs
  <2>2. PICK i \in Intents : /\ Target[i] = w /\ jobs[i].state = "queued"
                             /\ job' = [jobs EXCEPT ![i] = Leased(jobs[i], s)]
    BY Zenon, <2>1 DEF Claimable
  <2> DEFINE k == Leased(jobs[i], s)
  <2>3. /\ k \in JobRow /\ k.state = "leased" /\ k.intent = jobs[i].intent
        /\ k.fence = jobs[i].fence + 1 /\ jobs[i].fence \in Nat /\ job[i].fence \in Nat
        /\ jobs[i].fence >= job[i].fence
    <3>1. jobs[i] \in JobRow /\ job[i] \in JobRow /\ jobs[i].fence >= job[i].fence
      BY <1>3 DEF JobsTyped, Calms, Calmer
    <3>2. job[i].fence \in Nat
      BY <3>1 DEF JobRow
    <3> QED BY <3>1, <3>2, LeasedRow
  <2> HIDE DEF k
  <2>4. \A n \in Intents : job'[n] = IF n = i THEN k ELSE jobs[n]
    BY <1>3, <2>2 DEF JobsTyped, k
  <2>5. JobsTyped(job')
    BY <1>3, <2>2, <2>3 DEF JobsTyped, k
  <2>6. Receipted(job', receipt')
    BY <1>4, <2>2, <2>3, <2>4 DEF Receipted
  <2>7. Fenced(job, job')
    <3>1. k.fence > job[i].fence
      BY <2>3
    <3>2. job[i].state \notin DoneStates
      <4>1. job[i].state \in DoneStates => jobs[i].state = job[i].state
        BY <1>4 DEF Fenced
      <4> QED BY <2>2, <4>1 DEF DoneStates
    <3> QED BY <1>4, <2>4, <3>1, <3>2 DEF Fenced
  <2>8. \A n \in Intents :
          /\ job'[n].state \in ActiveStates => jobs[n].state \in ActiveStates
          /\ job'[n].state \in HeldStates => n = i \/ jobs[n].state \in HeldStates
    BY <2>2, <2>4 DEF ActiveStates
  <2>9. \A n \in Intents : n # i /\ Target[n] = w => job'[n].state \notin HeldStates
    BY <2>1, <2>4 DEF NoneHeld
  <2>10. InForce(job', db', revoked', manager')
    BY <1>1, <1>4, <2>2, <2>8, <2>9 DEF InForce
  <2> QED BY <1>1, <1>2, <2>5, <2>6, <2>7, <2>10 DEF MInv
<1> QED BY <1>5, <1>6

\* leave_worker withdraws the jobs of the Worker that leaves.
LEMMA LeaveKeeps ==
    ASSUME MInv, NEW w \in Workers, NEW force, LeaveWorker(w, force)
    PROVE  MInv' /\ Fenced(job, job')
<1> DEFINE S == {i \in Intents : Target[i] = w}
<1>1. /\ job' = [i \in Intents |-> IF i \in S THEN Withdraw(job[i]) ELSE job[i]]
      /\ db' = TL!Left(db, w, force) /\ UNCHANGED <<receipt, grant, revoked, manager>>
  BY DEF LeaveWorker
<1>2. /\ Calms(job, job') /\ JobsTyped(job')
      /\ \A i \in Intents : i \in S => job'[i].state \notin ActiveStates
  BY Zenon, <1>1, WithdrawnCalm DEF MInv, Calms
<1>3. /\ Shape(db')
      /\ \A v \in Workers : v # w /\ db.wrk[v].status = "active" =>
            db'.wrk[v].status = "active"
  BY <1>1, LeftKeepsOthers DEF MInv
<1>4. \A i \in Intents : job'[i].state \in ActiveStates => Target[i] \in Workers \ {w}
  BY <1>2, IntentsAssumption
<1>5. InForce(job', db', revoked', manager') /\ Fenced(job, job')
  <2>1. /\ Calms(job, job') /\ InForce(job, db, revoked, manager)
        /\ AuthorityKept(job', db, db', revoked, revoked', manager, manager')
    BY <1>1, <1>2, <1>3, <1>4 DEF MInv, AuthorityKept
  <2> QED BY <2>1, AuthorityInForce
<1>6. Receipted(job', receipt')
  BY <1>1, <1>2, CalmReceipts DEF MInv
<1> QED BY <1>1, <1>2, <1>3, <1>5, <1>6 DEF MInv

\* Every step keeps the invariant and the fences.
LEMMA NextMaintains ==
    ASSUME MInv, [Next]_vars
    PROVE  MInv' /\ Fenced(job, job')
<1>1. ASSUME NEW e, WorkersKept(db, e), db' = e, Calms(job, job'),
             UNCHANGED <<receipt, grant, revoked, manager>>
      PROVE  MInv' /\ Fenced(job, job')
  BY Zenon, <1>1, CalmInForce, CalmReceipts DEF MInv, Calms, WorkersKept
<1>2. CASE JobStep
  <2>1. CASE CalmStep
    BY <2>1, CalmStepKeeps
  <2>2. CASE SweepExpired
    <3>1. /\ db' = TL!Expired(db) /\ job' = ExpireJobs(job)
          /\ UNCHANGED <<receipt, grant, revoked, manager>>
      BY <2>2 DEF SweepExpired
    <3>2. WorkersKept(db, TL!Expired(db)) /\ Calms(job, ExpireJobs(job))
      BY ExpiredKeepsWorkers, ExpireJobsCalms DEF MInv
    <3> QED BY <1>1, <3>1, <3>2
  <2> QED BY <1>2, <2>1, <2>2, CreateKeeps, CommitKeeps, ClaimKeeps, LeaveKeeps, JobSteps
<1>3. CASE SchedulerStep
  <2>1. UNCHANGED <<job, receipt, grant, revoked, manager>>
    BY Zenon, <1>3 DEF SchedulerStep, jobVars
  <2>2. WorkersKept(db, db') /\ Calms(job, job)
    BY <1>3, SchedulerKeepsWorkers, SameJobsCalm DEF MInv
  <2> QED BY <1>1, <2>1, <2>2
<1>4. CASE UNCHANGED vars
  <2>1. UNCHANGED <<db, job, receipt, grant, revoked, manager>>
    BY <1>4 DEF vars, jobVars
  <2>2. WorkersKept(db, db) /\ Calms(job, job)
    BY SameJobsCalm DEF MInv, WorkersKept
  <2> QED BY <1>1, <2>1, <2>2
<1> QED BY <1>2, <1>3, <1>4 DEF Next

\* No job exists at first.
LEMMA InitMaintains == Init => MInv
<1> SUFFICES ASSUME Init PROVE MInv
  OBVIOUS
<1>1. JobsTyped(job)
  BY DEF Init, JobsTyped, NoJob, JobRow
<1>2. \A i \in Intents : job[i].state = "absent"
  BY DEF Init, NoJob
<1>3. InForce(job, db, revoked, manager)
  BY <1>2 DEF InForce, ActiveStates, HeldStates
<1>4. Receipted(job, receipt)
  BY <1>2 DEF Init, Receipted
<1>5. Shape(db)
  BY DEF Init, TL!Init, Shape, TL!WorkerRow
<1> QED BY <1>1, <1>3, <1>4, <1>5 DEF Init, MInv

\* Every transaction of the Gateway keeps the invariant of the maintenance jobs.
THEOREM MaintenanceInvariant == Spec => []MInv
<1>1. MInv /\ [Next]_vars => MInv'
  BY NextMaintains
<1> QED BY InitMaintains, <1>1, PTL DEF Spec

\* Every active job rests on a device and a delegation that are in force, is
\* held only on a Worker that may work, one per Worker, and one per update.
THEOREM JobsStayInForce == Spec => []ActiveJobsInForce
<1>1. MInv => ActiveJobsInForce
  BY DEF MInv, InForce, ActiveJobsInForce, Active, Held
<1> QED BY <1>1, MaintenanceInvariant, PTL

\* A held job changes hands only with a larger token or by an announced
\* adoption, and a job that is over keeps its outcome.
THEOREM HandoversFenced == Spec => HandoverIsFenced
<1>1. MInv /\ [Next]_vars =>
        [\A i \in Intents :
            /\ job[i].state \in DoneStates => job'[i].state = job[i].state
            /\ Held(i) /\ job'[i].state \in HeldStates /\ job'[i].session # job[i].session =>
                  \/ job'[i].fence > job[i].fence
                  \/ Kind[i] = "worker_update" /\ job[i].state = "restarting"]_vars
  BY NextMaintains DEF Fenced, Held
<1> QED BY <1>1, MaintenanceInvariant, PTL DEF Spec, HandoverIsFenced

\* Grants appear only in complete_worker_maintenance.
LEMMA GrantSteps ==
    ASSUME MInv, Next
    PROVE  \/ grant' = grant
           \/ \E S : grant' = [i \in Intents |-> IF i \in S /\ grant[i] = "active"
                                                 THEN "revoked" ELSE grant[i]]
           \/ \E i \in Intents : /\ Held(i) /\ job'[i].state = "succeeded"
                                 /\ grant[i] = "none"
                                 /\ grant' = [grant EXCEPT ![i] = "active"]
<1>1. CASE SchedulerStep
  BY Zenon, <1>1 DEF SchedulerStep, jobVars
<1>2. ASSUME NEW i \in Intents, NEW f, NEW s, NEW succeeded \in BOOLEAN, NEW rolledBack,
             CompleteWorkerMaintenance(i, f, s, succeeded, rolledBack)
      PROVE  \/ grant' = grant
             \/ \E n \in Intents : /\ Held(n) /\ job'[n].state = "succeeded"
                                   /\ grant[n] = "none"
                                   /\ grant' = [grant EXCEPT ![n] = "active"]
  <2>1. Held(i) /\ job'[i].state = IF succeeded THEN "succeeded" ELSE "failed"
    BY <1>2, CompleteCalms DEF MInv
  <2>2. \/ grant' = grant
        \/ succeeded /\ grant[i] = "none" /\ grant' = [grant EXCEPT ![i] = "active"]
    BY Zenon, <1>2 DEF CompleteWorkerMaintenance
  <2> QED BY <2>1, <2>2
<1>3. ASSUME NEW w, NEW workflow, NEW source, DeactivateWorkerWorkflow(w, workflow, source)
      PROVE  \E S : grant' = [i \in Intents |-> IF i \in S /\ grant[i] = "active"
                                                THEN "revoked" ELSE grant[i]]
  BY Zenon, <1>3 DEF DeactivateWorkerWorkflow
<1>4. ASSUME NEW i \in Intents,
             \/ UploadSucceeds(i) \/ UploadFails(i) \/ CancelWorkerMaintenance(i)
             \/ JobLeaseLapses(i) \/ IntentLapses(i)
             \/ CreateWorkerMaintenance(i) \/ CommitWorkerMaintenance(i)
             \/ \E f, s, state, adopt : HeartbeatWorkerMaintenance(i, f, s, state, adopt)
      PROVE  grant' = grant
  BY Zenon, <1>4 DEF UploadSucceeds, UploadFails, CancelWorkerMaintenance, JobLeaseLapses,
       IntentLapses, CreateWorkerMaintenance, CommitWorkerMaintenance,
       HeartbeatWorkerMaintenance
<1>5. ASSUME NEW w,
             \/ \E s, actions : ClaimWorkerMaintenance(w, s, actions)
             \/ \E broker : SetWorkerManager(w, broker)
             \/ \E force : LeaveWorker(w, force)
      PROVE  grant' = grant
  BY Zenon, <1>5 DEF ClaimWorkerMaintenance, SetWorkerManager, LeaveWorker
<1>6. ASSUME SweepExpired \/ PruneExpiredSecurityState \/ \E device : RevokeDevice(device)
      PROVE  grant' = grant
  BY Zenon, <1>6 DEF SweepExpired, PruneExpiredSecurityState, RevokeDevice
<1> QED BY ZenonT(30), <1>1, <1>2, <1>3, <1>4, <1>5, <1>6 DEF Next, JobStep

\* A grant appears with the success of its install, on a Worker that may work
\* and under authority that is in force, and once revoked it stays so.
THEOREM GrantsFollowAuthority == Spec => GrantsAreAuthorized
<1>1. ASSUME MInv, [Next]_vars, NEW i \in Intents
      PROVE  /\ grant[i] = "none" /\ grant'[i] # "none" =>
                 /\ job'[i].state = "succeeded"
                 /\ Device[i] \notin revoked
                 /\ manager[Target[i]] = Broker[i]
                 /\ db.wrk[Target[i]].status = "active"
             /\ grant[i] = "revoked" => grant'[i] = "revoked"
  <2> DEFINE Q == /\ grant[i] = "none" /\ grant'[i] # "none" =>
                      /\ job'[i].state = "succeeded"
                      /\ Device[i] \notin revoked
                      /\ manager[Target[i]] = Broker[i]
                      /\ db.wrk[Target[i]].status = "active"
                  /\ grant[i] = "revoked" => grant'[i] = "revoked"
  <2> SUFFICES Q
    OBVIOUS
  <2>1. CASE grant' = grant
    BY <2>1
  <2>2. CASE \E S : grant' = [n \in Intents |-> IF n \in S /\ grant[n] = "active"
                                                THEN "revoked" ELSE grant[n]]
    BY <2>2
  <2>3. ASSUME NEW n \in Intents, Held(n), job'[n].state = "succeeded", grant[n] = "none",
               grant' = [grant EXCEPT ![n] = "active"]
        PROVE  Q
    <3>1. grant'[i] = IF i = n THEN "active" ELSE grant[i]
      BY <1>1, <2>3 DEF MInv
    <3>2. /\ Device[n] \notin revoked /\ manager[Target[n]] = Broker[n]
          /\ db.wrk[Target[n]].status = "active"
      BY <1>1, <2>3 DEF MInv, InForce, Held, ActiveStates
    <3> QED BY <2>3, <3>1, <3>2
  <2>4. CASE UNCHANGED vars
    BY <2>4 DEF vars, jobVars
  <2> HIDE DEF Q
  <2> QED BY <1>1, <2>1, <2>2, <2>3, <2>4, GrantSteps
<1>2. MInv /\ [Next]_vars =>
        [\A i \in Intents :
            /\ grant[i] = "none" /\ grant'[i] # "none" =>
                /\ job'[i].state = "succeeded"
                /\ Device[i] \notin revoked
                /\ manager[Target[i]] = Broker[i]
                /\ db.wrk[Target[i]].status = "active"
            /\ grant[i] = "revoked" => grant'[i] = "revoked"]_vars
  BY <1>1
<1> QED BY <1>2, MaintenanceInvariant, PTL DEF Spec, GrantsAreAuthorized
=============================================================================
