----------------------------- MODULE RuntimeUpdate -----------------------------
(***************************************************************************)
(* The remote update of a Worker's runtime: the maintenance client that    *)
(* stages a release and moves the runtime pointer (worker/maintenance.py,  *)
(* worker/updater.py), the supervisor that starts the runtime the pointer  *)
(* names and rolls it back (worker/supervisor.py), the Worker's main loop  *)
(* as far as it decides how the process exits (worker/main.py), and the    *)
(* update jobs as their Worker meets them at the Gateway.                  *)
(*                                                                         *)
(* A runtime is the base an installer laid down, or a release in the       *)
(* private store; a base path is trusted only by the supervisor it belongs *)
(* to.  The pointer file is replaced atomically.  Calls to the Gateway may *)
(* lose their request or their answer, or be refused for a passing reason; *)
(* processes die, leases lapse and releases vanish: each costs one of the  *)
(* bounded faults.                                                         *)
(***************************************************************************)
EXTENDS Integers, FiniteSets

CONSTANTS
    Jobs,          \* update jobs of this Worker, at most one for a version
    Target,        \* Target[j]: the version job j updates to
    FirstBase,     \* version of the base at the start
    MaxBase,       \* newest base an installer brings
    MaxFence,      \* bound on the leases of a job
    MaxFaults,     \* bound on lost messages, crashes, lapses, lost files
    MaxRefusals,   \* bound on calls refused for a passing reason
    NoJob          \* the job of a pointer that names none

VARIABLES
    job,       \* rows of worker_maintenance_jobs
    base,      \* version of the installed base
    store,     \* versions in runtime-releases whose interpreter exists
    ptr,       \* runtime-active.json
    sup,       \* the supervisor
    proc,      \* the Worker process it runs
    faults,    \* faults left
    refusals   \* refusals left

updateVars == <<job, base, store, ptr, sup, proc, faults, refusals>>

ASSUME JobsAssumption ==
    /\ NoJob \notin Jobs
    /\ \A j, k \in Jobs : Target[j] = Target[k] => j = k
    /\ \A j \in Jobs : Target[j] \in Nat
    /\ FirstBase \in Nat /\ MaxRefusals \in Nat

HeldStates == {"leased", "running", "restarting"}

MaxAttempts == 3

Base(v) == [from |-> "base", ver |-> v]

Release(v) == [from |-> "store", ver |-> v]

NoRuntime == [from |-> "none", ver |-> 0]

NoPointer == [st |-> "none", active |-> NoRuntime, prev |-> NoRuntime,
              job |-> NoJob, fence |-> 0, verified |-> FALSE]

NoProc == [pc |-> "none", rt |-> NoRuntime, rollback |-> FALSE, code |-> 0,
           job |-> NoJob, fence |-> 0]

Down == [pc |-> "down", base |-> 0, selected |-> NoRuntime, rollback |-> FALSE,
         rollbacks |-> 0, restarts |-> 0]

UpdateInit ==
    /\ job = [j \in Jobs |-> [state |-> "queued", fence |-> 0, mine |-> FALSE,
                              lease |-> "none", result |-> "none"]]
    /\ base = FirstBase
    /\ store = {}
    /\ ptr = NoPointer
    /\ sup = Down
    /\ proc = NoProc
    /\ faults = MaxFaults
    /\ refusals = MaxRefusals

Pending == ptr.st = "pending"

Exists(rt, b) == rt = Base(b) \/ (rt.from = "store" /\ rt.ver \in store)

-----------------------------------------------------------------------------
(* The pointer as the supervisor of base b reads it *)

\* The runtime a pending activation falls back to, for a reader on base rt.
RollbackRuntime(rt) == IF ptr.prev.ver <= rt.ver THEN rt ELSE ptr.prev

TrustedBase(b) ==
    [active |-> Base(b), prev |-> NoRuntime, pending |-> FALSE, available |-> TRUE,
     verified |-> FALSE, superseded |-> FALSE]

\* A pointer that names a newer runtime than the base, which is gone.
Unreadable(b) ==
    \/ /\ Pending
       /\ ~Exists(RollbackRuntime(Base(b)), b)
    \/ /\ ptr.st \in {"settled", "rolled_back"}
       /\ ptr.active.ver > b
       /\ ~Exists(ptr.active, b)

SupervisorState(b) ==
    IF Pending
    THEN [active |-> ptr.active, prev |-> RollbackRuntime(Base(b)), pending |-> TRUE,
          available |-> Exists(ptr.active, b), verified |-> ptr.verified,
          superseded |-> ptr.active.ver < b]
    ELSE IF \/ ptr.st = "none"
            \/ ptr.st = "rolled_back" /\ ptr.active.ver <= b
            \/ ptr.active.ver < b
            \/ ~Exists(ptr.active, b)
    THEN TrustedBase(b)
    ELSE [TrustedBase(b) EXCEPT !.active = ptr.active]

-----------------------------------------------------------------------------
(* The supervisor *)

Selecting(s, rt, rollback) ==
    [s EXCEPT !.pc = "launch", !.selected = rt, !.rollback = rollback]

\* It starts as the newest base, at the first start or after it gave up: the
\* host restarts it for ever.
StartSupervisor ==
    LET s == SupervisorState(base)
        up == [Down EXCEPT !.base = base]
    IN
    /\ sup.pc = "down"
    /\ ~Unreadable(base)
    /\ \/ /\ s.pending /\ s.superseded
          /\ sup' = Selecting(up, s.prev, TRUE)
       \/ /\ s.pending /\ ~s.superseded /\ ~s.available /\ ~s.verified
          /\ sup' = Selecting(up, s.prev, TRUE)
       \/ /\ ~s.pending \/ (~s.superseded /\ s.available)
          /\ sup' = Selecting(up, s.active, FALSE)
    /\ UNCHANGED <<job, base, store, ptr, proc, faults, refusals>>

\* A verified target is started again, any other pending runtime is rolled back.
RestartVerified(s) ==
    IF ~s.available \/ sup.restarts = MaxAttempts THEN Down
    ELSE [Selecting(sup, s.active, FALSE) EXCEPT !.restarts = @ + 1, !.rollbacks = 0]

RollBackPending(s) ==
    IF sup.rollbacks = MaxAttempts THEN Down
    ELSE [Selecting(sup, s.prev, TRUE) EXCEPT !.rollbacks = @ + 1]

MayRestart(s) == s.pending /\ s.verified /\ ~sup.rollback

MayRollBack(s) == s.pending /\ sup.selected \in {s.active, s.prev}

LaunchFails(s) ==
    IF MayRestart(s) THEN RestartVerified(s)
    ELSE IF MayRollBack(s) THEN RollBackPending(s)
    ELSE Down

\* A new process has a session of its own, unless the one in the credential
\* bundle has not expired yet.
Launch ==
    /\ sup.pc = "launch"
    /\ IF Exists(sup.selected, sup.base)
       THEN /\ sup' = [sup EXCEPT !.pc = "watch"]
            /\ proc' = [NoProc EXCEPT !.pc = "recover", !.rt = sup.selected,
                                      !.rollback = sup.rollback]
            /\ \E same \in BOOLEAN :
                job' = [j \in Jobs |-> [job[j] EXCEPT !.mine = @ /\ same]]
       ELSE /\ sup' = IF Unreadable(sup.base) THEN Down
                      ELSE LaunchFails(SupervisorState(sup.base))
            /\ UNCHANGED <<job, proc>>
    /\ UNCHANGED <<base, store, ptr, faults, refusals>>

AfterRestart(s) ==
    IF s.active = sup.selected THEN Down
    ELSE IF s.pending /\ ~s.available
    THEN IF s.verified THEN Down
         ELSE [Selecting(sup, s.prev, TRUE) EXCEPT !.rollbacks = 0, !.restarts = 0]
    ELSE [Selecting(sup, s.active, FALSE) EXCEPT !.rollbacks = 0, !.restarts = 0]

AfterRollback(s) ==
    IF s.pending THEN [RollBackPending(s) EXCEPT !.restarts = 0] ELSE Down

AfterFailure(s) ==
    IF MayRestart(s) THEN RestartVerified(s)
    ELSE IF MayRollBack(s) THEN [RollBackPending(s) EXCEPT !.restarts = 0]
    ELSE Down

\* 75 asks for a restart, 76 for a rollback, 1 is any other failure.
ChildExits ==
    /\ sup.pc = "watch" /\ proc.pc = "exited"
    /\ LET s == SupervisorState(sup.base) IN
       sup' = IF Unreadable(sup.base) THEN Down
              ELSE CASE proc.code = 75 -> AfterRestart(s)
                     [] proc.code = 76 -> AfterRollback(s)
                     [] OTHER -> AfterFailure(s)
    /\ proc' = NoProc
    /\ UNCHANGED <<job, base, store, ptr, faults, refusals>>

-----------------------------------------------------------------------------
(* The Gateway's side of a call of the Worker *)

LeaseHeld(j) == job[j].state \in HeldStates /\ job[j].lease = "live"

HeartbeatAnswer(j, f, adopt) ==
    IF job[j].fence = f /\ job[j].state = "cancelled" THEN "cancelled"
    ELSE IF /\ job[j].fence = f /\ LeaseHeld(j)
            /\ IF adopt THEN job[j].state = "restarting" ELSE job[j].mine
    THEN "ok" ELSE "lost"

CompleteAnswer(j, f, result) ==
    IF job[j].fence = f /\ job[j].state \in {"succeeded", "failed"}
    THEN IF job[j].result = result THEN "ok" ELSE "conflict"
    ELSE IF /\ job[j].fence = f /\ LeaseHeld(j)
            /\ job[j].mine \/ (job[j].state = "restarting" /\ result = "rolled_back")
    THEN "ok" ELSE "lost"

Beaten(j, state, adopt) ==
    [job EXCEPT ![j].state = state, ![j].mine = @ \/ adopt]

Completed(j, result) ==
    IF job[j].state \in {"succeeded", "failed"} THEN job
    ELSE [job EXCEPT ![j].state = IF result = "activated" THEN "succeeded" ELSE "failed",
                     ![j].lease = "none", ![j].result = result]

Replies == {"ok", "lost", "conflict", "cancelled", "unreachable", "refused"}

\* The call reaches the Gateway or not, and its answer the Worker or not.
Call(answer, effect, heard) ==
    \/ /\ heard = answer
       /\ job' = IF answer = "ok" THEN effect ELSE job
       /\ UNCHANGED <<faults, refusals>>
    \/ /\ heard = "unreachable"
       /\ faults > 0 /\ faults' = faults - 1
       /\ job' \in {job, IF answer = "ok" THEN effect ELSE job}
       /\ UNCHANGED refusals
    \/ /\ heard = "refused"
       /\ refusals > 0 /\ refusals' = refusals - 1
       /\ UNCHANGED <<job, faults>>

-----------------------------------------------------------------------------
(* recover_pending_update, at the start of every turn of the main loop *)

At(pc) == proc.pc = pc

GoTo(pc) == proc' = [proc EXCEPT !.pc = pc]

Exit(code) == proc' = [proc EXCEPT !.pc = "exited", !.code = code]

Recover ==
    /\ At("recover")
    /\ \/ ~Pending /\ GoTo("serve")
       \/ Pending /\ proc.rollback /\ GoTo("report")
       \/ Pending /\ ~proc.rollback /\ ptr.active # proc.rt /\ Exit(75)
       \/ /\ Pending /\ ~proc.rollback /\ ptr.active = proc.rt
          /\ GoTo(IF ptr.verified THEN "commit" ELSE "adopt")
    /\ UNCHANGED <<job, base, store, ptr, sup, faults, refusals>>

ReportThenClear(answer) == GoTo(IF answer = "ok" THEN "clear" ELSE "recover")

ReportThen(answer) == GoTo("clear")

\* The previous runtime reports the failure; the pointer is cleared whatever
\* the Gateway answers.
ReportRollback ==
    /\ At("report")
    /\ \E heard \in Replies :
          /\ Call(CompleteAnswer(ptr.job, ptr.fence, "rolled_back"),
                  Completed(ptr.job, "rolled_back"), heard)
          /\ ReportThen(heard)
    /\ UNCHANGED <<base, store, ptr, sup>>

MarkRolledBack ==
    /\ At("clear")
    /\ ptr' = [NoPointer EXCEPT !.st = "rolled_back", !.active = RollbackRuntime(proc.rt),
                                !.job = ptr.job]
    /\ GoTo("recover")
    /\ UNCHANGED <<job, base, store, sup, faults, refusals>>

AdoptThen(answer) == IF answer = "ok" THEN GoTo("probe") ELSE Exit(76)

AdoptLease ==
    /\ At("adopt")
    /\ \E heard \in Replies :
          /\ Call(HeartbeatAnswer(ptr.job, ptr.fence, TRUE),
                  Beaten(ptr.job, "restarting", TRUE), heard)
          /\ AdoptThen(heard)
    /\ UNCHANGED <<base, store, ptr, sup>>

\* The probe and the announce; the keeper may or may not notice a lost lease.
Probe ==
    /\ At("probe")
    /\ \/ GoTo("verify") /\ UNCHANGED faults
       \/ /\ HeartbeatAnswer(ptr.job, ptr.fence, FALSE) # "ok"
          /\ Exit(76) /\ UNCHANGED faults
       \/ faults > 0 /\ faults' = faults - 1 /\ Exit(76)
    /\ UNCHANGED <<job, base, store, ptr, sup, refusals>>

MarkVerified ==
    /\ At("verify")
    /\ ptr' = [ptr EXCEPT !.verified = TRUE]
    /\ GoTo("commit")
    /\ UNCHANGED <<job, base, store, sup, faults, refusals>>

CommitAssumed(answer) ==
    CASE answer \in {"ok", "unreachable"} -> GoTo("cleanup")
      [] answer = "lost" -> GoTo("readopt")
      [] OTHER -> Exit(76)

\* An unreachable Gateway leaves the pointer for the next turn.
CommitThen(answer) ==
    CASE answer = "ok" -> GoTo("cleanup")
      [] answer = "lost" -> GoTo("readopt")
      [] answer = "unreachable" -> GoTo("recover")
      [] OTHER -> Exit(76)

CommitVerified ==
    /\ At("commit")
    /\ \E heard \in Replies :
          /\ Call(CompleteAnswer(ptr.job, ptr.fence, "activated"),
                  Completed(ptr.job, "activated"), heard)
          /\ CommitThen(heard)
    /\ UNCHANGED <<base, store, ptr, sup>>

ReadoptThen(answer) ==
    CASE answer = "ok" -> GoTo("recommit")
      [] answer = "unreachable" -> GoTo("recover")
      [] OTHER -> Exit(76)

ReadoptLease ==
    /\ At("readopt")
    /\ \E heard \in Replies :
          /\ Call(HeartbeatAnswer(ptr.job, ptr.fence, TRUE),
                  Beaten(ptr.job, "restarting", TRUE), heard)
          /\ ReadoptThen(heard)
    /\ UNCHANGED <<base, store, ptr, sup>>

RecommitThen(answer) ==
    CASE answer = "ok" -> GoTo("cleanup")
      [] answer = "unreachable" -> GoTo("recover")
      [] OTHER -> Exit(76)

RecommitVerified ==
    /\ At("recommit")
    /\ \E heard \in Replies :
          /\ Call(CompleteAnswer(ptr.job, ptr.fence, "activated"),
                  Completed(ptr.job, "activated"), heard)
          /\ RecommitThen(heard)
    /\ UNCHANGED <<base, store, ptr, sup>>

\* A pointer that cannot be cleaned up stays pending and the Worker serves.  A
\* newer base that waits gets the process's place.
MarkSucceeded ==
    /\ At("cleanup")
    /\ \/ /\ ptr' = [NoPointer EXCEPT !.st = "settled", !.active = ptr.active]
          /\ IF sup.base > proc.rt.ver THEN Exit(75) ELSE GoTo("serve")
          /\ UNCHANGED faults
       \/ /\ faults > 0 /\ faults' = faults - 1
          /\ GoTo("serve")
          /\ UNCHANGED ptr
    /\ UNCHANGED <<job, base, store, sup, refusals>>

-----------------------------------------------------------------------------
(* run_one, the rest of a turn *)

NextTurn ==
    /\ At("serve")
    /\ GoTo("recover")
    /\ UNCHANGED <<job, base, store, ptr, sup, faults, refusals>>

\* A claim whose answer is lost is repeated under the same idempotency key.
ClaimUpdate(j) ==
    /\ At("serve")
    /\ \A k \in Jobs : job[k].state \notin HeldStates
    /\ job[j].state = "queued"
    /\ job[j].fence < MaxFence
    /\ job' = [job EXCEPT ![j] = [job[j] EXCEPT !.state = "leased", !.fence = job[j].fence + 1,
                                                !.mine = TRUE, !.lease = "live"]]
    /\ proc' = [proc EXCEPT !.pc = "prepare", !.job = j, !.fence = job[j].fence + 1]
    /\ UNCHANGED <<base, store, ptr, sup, faults, refusals>>

PrepareThen(answer) ==
    CASE answer = "ok" -> IF Target[proc.job] <= proc.rt.ver THEN GoTo("fail")
                          ELSE GoTo("stage")
      [] answer = "cancelled" -> GoTo("serve")
      [] OTHER -> GoTo("recover")

\* Heartbeats, ticket, download and validation of the wheel.
PrepareUpdate ==
    /\ At("prepare")
    /\ \E heard \in Replies :
          /\ Call(HeartbeatAnswer(proc.job, proc.fence, FALSE),
                  Beaten(proc.job, "running", FALSE), heard)
          /\ PrepareThen(heard)
    /\ UNCHANGED <<base, store, ptr, sup>>

\* The release is built aside and renamed into the store.
StageRelease ==
    /\ At("stage")
    /\ \/ /\ store' = store \cup {Target[proc.job]}
          /\ GoTo("point")
          /\ UNCHANGED faults
       \/ /\ faults > 0 /\ faults' = faults - 1
          /\ GoTo("fail")
          /\ UNCHANGED store
    /\ UNCHANGED <<job, base, ptr, sup, refusals>>

WritePendingPointer ==
    /\ At("point")
    /\ IF Pending
       THEN GoTo("fail") /\ UNCHANGED ptr
       ELSE /\ ptr' = [st |-> "pending", active |-> Release(Target[proc.job]),
                       prev |-> proc.rt, job |-> proc.job, fence |-> proc.fence,
                       verified |-> FALSE]
            /\ GoTo("announce")
    /\ UNCHANGED <<job, base, store, sup, faults, refusals>>

AnnounceThen(answer) == IF answer = "ok" THEN Exit(75) ELSE GoTo("clear")

\* The keeper's last check and the restarting heartbeat.
AnnounceRestart ==
    /\ At("announce")
    /\ \E heard \in Replies :
          /\ Call(HeartbeatAnswer(proc.job, proc.fence, FALSE),
                  Beaten(proc.job, "restarting", FALSE), heard)
          /\ AnnounceThen(heard)
    /\ UNCHANGED <<base, store, ptr, sup>>

FailThen(answer) == GoTo("recover")

CompleteFailure ==
    /\ At("fail")
    /\ \E heard \in Replies :
          /\ Call(CompleteAnswer(proc.job, proc.fence, "failed"),
                  Completed(proc.job, "failed"), heard)
          /\ FailThen(heard)
    /\ UNCHANGED <<base, store, ptr, sup>>

-----------------------------------------------------------------------------
(* The environment: processes that die, time, the user, an installer *)

Fault == faults > 0 /\ faults' = faults - 1

Crash ==
    /\ Fault
    /\ proc.pc \notin {"none", "exited"}
    /\ Exit(1)
    /\ UNCHANGED <<job, base, store, ptr, sup, refusals>>

HostStops ==
    /\ Fault
    /\ sup # Down
    /\ sup' = Down
    /\ proc' = NoProc
    /\ UNCHANGED <<job, base, store, ptr, refusals>>

InstallNewerBase ==
    /\ sup = Down
    /\ base < MaxBase
    /\ base' = base + 1
    /\ UNCHANGED <<job, store, ptr, sup, proc, faults, refusals>>

ReleaseLost(v) ==
    /\ Fault
    /\ v \in store
    /\ store' = store \ {v}
    /\ UNCHANGED <<job, base, ptr, sup, proc, refusals>>

\* The sweeper requeues the job in the same transaction of time.
LeaseLapses(j) ==
    /\ Fault
    /\ LeaseHeld(j)
    /\ job' = [job EXCEPT ![j] = [@ EXCEPT !.state = "queued", !.lease = "none",
                                           !.mine = FALSE]]
    /\ UNCHANGED <<base, store, ptr, sup, proc, refusals>>

SessionRenewed ==
    /\ Fault
    /\ \E j \in Jobs : job[j].mine
    /\ job' = [j \in Jobs |-> [job[j] EXCEPT !.mine = FALSE]]
    /\ UNCHANGED <<base, store, ptr, sup, proc, refusals>>

CancelJob(j) ==
    /\ job[j].state \in HeldStates \cup {"queued"}
    /\ job' = [job EXCEPT ![j].state = "cancelled", ![j].lease = "none"]
    /\ UNCHANGED <<base, store, ptr, sup, proc, faults, refusals>>

ChildStep ==
    \/ Recover \/ ReportRollback \/ MarkRolledBack \/ AdoptLease \/ Probe \/ MarkVerified
    \/ CommitVerified \/ ReadoptLease \/ RecommitVerified \/ MarkSucceeded
    \/ PrepareUpdate \/ StageRelease \/ WritePendingPointer \/ AnnounceRestart
    \/ CompleteFailure

SupervisorStep == StartSupervisor \/ Launch \/ ChildExits

UpdateNext ==
    \/ SupervisorStep \/ ChildStep
    \/ NextTurn
    \/ \E j \in Jobs : ClaimUpdate(j)
    \/ Crash \/ HostStops \/ InstallNewerBase \/ SessionRenewed
    \/ \E v \in store : ReleaseLost(v)
    \/ \E j \in Jobs : LeaseLapses(j) \/ CancelJob(j)

-----------------------------------------------------------------------------
(* Properties *)

\* The process is past the recovery of its turn.
Serving == proc.pc \in {"serve", "prepare", "stage", "point", "announce", "fail"}

\* Once the Gateway has accepted an activation, the Worker does not serve on an
\* older runtime again: after verification only the target may finish the
\* commit (supervise_worker).
NoFallbackAfterCommit ==
    Serving => \A j \in Jobs : job[j].state = "succeeded" => proc.rt.ver >= Target[j]

\* The Gateway's acceptance of an activation and the runtime in service agree:
\* a lost answer, a crash between the verification, the commit and the cleanup,
\* or a cancellation never leaves an uncommitted release in service
\* (recover_pending_update); and, as long as the Gateway refuses no call for a
\* passing reason, they never take a committed one back
\* (_complete_verified_update).
ServesOnlyCommitted ==
    /\ \/ ~(Serving /\ proc.rt.from = "store")
       \/ \E j \in Jobs : Target[j] = proc.rt.ver /\ job[j].state = "succeeded"
    /\ refusals = MaxRefusals => NoFallbackAfterCommit

\* The supervisor cannot go on: the runtime it must start is gone.
Stuck ==
    \/ Unreadable(base)
    \/ Pending /\ ptr.verified /\ ~Exists(ptr.active, base)

\* Where faults, failed activations and newer installers must lead again: to a
\* Worker that serves, as long as the files it needs exist (supervise_worker).
ServesIfItCan == At("serve") \/ Stuck
=============================================================================
