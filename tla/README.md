# VGen in TLA+

VGen runs generation tasks of a workspace on GPU Workers of several owners. A
Gateway keeps all shared state in one SQLite database; Workers poll it for work,
Brokers (a consumer's always-on devices) re-encrypt task keys when a task has to
move, and the content stays end-to-end encrypted. This directory models the
parts whose correctness depends on the order of events, checks them with TLC on
small instances and proves the main safety properties with TLAPS.

Source paths below are relative to `src/src/vgen/`.

## The system's parts

| Part | Source | Module |
|---|---|---|
| Task scheduler: tasks, attempts, leases, fencing, retry, leave | `gateway/repository.py`, `gateway/database.py` | `TaskLifecycle`; proofs in `TaskLifecycleProofs`, `TaskQueueProofs` |
| Maintenance jobs: signed intents, receipts, artifacts, claims, grants | `gateway/repository.py`, `gateway/database.py` | `WorkerMaintenance`, which refines `TaskLifecycle`; proofs in `MaintenanceProofs` |
| `vgen workflow install`: jobs, waits, roll-back | `cli/main.py`, `gateway/repository.py` | `WorkflowInstall` |
| Broker commands and rekey routing | `gateway/repository.py`, `gateway/app.py`, `broker/` | `BrokerRekey` |
| Usage ledger | `gateway/repository.py` | `UsageLedger` (rows and links), `TaskLifecycle` (one charge per attempt); proofs in `CallProofs` |
| Task submission, idempotency cache, input artifacts | `gateway/app.py`, `cli/main.py`, `cli/client.py`, `cli/artifacts.py` | `TaskSubmit`; proofs in `CallProofs` |
| Download of outputs | `cli/main.py` | `TaskOutputs`; proofs in `CallProofs` |
| Challenges, sessions, signed mutations and their nonces | `gateway/app.py`, `gateway/database.py`, `crypto/http_signatures.py` | `Sessions`; proofs in `CallProofs` |
| Members, devices, enrollments, admissions | `gateway/repository.py`, `cli/user_enrollment.py` | `WorkspaceAdmission` |
| Workspace keys | `gateway/repository.py`, `cli/workspace_envelopes.py` | `WorkspaceKeys`; proofs in `WorkspaceKeysProofs` |
| Worker enrollment and repair | `gateway/repository.py`, `cli/worker_enrollment.py`, `worker/credentials.py`, `examples/windows-worker/enroll-worker.ps1` | `WorkerEnroll` |
| Worker execution loop, upload spool, output artifacts | `worker/core.py`, `worker/main.py`, `worker/spool.py`, `worker/gateway.py` | `WorkerCore`, `WorkerCoreProofs` |
| Runtime updater, supervisor, maintenance client | `worker/updater.py`, `worker/supervisor.py`, `worker/maintenance.py` | `RuntimeUpdate`; proofs in `RuntimeProofs` |
| Node packs, host control, host supervisor | `worker/node_packs.py`, `worker/host_control.py`, `examples/windows-worker/supervise-worker.ps1` | `ComfyHost`; proofs in `HostProofs` |
| Model installer | `worker/model_installer.py` | `ModelStore`; proofs in `HostProofs` |
| Capability store | `worker/capabilities.py`, `gateway/repository.py` | `CapabilityStore`; proofs in `HostProofs` |
| ComfyUI executor: a prompt, and the digests of model files | `executors/comfyui.py` | `ComfyRun` (proofs in `RuntimeProofs`), `ModelProbe` |
| Registry of workflow packages on a consumer's machine | `market/registry.py` | `WorkflowRegistry`; proofs in `HostProofs` |
| Gateway installer | `examples/ecs/setup-gateway.sh` | `GatewaySetup` |
| Opening and migrating the database | `gateway/database.py`, `gateway/repository.py`, `gateway/app.py` | `DatabaseOpen` |
| Routes and schemas, one-call commands, package formats, SDKs, rate cards, cryptography | rest | not modelled: no concurrent state, or functions over byte strings |

How they meet: a consumer's `prepare_task` reserves a Worker, `commit_task` hands
over the ciphertext and the wrapped key, the Worker `lease`s the task, renews its
lease with heartbeats and `finish`es. When an execution is lost the task becomes
`rekey_required`; the consumer, or a Broker on a command, prepares a retry on
another Worker and commits a new key envelope. A Broker also creates maintenance
jobs, which a Worker claims only while it executes nothing, and which keep it
from leasing tasks. A sweeper task expires what is overdue.

## How the Gateway is modelled

Every handler of `GatewayRepository` that changes scheduling state is one
`BEGIN IMMEDIATE` transaction under the database lock (`gateway/database.py`,
`transaction`), and an exception rolls it back. So a handler is one action, its
early returns and exceptions are guards, and the statements inside it are
operators from databases to databases: `ExpireReservations`, `ExpireLeases`,
`FinalizeDrained`, `Reserve`, `Grant`, `Requeue`, `Evict`. `db` is the content
of the tables between two transactions. Where a handler reads before its
transaction and the read may be stale (commit and upload of a maintenance job),
the guard is left out.

Time is abstracted to the comparison the code makes. A reservation, a lease or a
signed intent is `"live"` until the environment makes it `"lapsed"`, and the next
transaction that compares it with its stamp sees that. Stamps are read before the
transaction starts, so a handler may act on a time that is already past: that is
a lapse the environment has not yet made.

Left open, so that every choice of the code is covered: which candidate Worker is
first (freshness, load, requirement matching), which ready task or job is first
(priority, age), whether a rate is approved.

### TaskLifecycle

| State | Tables |
|---|---|
| `db.task[t]` | `tasks`: state, assigned Worker, `reservation_expires_at`, whether ciphertext was committed |
| `db.att[t][n]` | `task_attempts` row `n` of `t`, with its `leases` row, receipt and number of ledger charges |
| `db.wrk[w]` | `workers`: status, fencing counter, allocation |
| `db.env[t]` | Workers with an unrevoked `key_envelopes` row |
| `maint[w]` | `worker_maintenance_jobs` of `w` as the scheduler reads them: none, queued, held |

Actions carry the handlers' names: `PrepareTask`, `CommitTask`, `PrepareRetry`,
`CommitRekey`, `CancelTask`, `Lease`, `HeartbeatAttempt`, `FinishAttempt`,
`WorkerHeartbeat`, `OfferWorker`, `ApproveAllocation`, `LeaveWorker`,
`SweepExpired`, `BrokerDeviceHeartbeat`. Reports present any token the Worker was
ever handed, so late and repeated deliveries are included.
`MaintenanceQueued`, `MaintenanceClaimed` and `MaintenanceEnded` are what the job
table may do; `WorkerMaintenance` shows that it does nothing else. The rekey
commands some handlers enqueue do not feed back into these tables; `BrokerRekey`
models them.

### WorkerMaintenance

A job is named by the signed intent that created it. `job[i]` is its
`worker_maintenance_jobs` row with its `maintenance_artifacts` row, `receipt[i]`
the `maintenance_intent_receipts` row, `grant[i]` the workflow and model
authorizations whose source is the job, `revoked` the revoked devices and
`manager[w]` the delegated Broker. The job actions carry the handlers' names too;
`LeaveWorker` and `SweepExpired` are the whole handlers, scheduler part and job
part in one step; `SchedulerStep` is every other action of `TaskLifecycle`. A
lookup of an existing job by its exact authorization is only reached for jobs
that are older than the receipts table, and is not modelled. The contents of
results are abstracted to success, failure and rollback.

`TL == INSTANCE TaskLifecycle WITH maint <- SeenByScheduler` maps the jobs of a
Worker to what the scheduler's query sees, and `SchedulerRefined == TL!Spec` is
checked and proved: every step of the composition is a step of the scheduler or a
stutter.

### WorkerCore

The other side of a lease: one Worker process with its heartbeat keeper thread,
its upload journal on disk, and the Gateway as far as the Worker's calls reach it.

| State | Code |
|---|---|
| `att[a]`, `cancelRequested`, `art[a]`, `store[a]` | attempt and lease row, the task's cancellation, `artifacts` rows, objects in the store |
| `disk[a]` | the attempt's directory in the upload spool: ciphertexts, manifest with its pending artifacts, a temporary manifest |
| `wk` | the process: where it is in `process` or `resume_pending`, what is journaled, `cancelled` and `heartbeat_error` as the keeper sets them, the lease request that awaits an answer |
| `executed[a]` | how often the Executor was invoked |

Here a handler is not a transaction: every Gateway call, every file-system write
that a crash can separate from the next one, and every check of the keeper's
flags is a step of its own. A call can fail before or after it took effect
(`MaxCallFaults` in all). `WorkerCrash` is a kill, or a power loss that tears what
was not synchronized; it loses the memory and keeps the disk. What an exception
does (`RaiseError`, `DiscardPending`, `ReportAttemptFailure`) follows the order of
the `except` clauses. The keeper sets `cancelled` on any error, and `process` looks
at `cancelled` before `heartbeat_error`, so an undelivered heartbeat or a lost lease
ends in a report of cancellation, which the Gateway refuses. Every execution is
taken to produce all reserved outputs. What the keeper learns after the last check
before a terminal call is read by nobody and is not modelled. The file rename and
the directory's synchronization are one step: a power loss between them leaves
either the state before or the state after.

### The other modules

All of them follow the same two conventions: a transaction of the Gateway is one
step, and in a command, a script or a Worker every call and every write that a
crash can separate from the next is a step. Failures, lost calls, kills and lapsed
lifetimes are steps of the environment that spend a bounded budget (`Max...Faults`,
`MaxLapses`, `MaxKills`).

- `WorkflowInstall`. `installs[i]` is an invocation with the jobs it made (`own`)
  and where it is; `sources` and `grants` are the Gateway's jobs and
  authorizations; `host` the Worker's machine, its last report and the job it works
  on. `Created` includes the deduplication of jobs, `Deactivated` is the call the
  roll-back and `Uninstall` make.
- `BrokerRekey`. A call passes through the Gateway in three transactions (look the
  idempotency key up, run the handler, store the answer); a client that gives up
  leaves its call running (`late`). One task, its attempts and its command rows; the
  consumer may retry, rekey or cancel it meanwhile. An envelope remembers the attempt
  it was made for.
- `TaskSubmit`. One invocation of `vgen task submit` after the other under one key;
  requests inside the Gateway outlive the client. A ciphertext is named by the
  invocation that made it.
- `TaskOutputs`. Commands that publish a file under the same name.
- `UsageLedger`. A handler reads the clock, then appends in a transaction; a row
  links to the row with the greatest (created_at, id).
- `Sessions`. The rows of challenges, sessions and nonces, the threads that handle a
  login or a signed mutation, and the clock. A login is three steps (the signature is
  verified, the challenge consumed, the session inserted), and so is a mutation
  (session, window of the signature, nonce): deliveries of one signature overlap, and
  pruning, a revocation and the clock fall between any two steps.
- `WorkflowRegistry`. Install and remove commands of one version, with no lock
  between them: inspect, copy to a staging directory, validate again, rename onto
  the target. The author may edit the source meanwhile, a removal deletes file after
  file, and any command can be killed.
- `WorkspaceAdmission` and `WorkspaceKeys`. Users, Devices, Services, enrollments
  and admissions, one transaction per action; the Owner's commands `Initialize`,
  `Grant...`, `Rotate...` are several requests each. A key is a number, an envelope
  is the key sealed in it. An enrollment of a Device need not name the Workspace, and
  any User then issues and decides it.
- `WorkerEnroll`. The Invite's row, `vgen worker add`, and `enroll-worker.ps1` step
  by step with the supervised Worker it stops and restarts.
- `RuntimeUpdate`. The runtime pointer, the supervisor's choice, the child's exit
  codes, and the update jobs with their fencing.
- `ComfyHost`, `ModelStore`, `CapabilityStore`. The three installers with the files
  they swap, link and index, and the processes that compete for them.
- `ComfyRun`. One `execute` after the other against an external ComfyUI, which is
  modelled from what the client expects: a queue, websocket messages, a history
  that is written after the last message, a process-wide interrupt.
- `ModelProbe`. A pass over the pinned files with its digest cache, while others
  write the files. Time is in seconds and file stamps have a tick.
- `GatewaySetup`. Every subcommand of the script, command by command, with the ERR,
  INT, TERM and HUP traps; a signal reaches the script before its next assignment.
  Files are absent, whole or torn. A release may change tables with or without
  raising `SCHEMA_VERSION` (`bumps`). In the roll-back a called function fails only
  when its last command does, so `Undo` has failures that go unnoticed.
- `DatabaseOpen`. Statements outside a transaction are durable one by one; SQLite
  redirects a reference to a renamed table.

## What is checked

| Run | Instance | Shows |
|---|---|---|
| `tasks` | 2 Workers of capacity 1; 1 task with 3 attempts, or 2 tasks with 1 each | at most one execution, task, attempt and lease rows agree, a queued task can be leased, an attempt is charged exactly once, capacity, no execution during maintenance, finished tasks stay |
| `progress` | 2 Workers of capacity 1, 2 attempts; 1 task on both, or 2 tasks on one | a queued task does not wait for ever; a draining Worker without reservations ends up revoked |
| `maint_updates` | 2 devices ask for one update, 2 sessions, 2 Brokers, up to 2 claims | one job in force per piece of work, each still authorized; a handover has a larger token or is an announced restart, and a finished job is never reopened |
| `maint_scheduler` | 1 task and 1 install job; and 2 invocations of `workflow install` with 1 fault | the composition refines the scheduler; an abandoned job is queued again; a grant follows an authorized success and never returns; the roll-back of an invocation takes back its own work and nothing else |
| `workspace_keys` | 2 Users, 3 Devices, 1 Service, 2 enrollments, 2 versions, 2 setups | a version made by a rotation is one key, the first one no more keys than setups created; who lost standing cannot read later versions; keys are sealed only to admitted recipients; beside it, 2 logins with 1 challenge and 1 request delivered twice: a signature counts once |
| `host` | each component alone: 2 packs, 2 installers and 3 pins, 3 capability jobs, 2 updates, 2 attempts of 2 outputs, 2 prompts; 1 or 2 faults each | a failed pack restores, placed models are whole, grants match active releases, only committed runtimes serve, no attempt executes twice, no durable result is dropped while leased because a call went unanswered, returned outputs are those of a completed prompt; revocations, updates and attempts come to an end |
| `gateway` | each component alone: 2 invites, 3 attempts and 2 devices, 4 ledger rows, 2 submissions of 2 inputs, 3 downloads, 2 installs and a removal of a package, every schema version with 3 kills; 1 or 2 faults each | an invite, its Worker row and the credential on the machine hang together, a failed repair restarts the Worker and keeps the old credential, a queued task is sealed for the one Worker that can lease it and a closed rekey command was replaced by an attempt elsewhere, an upgrade that reports a restoration has put back runtime, configuration, route and service on a database that runtime opens, and a failed route switch the route, ledger rows hang together, queued tasks have their inputs, no download overwrites another's file, an installed package is whole and what its installs answered, an opened database is whole |
| `worker_add`, `upgrade_restores`, `submit_twice`, `upload_loop`, `stale_digest` | small instances of the same modules | the findings below |

Components that share no state are explored side by side in one run (`MCHost`,
`MCGateway`, `MCInstalls`, `MCWorkspaceKeys`): the variable `kind` is chosen in the initial state and
the others then stay in one state.

Bounds. Three attempts on two Workers let a retry come back to a Worker that has
executed the task before, which is where a stale token or row could match again.
Two tasks and capacity 1 are the smallest competition for a slot; `CONSTRAINT
RetriesOrContention` explores three attempts and two tasks separately. In `progress`
the next-state relation keeps to `MovesOrSlot`: one task that moves between two
Workers without maintenance, or two tasks that compete for the slot of one Worker
while the other stays as it was. No fair action leaves this part.
`MaxQueued` = 2 (the code has a larger constant) lets a task be queued behind
another. `MaxFence` = 2 claims of a job are one handover; only claims are bounded by
it. Workers, tasks, sessions and devices are interchangeable, and the safety runs
use that symmetry; runs with liveness do not. In `WorkerCore` two attempts let a
spooled result meet the next lease of its task, two outputs let a crash fall between
two uploads, and a lost call with a crash let a recovery be interrupted again. Two
commands of the Owner's two Devices are the smallest race of rotation and grant. Two
invocations of an install are the smallest sharing of a release. Two faults let a
roll-back or a recovery fail once itself. In `Sessions` the lifetimes are a few ticks
with the order the code gives them; `SentAlone` explores a request with one principal
and no login under way, because the two only share the principal's row. `OneProvenance`
explores installs of market and of custom packages separately: they have different
target directories.

Fairness. `SweepExpired` is weakly fair because the Gateway runs it in a loop on
an interval (`gateway/app.py`). `Lease(w)` and `ClaimWorkerMaintenance(w)` are
weakly fair because an active Worker polls both in its main loop
(`worker/main.py`); a Worker that has gone silent is outside the claim.
`ExecutionEnds` is weakly fair because an executor has a time limit and an
execution that stops renewing loses its lease. In `host` the Worker's loop, the
capability reconciliation, the supervisor and its child keep taking steps because
the host restarts them, faults are finitely many, and a lease that nobody renews
lapses (`AbandonedLapses`). Nothing is assumed of consumers, Brokers or providers.
`QueuedProgress` is conditional on maintenance not coming for ever: the code gives
it priority over tasks. The set of tasks is finite; a client that submits tasks of a
higher priority for ever does starve a lower one, since nothing ages.

Deadlock checking is on where the system never stops (`tasks`, `progress`,
`maint_updates`). A command, a script, an installer or an exhausted budget of
requests may stop, and the other configurations say so.

## What is proved

The proofs hold for all sets of Workers, tasks, intents, Users, Devices, installers,
jobs, handlers and commands, and for every value of the bounds that satisfies the
assumptions named below. None of them uses fairness.

| Module | Theorem | Property |
|---|---|---|
| `TaskLifecycleProofs` | `TypeCorrect` | `TypeOK` |
| | `SingleExecution` | `OneExecution` |
| | `LeasesMatch` | `LeaseMatchesAttempt` |
| | `TaskAndAttemptsAgree` | `TaskMirrorsAttempt` |
| | `FencingTokensUnique` | `FencingUnique` |
| | `CapacityNeverExceeded` | `CapacityRespected` |
| | `MaintenanceIsExclusive` | `MaintenanceExcludesExecution` |
| | `ClosedAttemptsAreHistory` | `ClosedAttemptsStay` |
| | `TokensAreMonotonic` | `TokensIncrease` |
| `TaskQueueProofs` | `RowsStayConsistent` | `RowsConsistent` |
| | `AttemptsChargedOnce` | `ChargedExactlyOnce` |
| | `FinalStatesStay` | `FinishedTasksStay` |
| | `QueuedTasksLeasable` | `QueuedIsLeasable` |
| `MaintenanceProofs` | `JobsImplementMaintenance` | `SchedulerRefined` |
| | `JobsStayInForce` | `ActiveJobsInForce` |
| | `HandoversFenced` | `HandoverIsFenced` |
| | `GrantsFollowAuthority` | `GrantsAreAuthorized` |
| `WorkspaceKeysProofs` | `VersionsAreOneKey` | `OneKeyPerVersion` |
| | `RevokedAreLockedOut` | `LockedOut` |
| | `SealsFollowAdmission` | `SealedOnlyToAdmitted` |
| `WorkerCoreProofs` | `AttemptsExecuteOnce` | `ExecutedOnce` |
| | `ManifestsAreDurable` | `PublishedIsDurable` |
| | `OutagesKeepResults` | `ResultKeptWhileLeased` |
| `HostProofs` | `ModelsAreWhole` | `InstalledIsWhole` |
| | `GrantsAreActive` | `GrantedIsActive` |
| | `FailuresRestore` | `FailedProbeRestores` |
| | `InstallsAnswerWhatStands` | `InstalledIsAnswered` |
| `RuntimeProofs` | `OnlyCommittedServes` | `ServesOnlyCommitted` |
| | `ReturnsAreCompleted` | `ReturnedIsCompleted` |
| `CallProofs` | `OneUsePerSignature` | `SignaturesCountOnce` |
| | `QueuedTasksHaveInputs` | `QueuedInputsStored` |
| | `OutputsStayPublished` | `PublishedKept` |
| | `LedgersHangTogether` | `LedgerHangsTogether` |

### The scheduler

The only assumption is `ConstantsAssumption`: the set of tasks is finite (so that
cardinalities make sense), the null Worker is no Worker, and the constants have
their types.

The inductive invariant is `IInv`: `TypeOK`, `Consistent(db)`, `FencingUnique`,
`MaintenanceExcludesExecution` and `CapacityRespected`. `OneExecution` alone is
not inductive: that a lease finds no other executing attempt follows from the
task being `queued`, which needs the agreement of the tasks row with its
attempts; that a cancellation leaves no unreleased lease behind needs that a
leased attempt has not started and a running one has. `Consistent` says this
task by task (`RowsAgree`), and the run `tasks` checks it too.

The argument follows the code. Each statement sequence (`ExpireReservations`,
`ExpireLeases`, `ExpirePrepared`, `Requeue`, `Evict`, `Reserve`, `Grant`) has a
lemma that it keeps the types and the agreement and that it is a `Frame`: it
starts no execution, changes no token and reopens no closed row. Frames compose,
so a handler's lemma chains those of its statements. `Reserve` and `Grant` are
the two that hand out a token (`NextTokenFences`); `Grant` is the only one that
starts an execution and meets the capacity check and the maintenance check in
the same transaction (`LeaseSafe`); `MaintenanceClaimedSafe` is the other
direction. `NextKeeps` has one step per action.

That an attempt is charged exactly once is a statement about its whole history, so
`TaskQueueProofs` adds `AllSettled` to `IInv`: an attempt that is not closed has
neither receipt nor charge, and the charge of a closed one is what its receipt says.
Only `finish_attempt` writes both, in one transaction.

`QueuedIsLeasable` needs more than `IInv`. A task is queued long after its Worker
was chosen, and in between the Worker may leave, its reservation may lapse and a
retry may be prepared elsewhere. `QueueKept` therefore also speaks of the tasks
that are not yet queued: unless its Worker was revoked, a task whose reservation can
still be committed has its newest attempt reserved on that Worker, which is active
(`Placed`). A committed task has no reservation left that could lapse
(`Unreserved`). A revoked Worker executes nothing (`RevokedIdle`), so a repeated
leave keeps it revoked instead of draining it once more.

### The maintenance jobs

Assumed is `IntentsAssumption`: the constants that describe an intent have their
types, and the null values are none of the values.

`JobsImplementMaintenance` is the refinement: each of the job's transactions maps
to `MaintenanceQueued`, `MaintenanceClaimed`, `MaintenanceEnded` or a stutter of the
scheduler under `SeenByScheduler`. It needs only the types of the job rows. The
interesting case is the claim: it is a `MaintenanceClaimed` because it checks in its
own transaction that the Worker executes nothing.

The inductive invariant of the others is `MInv`: types, `InForce` (the property
`ActiveJobsInForce` as a predicate of the tables) and `Receipted` (an intent that
has a job and is not over has a receipt, so `create` does not make a second job).
Most transactions only calm the jobs (`Calms`: no job becomes active, held or
queued that was not before, an outcome stays, a fence does not fall), and calming
keeps everything in force as long as no Worker is taken out of service.
`SchedulerKeepsWorkers` shows that no transaction of the scheduler but
`leave_worker` does that, and `leave_worker`, `revoke_device` and
`set_worker_manager` withdraw authority together with the jobs that rest on it
(`AuthorityInForce`). Create, commit and claim are the three that make a job active
or held, and are proved on their own. The two action properties follow from the
same lemmas: a report of success finds its job held, so `InForce` gives the
authority that `complete_worker_maintenance` itself does not check.

### The Workspace keys

Assumed are `DevicesAssumption` and `KeyBoundsAssumption`: every start has a Device
of the Owner, Users and Devices are different, and the bounds are numbers.

`KInv`, behind `OneKeyPerVersion`, follows a key wherever it is: in an envelope, in a
keyring, or in the memory of a command (`InUse`). No key is in use for a version that
is not yet current, so a rotation that commits meets none; and a rotation commits only
for the version after the one it read, so of two rotations one is refused (`OneKey`).
The first version is different: two Devices that run setup and both find no envelope
each create a key, and nothing in the code prevents it. `FewFirstKeys` counts them, no
more than setups were run, and `OwnerFetches` says why setup creates none later: after
a rotation the Owner has an envelope to fetch.

`LInv`, behind `LockedOut`, bounds what a Device can hold by `Reach`: the current
version while it is entitled, and the version at which it lost its standing
afterwards. A step can only raise it (`ReachGrows`), so keys once within reach stay
so. The case that needs an extra conjunct is a rotation by a Device that is revoked
after the commit and before it saves the key (`RotationsOk`).

### The Worker process

Nothing is assumed about the constants: the theorems hold for any number of
attempts, outputs, lost calls and crashes, and for both kinds of object store. They
are about `CoreSpec`, the specification without fairness.

The inductive invariant `WInv` relates the memory of the process to the tables it
cannot see. `Rows` speaks of the Gateway and the disk alone: a manifest exists only
for a leased attempt, its files are synchronized, and every output it does not list
as pending is in the store. `Engaged` says that a lease request without an answer,
and an attempt between its lease and `mark_started`, have not been executed; that a
lease answer is replayed only in this state is why `ExecutedOnce` survives it.
`Journals` follows the upload: nothing has a manifest until the outputs are
encrypted, because the loop scans the spool before it polls; all files are durable
when the manifest is written; and what is neither in `todo` nor in `remaining` is in
the store, so an empty list means that the result can be completed. `Informed` gives
the flags their meaning: after the keeper's `"lost"` the lease is over, and a
`cancelled` without an error is a cancellation of the task. Leases that are over stay
over (`Advances`), so what the process has heard remains true while the Gateway
moves on. A completion that the Gateway refuses is the case that needs `Rows` again:
the lease cannot be valid, because a valid lease belongs to an open attempt and every
output is in the store.

`KInv`, `LInv`, `MInv` and `WInv` were checked with TLC before they were proved, the
first three on the instances of `workspace_keys` and `maint_updates` and the last with
two attempts, two outputs, two lost calls and two crashes on both kinds of store.

### What is installed on a machine

`HostProofs`. Assumed are `PinsAssumption`, `CapAssumption`, `PacksAssumption` and
`RegistryAssumption`: null values are none of the values, a model has a size, a
package has one provenance.

- Models (`ModelInv`). A file is linked into the store after its digest was checked;
  in between nobody may write to the partial file. `LockDiscipline` says so: an
  installer past the lock has the lock of its digest, and one about to publish has a
  verified partial file. A crash releases the lock and leaves a
  partial file, whose digest the next installer checks before it publishes it.
- Capabilities (`CapInv`). A grant appears when a job is completed, a little after the
  index was written, and a reconciliation removes what its snapshot does not list.
  `CapSettled` bridges both gaps: the index has the release that is about to be
  reported, and the snapshot at hand is no older than a grant.
- Node packs (`PackInv`). `Kept` follows the old pack through an installation: in its
  place up to the swap, in the backup from there to the end of the roll-back, then in
  its place. It is a promise as long as no rename of the roll-back itself failed
  (`torn`), which is the exception the property makes.
- Workflow packages (`RegistryInv`). Nothing is locked, so the proof rests on what is
  compared: what is staged is what was inspected (`StagedRow`), and the target holds
  exactly what the answers since the last rename say unless a removal has begun.
  `OpenedRow` is about a removal that outlives the directory it opened: it has told so,
  or a later rename has put another directory there, which it cannot reach.

### The processes of a Worker's machine

`RuntimeProofs`. Assumed are `JobsAssumption` (two update jobs have different target
versions, versions are numbers) and `RunsAssumption`.

`UpdateInv` is about the set of jobs the Gateway has accepted (`Done`). The pointer's
fallback may serve, and an accepted target is verified (`PointerGood`); a runtime that
was started may serve or is the target that tries to commit itself (`Startable`); the
child's place in `recover_pending_update` says whether its job is accepted
(`ProcessGood`). The second half of the property, that no accepted release is taken
back, holds as long as the Gateway refuses no call for a passing reason; the invariant
carries this condition as a parameter, and `Weaker` is the lemma that losing it only
loses promises.

`PromptInv` says that every prompt is in one place: not submitted, once in ComfyUI's
queue, being sampled, or over (`OncePerPrompt`); and that what the client hears on the
websocket and reads in the history is how its own prompt ended (`Heard`).

### Calls that are repeated, late or concurrent

`CallProofs`.

- Signatures. `WindowAssumption` is the relation the code's constants have: a nonce
  lives longer than the whole window of a signature and the wait between the two checks
  (600 s against 30 s and 300 s). `RequestsGood` says that the nonce of a request that
  passed is remembered until no delivery that is past the window check could still claim
  it; `LoginsGood` that a challenge that is consumed has proven one login or opened one
  session, and no other login is proven by it.
- Submissions. `SubmitAssumption`: a number of inputs. `SubmitInv` says that an input
  that is marked is in the store, that a queued task has all of them marked
  (`TablesBacked`), and that a request on its way that will mark an input has already
  stored it (`SoundRequest`). Rows are added and objects replaced but none is taken
  away (`Grown`), so a request that outlives its client stays sound.
- Downloads. `OutputsAssumption`. A command that is done has its file under its name as
  long as no command was told to overwrite.
- Ledger. `LedgerAssumption`: ids are positive numbers. That the rows are connected is
  stated as a closure, a set with the root and with every row that links into it is the
  whole ledger, which needs no induction over paths. `LedgerInv` adds that ids are
  unique, links point to rows that exist, and a non-empty ledger has a last row in the
  order of (created_at, id): the row the transaction links to.

### Only model-checked

Liveness (`QueuedProgress`, `DrainCompletes`, `AbandonedJobsReturn`, `RevokedLeaves`,
`AttemptsEnd`, `UpdatedWorkerServes`) is out of the reach of this prover. The safety
properties `InstallsAreIndependent`, `RekeyReplaces`, `EnrollmentHangsTogether`,
`OldCredentialKept`, `RestoredIsWhole` and `OpenedIsWhole` are checked on the instances
above and not proved. They follow one invocation of a script or command through its
steps with a small number of faults, and their invariants would be a case list over
those steps; none of them grows with a set of nodes.

## Findings

1. `upload_loop`: with the local (development) artifact store a PUT marks the
   artifact uploaded at once. If its answer is lost, the journal still lists the
   artifact, `refresh_output_artifacts` returns no ticket for it, and the Worker
   retries for ever while its first heartbeat renews the lease each time, against
   "cannot become an infinite lease-renewing spool loop". With OSS the row stays
   pending until the completion, and `AttemptsEnd` shows that the loop ends.
2. `worker_add`: `vgen worker add` demands `proof_signature` of a pending
   enrollment, which the Gateway never returns, so it approves no Worker.
3. `upgrade_restores`: `restore_sqlite_backup` ends with `chown`, so in the roll-back,
   which runs under `set +e`, a failure to write the backup back goes unnoticed. If the
   release changed tables without raising `SCHEMA_VERSION`, the previous runtime serves
   the migrated database and the script reports the previous Gateway as restored.
4. `submit_twice`: lookup and storing of an idempotency key are two transactions
   around the handler, and the key is bound to the session token; a retry can queue
   a second task.
5. `stale_digest`: a model file seen for the first time is stamped with the start of
   the pass, so after a long pass it counts as settled too early.

Some disagreements with comments and texts of the repository have no run of their own;
the notes of the hazards in `PROJECT.json` give the lines:

- `broker/rekey.py` says that a restart resumes the same reservation. The cached answer
  is found under the session's token, so after a session renewal a further attempt is
  reserved.
- `executors/comfyui.py` says of `cancel` that "an interrupt cannot affect another
  attempt". An interrupt that is handled late stops the prompt of the next run.
- `worker/core.py` calls the errors that discard a spooled result a "deterministic
  Gateway rejection". They include every HTTP error that is not a lost lease.
- The usage text of `setup-gateway.sh` promises a restoration for every failed upgrade.
  A signal between the rename of the old runtime and the assignment that records it
  leaves the server without its runtime, reported as not restored; and `die` in
  `normalize_and_verify_runtime_at` ends the script without its trap.

Other behaviour that nothing in the repository speaks of, and that the properties
therefore allow: two first keys after simultaneous setups; two ledger rows with the
same predecessor; a late upload that replaces a stored input; a temporary manifest that
makes a durable result unloadable; a fall-back after an accepted activation whose
repeated call was refused; a rekey committed for a Worker that has left; an install
that found the capability of another invocation, which that invocation's roll-back then
takes away.

## Not modelled

Rate cards, the ranking of candidates and the matching of requirements are left open
in the scheduler. Signatures are taken to be unforgeable and random ids unique.
Cryptography, formats (of workflow packages too), schemas, routing, the SDKs and the
release tools are functions over bytes and files without concurrent state.
