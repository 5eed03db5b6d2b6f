----------------------------- MODULE WorkerCore -----------------------------
(***************************************************************************)
(* One Worker process: the serve loop of worker/main.py, the life of a      *)
(* leased attempt in WorkerCore.process and WorkerCore.resume_pending       *)
(* (worker/core.py), the upload journal on disk (worker/spool.py) and the   *)
(* part of the Gateway those calls reach.  The process and its heartbeat    *)
(* keeper thread interleave; the process may be killed, and the machine may *)
(* lose power, between any two writes; an answer of the Gateway or of the   *)
(* object store may be lost after the call took effect, and any call of the *)
(* Gateway may be answered with an HTTP error, by itself or by a proxy      *)
(* before it.                                                               *)
(*                                                                          *)
(* Attempts are successive attempts of one task that all reach this Worker. *)
(* A lease is "live" or has "lapsed", as in TaskLifecycle.  Outputs are the *)
(* artifacts one execution produces.                                        *)
(***************************************************************************)
EXTENDS Naturals, FiniteSets

CONSTANTS MaxLeased,     \* attempts of the task that are leased to this Worker
          Outputs,       \* output artifacts of one execution
          LocalStore,    \* TRUE: objects are PUT to the Gateway; FALSE: to OSS
          MaxCallFaults, \* lost calls, lost answers, HTTP errors, bad transfers
          MaxCrashes     \* kills and power losses

Attempts == 1..MaxLeased

ASSUME WorkerCoreAssumption ==
    /\ MaxLeased \in Nat \ {0}
    /\ IsFiniteSet(Outputs) /\ Outputs # {}
    /\ LocalStore \in BOOLEAN
    /\ MaxCallFaults \in Nat /\ MaxCrashes \in Nat

VARIABLES att,        \* task_attempts and leases rows at the Gateway
          cancelRequested,  \* the task is cancelled
          art,        \* artifacts rows at the Gateway
          objects,    \* outputs whose bytes are in the object store
          disk,       \* one upload-spool directory per attempt
          wk,         \* memory of the Worker process
          executed,   \* how often the Executor was invoked, per attempt
          callFaults, crashes

coreVars == <<att, cancelRequested, art, objects, disk, wk, executed, callFaults, crashes>>
gateway == <<att, cancelRequested, art, objects>>

LiveStates == {"leased", "running"}
KeeperRuns == {"download", "start", "execute", "encrypt", "sync", "write",
               "publish", "renew", "upload"}
NoDirectory == [files |-> [o \in Outputs |-> "none"], manifest |-> FALSE,
                pending |-> {}, temp |-> FALSE]

\* polled: the attempt behind a lease request whose answer never arrived.
Fresh(polled) == [pc |-> "loop", mode |-> "none", a |-> 0, todo |-> {},
                  remaining |-> {}, journaled |-> FALSE, cancelled |-> FALSE,
                  error |-> "none", report |-> "none", then |-> "loop",
                  polled |-> polled]

CoreInit ==
    /\ att = [a \in Attempts |-> [state |-> "none", lease |-> "none"]]
    /\ cancelRequested = FALSE
    /\ art = [a \in Attempts |-> [o \in Outputs |-> "none"]]
    /\ objects = [a \in Attempts |-> {}]
    /\ disk = [a \in Attempts |-> NoDirectory]
    /\ wk = [Fresh(0) EXCEPT !.pc = "down"]
    /\ executed = [a \in Attempts |-> 0]
    /\ callFaults = 0
    /\ crashes = 0

-----------------------------------------------------------------------------
(* The upload journal *)

\* UploadJournal.load: a manifest, every ciphertext at its full size, and no
\* other entry in the directory.
Loadable(d) ==
    d.manifest /\ ~d.temp /\ \A o \in Outputs : d.files[o] \in {"volatile", "durable"}

PendingResults == {a \in Attempts : Loadable(disk[a])}

\* The directory with one more ciphertext gone.
Unlinked(d) ==
    {[d EXCEPT !.files[o] = "none"] : o \in {x \in Outputs : d.files[x] # "none"}}

-----------------------------------------------------------------------------
(* The Gateway's answers *)

LeaseValid(a) == att[a].lease = "live"

\* heartbeat_attempt answers "cancelled" for a cancelled task even when the
\* lease is gone.
AttemptHeartbeat(a) ==
    IF cancelRequested THEN "cancelled" ELSE IF LeaseValid(a) THEN "ok" ELSE "lost"

\* _request: no answer at all is GatewayUnavailableError; every HTTP error but
\* LEASE_LOST and FENCING_TOKEN_STALE (a 5xx, a 429, the page of a proxy) is
\* GatewayRequestError.  Either may follow a call that took effect.
Faults == {"unavailable", "rejected"}

\* What stops process and resume_pending when a heartbeat brings it.
Errors == Faults \cup {"lost"}

Answers(a) ==
    {AttemptHeartbeat(a)} \cup (IF callFaults < MaxCallFaults THEN Faults ELSE {})

Paid(answer) == callFaults' = IF answer \in Faults THEN callFaults + 1 ELSE callFaults
CallFault == callFaults < MaxCallFaults /\ callFaults' = callFaults + 1

\* finish_attempt on a valid lease of an open attempt; a report of cancellation
\* needs a cancelled task.
Accepts(a, report) ==
    /\ LeaseValid(a) /\ att[a].state \in LiveStates
    /\ report = "cancelled" => cancelRequested

Finished(a, report) ==
    [att EXCEPT ![a] = [state |-> IF cancelRequested THEN "cancelled" ELSE report,
                        lease |-> "released"]]

-----------------------------------------------------------------------------
(* How a call of process or resume_pending ends *)

Loop(w) == Fresh(w.polled)

\* The keeper is stopped before a terminal call.
Fail(w, report) == [w EXCEPT !.pc = "fail", !.report = report]

Discard(w, then, report) ==
    [w EXCEPT !.pc = "discard", !.then = then, !.report = report]

RaiseDiscardingOnOutage(w, e) ==
    IF w.journaled THEN Discard(w, "loop", "none") ELSE Loop(w)

\* LeaseLostError and GatewayRequestError give the journaled result up, the
\* second one by the Gateway's rejection; GatewayUnavailableError keeps it.
RaiseError(w, e) ==
    IF ~w.journaled \/ e = "unavailable" THEN Loop(w)
    ELSE Discard(w, IF e = "rejected" THEN "reject" ELSE "loop", "none")

\* process learns of a cancellation from any heartbeat; resume_pending ignores it.
Directed(w, answer) ==
    [w EXCEPT !.cancelled = @ \/ (answer = "cancelled" /\ w.mode = "process")]

\* report(): the keeper's error first, then a heartbeat of its own.
Heard(w, answer, next) ==
    IF w.error # "none" THEN RaiseError(w, w.error)
    ELSE IF answer \in Errors THEN RaiseError(w, answer)
    ELSE [Directed(w, answer) EXCEPT !.pc = next]

-----------------------------------------------------------------------------
(* The serve loop *)

Start ==
    /\ wk.pc = "down"
    /\ wk' = Fresh(0)
    /\ UNCHANGED <<gateway, disk, executed, callFaults, crashes>>

\* oldest_pending: directories that do not load are moved to quarantine.
Scanned == [a \in Attempts |-> IF Loadable(disk[a]) THEN disk[a] ELSE NoDirectory]

ResumedWith(a) ==
    [Loop(wk) EXCEPT !.pc = "reconnect", !.mode = "resume", !.a = a,
                     !.journaled = TRUE, !.todo = disk[a].pending]

\* The loop resumes a pending result before it asks for new work.
Scan ==
    /\ wk.pc = "loop"
    /\ disk' = Scanned
    /\ \/ \E a \in PendingResults : wk' = ResumedWith(a)
       \/ PendingResults = {} /\ wk' = [wk EXCEPT !.pc = "poll"]
    /\ UNCHANGED <<gateway, executed, callFaults, crashes>>

Offered(a) ==
    /\ att[a].state = "none" /\ ~cancelRequested
    /\ a > 1 => att[a - 1].state \in {"failed", "expired"}

ProcessKeepingKey(a) ==
    [Loop(wk) EXCEPT !.pc = "prepare", !.mode = "process", !.a = a, !.polled = a]

Process(a) ==
    [Loop(wk) EXCEPT !.pc = "prepare", !.mode = "process", !.a = a, !.polled = 0]

\* leased_attempt_view: what is left of a lease that was answered before.
LeasedView(a) == LeaseValid(a) /\ att[a].state \in LiveStates

\* The answer recorded under the key of the poll: the same lease, or LEASE_LOST,
\* which leaves the key with the Worker.
ReplayedLease(a) == IF LeasedView(a) THEN Process(a) ELSE Loop(wk)

\* poll_lease keeps its idempotency key until an answer arrives, so the next
\* call replays the lease that was granted; lease and reserve_output_artifacts
\* at the Gateway.
PollLease ==
    /\ wk.pc = "poll"
    /\ \/ /\ wk.polled # 0
          /\ wk' = ReplayedLease(wk.polled)
          /\ UNCHANGED <<att, art, callFaults>>
       \/ /\ wk.polled = 0
          /\ \E a \in Attempts :
                /\ Offered(a)
                /\ att' = [att EXCEPT ![a] = [state |-> "leased", lease |-> "live"]]
                /\ art' = [art EXCEPT ![a] = [o \in Outputs |-> "pending"]]
                /\ \/ wk' = Process(a) /\ UNCHANGED callFaults
                   \/ wk' = [Loop(wk) EXCEPT !.polled = a] /\ CallFault
       \/ /\ wk.polled = 0
          /\ \A a \in Attempts : ~Offered(a)
          /\ wk' = Loop(wk)
          /\ UNCHANGED <<att, art, callFaults>>
    /\ UNCHANGED <<cancelRequested, objects, disk, executed, crashes>>

\* refresh_session: the Gateway finds no answer under the key and the new token.
RefreshSession ==
    /\ wk.pc = "poll" /\ wk.polled # 0
    /\ wk' = [wk EXCEPT !.polled = 0]
    /\ UNCHANGED <<gateway, disk, executed, callFaults, crashes>>

-----------------------------------------------------------------------------
(* process: from the lease to the executed result *)

\* materialize_lease: an envelope, a payload or a ticket of the lease does not
\* decrypt or parse, and poll_lease reports the attempt.
Unmaterialized(w) == Fail(w, "failed")

\* The lease is of no use, the Executor does not support it, or it is over.
Refuse ==
    /\ wk.pc = "prepare"
    /\ wk' \in {Unmaterialized(wk), Fail(wk, "failed")}
    /\ UNCHANGED <<gateway, disk, executed, callFaults, crashes>>

\* The first heartbeat, after which the keeper runs.
Prepare ==
    /\ wk.pc = "prepare"
    /\ \E answer \in Answers(wk.a) : wk' = Heard(wk, answer, "download") /\ Paid(answer)
    /\ UNCHANGED <<gateway, disk, executed, crashes>>

\* Progress callbacks of a download, an execution or an upload.
Report ==
    /\ wk.pc \in {"download", "execute", "upload"}
    /\ wk.pc = "upload" => wk.todo # {}
    /\ \E answer \in Answers(wk.a) :
          /\ wk' = Heard(wk, answer, wk.pc)
          /\ wk' # wk
          /\ IF wk.error = "none" THEN Paid(answer) ELSE UNCHANGED callFaults
    /\ UNCHANGED <<gateway, disk, executed, crashes>>

Download ==
    /\ wk.pc = "download"
    /\ \/ wk' = IF wk.cancelled THEN Fail(wk, "cancelled") ELSE [wk EXCEPT !.pc = "start"]
       \/ wk' = Fail(wk, "failed")
    /\ UNCHANGED <<gateway, disk, executed, callFaults, crashes>>

\* heartbeat_attempt with started.
StartedAt(a) ==
    IF LeaseValid(a) /\ ~cancelRequested /\ att[a].state = "leased"
    THEN [att EXCEPT ![a].state = "running"] ELSE att

MarkStarted ==
    /\ wk.pc = "start"
    /\ \E answer \in Answers(wk.a) :
          LET w == Heard(wk, answer, "execute")
          IN  IF wk.error # "none"
              THEN wk' = w /\ UNCHANGED <<att, executed, callFaults>>
              ELSE /\ Paid(answer)
                   /\ \/ answer \notin Faults /\ att' = StartedAt(wk.a)
                      \/ answer \in Faults /\ att' \in {att, StartedAt(wk.a)}
                   /\ wk' = IF w.pc = "execute" /\ w.cancelled THEN Fail(w, "cancelled") ELSE w
                   /\ executed' = IF wk'.pc = "execute"
                                  THEN [executed EXCEPT ![wk.a] = @ + 1] ELSE executed
    /\ UNCHANGED <<cancelRequested, art, objects, disk, crashes>>

\* The Executor polls is_cancelled, which the keeper also raises on an error.
\* A stray interrupt of ComfyUI looks like a cancellation.
Execute ==
    /\ wk.pc = "execute"
    /\ \/ /\ wk' = IF wk.error # "none" THEN RaiseError(wk, wk.error) ELSE [wk EXCEPT !.pc = "encrypt"]
          /\ UNCHANGED callFaults
       \/ wk.cancelled /\ wk' = Fail(wk, "cancelled") /\ UNCHANGED callFaults
       \/ wk' = Fail(wk, "failed") /\ UNCHANGED callFaults
       \/ ~wk.cancelled /\ wk' = Fail(wk, "cancelled") /\ CallFault
    /\ UNCHANGED <<gateway, disk, executed, crashes>>

\* Each output is encrypted straight into the spool directory.
Encrypt ==
    /\ wk.pc = "encrypt"
    /\ LET left == {o \in Outputs : disk[wk.a].files[o] = "none"} IN
       \/ /\ \E o \in left : disk' = [disk EXCEPT ![wk.a].files[o] = "volatile"]
          /\ UNCHANGED wk
       \/ /\ left = {}
          /\ wk' = IF wk.cancelled THEN Fail(wk, "cancelled")
                   ELSE [wk EXCEPT !.pc = "sync", !.remaining = Outputs]
          /\ UNCHANGED disk
       \/ /\ left # {}                       \* an output the lease has no ticket for
          /\ wk' = Fail(wk, "failed")
          /\ UNCHANGED disk
    /\ UNCHANGED <<gateway, executed, callFaults, crashes>>

-----------------------------------------------------------------------------
(* UploadJournal.save, first and for every uploaded output *)

SyncNothing ==
    /\ wk.pc = "sync"
    /\ wk' = [wk EXCEPT !.pc = "write"]
    /\ UNCHANGED <<gateway, disk, executed, callFaults, crashes>>

Sync ==
    /\ wk.pc = "sync"
    /\ disk' = [disk EXCEPT ![wk.a].files = [o \in Outputs |-> "durable"]]
    /\ wk' = [wk EXCEPT !.pc = "write"]
    /\ UNCHANGED <<gateway, executed, callFaults, crashes>>

\* mkstemp in the attempt's own directory.
WriteTemporary ==
    /\ wk.pc = "write"
    /\ disk' = [disk EXCEPT ![wk.a].temp = TRUE]
    /\ wk' = [wk EXCEPT !.pc = "publish"]
    /\ UNCHANGED <<gateway, executed, callFaults, crashes>>

\* os.replace and the directory's fsync.
PublishManifest ==
    /\ wk.pc = "publish"
    /\ disk' = [disk EXCEPT ![wk.a] = [@ EXCEPT !.temp = FALSE, !.manifest = TRUE,
                                                !.pending = wk.remaining]]
    /\ wk' = [wk EXCEPT !.pc = "upload", !.todo = wk.remaining, !.journaled = TRUE]
    /\ UNCHANGED <<gateway, executed, callFaults, crashes>>

\* UploadJournalError: process reports INTERNAL_ERROR and leaves the spool;
\* nothing catches it in resume_pending and the process ends.
SaveFails ==
    /\ wk.pc \in {"sync", "write", "publish"}
    /\ CallFault
    /\ disk' = [disk EXCEPT ![wk.a].temp = FALSE]
    /\ wk' = IF wk.mode = "process" THEN Fail(wk, "failed") ELSE [Fresh(0) EXCEPT !.pc = "down"]
    /\ UNCHANGED <<gateway, executed, crashes>>

-----------------------------------------------------------------------------
(* Upload *)

\* A PUT to the local store marks the row in the same request.
Stored(a, o) ==
    /\ objects' = [objects EXCEPT ![a] = @ \cup {o}]
    /\ art' = IF LocalStore /\ art[a][o] = "pending"
              THEN [art EXCEPT ![a][o] = "uploaded"] ELSE art

\* mark_uploaded saves the journal again, without this output.
Marked(w, o) == [w EXCEPT !.pc = "sync", !.remaining = w.todo \ {o}]

Upload ==
    /\ wk.pc = "upload"
    /\ \E o \in wk.todo :
          /\ Stored(wk.a, o)
          /\ \/ wk' = Marked(wk, o) /\ UNCHANGED callFaults
             \/ wk' = Loop(wk) /\ CallFault       \* answer lost: UploadPendingError
    /\ UNCHANGED <<att, cancelRequested, disk, executed, crashes>>

\* A retryable transfer error keeps the spool; a refused transfer and a receipt
\* that does not match give it up.
UploadFails ==
    /\ wk.pc = "upload" /\ wk.todo # {}
    /\ CallFault
    /\ \/ wk' = Loop(wk) /\ UNCHANGED disk
       \/ wk' = Discard(wk, "fail", "failed") /\ UNCHANGED disk
       \/ /\ wk.mode = "resume"
          /\ wk' = Fail(wk, "failed")
          /\ disk' = [disk EXCEPT ![wk.a] = NoDirectory]
    /\ UNCHANGED <<gateway, executed, crashes>>

UploadsDone ==
    /\ wk.pc = "upload" /\ wk.todo = {}
    /\ wk' = IF wk.error # "none" THEN RaiseError(wk, wk.error)
             ELSE IF wk.cancelled THEN Discard(wk, "fail", "cancelled")
             ELSE [wk EXCEPT !.pc = "complete"]
    /\ UNCHANGED <<gateway, disk, executed, callFaults, crashes>>

-----------------------------------------------------------------------------
(* The terminal calls *)

\* replay_finished_attempt: the receipt committed with a finished attempt answers.
FinishReplayed(a) == att[a].state \in {"succeeded", "failed", "cancelled"}

\* attempt_finish first records what the store holds, in transactions of its own.
Observed(a) ==
    IF cancelRequested \/ FinishReplayed(a) THEN art
    ELSE [art EXCEPT ![a] = [o \in Outputs |->
             IF o \in objects[a] /\ @[o] \in {"pending", "uploaded"} THEN "uploaded" ELSE @[o]]]

Available(a) == [art EXCEPT ![a] = [o \in Outputs |-> "available"]]

CompletedAtGateway(a) ==
    IF Accepts(a, "succeeded") /\ (cancelRequested \/ Outputs \subseteq objects[a])
    THEN /\ att' = Finished(a, "succeeded")
         /\ art' = IF cancelRequested THEN art ELSE Available(a)
    ELSE att' = att /\ art' = Observed(a)

\* Accepted, replayed and LEASE_LOST end in a discard, and so does an HTTP error;
\* an outage does not, whatever part of the call took effect.
CompleteAttempt ==
    /\ wk.pc = "complete"
    /\ \/ /\ CompletedAtGateway(wk.a)
          /\ wk' = Discard(wk, "loop", "none")
          /\ UNCHANGED callFaults
       \/ /\ \/ CompletedAtGateway(wk.a)
             \/ att' = att /\ art' \in {art, Observed(wk.a)}
          /\ wk' \in {Loop(wk), Discard(wk, "reject", "none")}
          /\ CallFault
    /\ UNCHANGED <<cancelRequested, objects, disk, executed, crashes>>

\* fail: the signed report of a failure, once more under an older code when the
\* Gateway does not know the first.
Reported(a, report) == IF Accepts(a, report) THEN Finished(a, report) ELSE att

\* _report_failure.  The report is not retried, and an HTTP error may answer one
\* that was accepted.
ReportAttemptFailure ==
    /\ wk.pc = "fail"
    /\ wk' = Loop(wk)
    /\ \/ /\ att' = Reported(wk.a, wk.report)
          /\ UNCHANGED callFaults
       \/ att' \in {att, Reported(wk.a, wk.report)} /\ CallFault
    /\ UNCHANGED <<cancelRequested, art, objects, disk, executed, crashes>>

\* _discard_pending_attempt: remove loads the directory first and quarantines
\* one that does not load; then it unlinks file after file, the manifest last.
DiscardPending ==
    /\ wk.pc = "discard"
    /\ IF Loadable(disk[wk.a])
       THEN wk' = [wk EXCEPT !.pc = "unlink"] /\ UNCHANGED disk
       ELSE /\ disk' = [disk EXCEPT ![wk.a] = NoDirectory]
            /\ wk' = IF wk.then = "fail" THEN Fail(wk, wk.report) ELSE Loop(wk)
    /\ UNCHANGED <<gateway, executed, callFaults, crashes>>

Unlink ==
    /\ wk.pc = "unlink"
    /\ IF Unlinked(disk[wk.a]) # {}
       THEN \E d \in Unlinked(disk[wk.a]) : disk' = [disk EXCEPT ![wk.a] = d] /\ UNCHANGED wk
       ELSE /\ disk' = [disk EXCEPT ![wk.a] = NoDirectory]
            /\ wk' = IF wk.then = "fail" THEN Fail(wk, wk.report) ELSE Loop(wk)
    /\ UNCHANGED <<gateway, executed, callFaults, crashes>>

-----------------------------------------------------------------------------
(* resume_pending *)

Reconnect ==
    /\ wk.pc = "reconnect"
    /\ \E answer \in Answers(wk.a) : wk' = Heard(wk, answer, "renew") /\ Paid(answer)
    /\ UNCHANGED <<gateway, disk, executed, crashes>>

RefreshedUploaded(a) == {o \in Outputs : art[a][o] = "uploaded"}

\* refresh_output_artifacts returns the rows still pending.
Refreshed(a) == {o \in Outputs : art[a][o] = "pending"}

RenewTickets ==
    /\ wk.pc = "renew"
    /\ \/ /\ wk' = IF wk.error # "none" THEN RaiseError(wk, wk.error)
                   ELSE IF wk.todo = {} THEN [wk EXCEPT !.pc = "upload"]
                   ELSE IF ~LeaseValid(wk.a) THEN RaiseError(wk, "lost")
                   ELSE IF wk.todo \subseteq Refreshed(wk.a) THEN [wk EXCEPT !.pc = "upload"]
                   ELSE Loop(wk)                            \* UploadPendingError
          /\ UNCHANGED callFaults
       \/ /\ wk.error = "none" /\ wk.todo # {}
          /\ \E e \in Faults : wk' = RaiseError(wk, e)
          /\ CallFault
    /\ UNCHANGED <<gateway, disk, executed, crashes>>

-----------------------------------------------------------------------------
(* The keeper thread, the Gateway's own steps, and crashes *)

\* keep_lease_alive: an error ends the thread; in process it also sets cancelled.
KeeperHeartbeat ==
    /\ wk.pc \in KeeperRuns /\ wk.error = "none"
    /\ \E answer \in Answers(wk.a) :
          /\ wk' = IF answer \in Errors
                   THEN [wk EXCEPT !.error = answer, !.cancelled = @ \/ wk.mode = "process"]
                   ELSE Directed(wk, answer)
          /\ wk' # wk
          /\ Paid(answer)
    /\ UNCHANGED <<gateway, disk, executed, crashes>>

AttemptLeaseLapses(a) ==
    /\ att[a].lease = "live"
    /\ att' = [att EXCEPT ![a].lease = "lapsed"]
    /\ UNCHANGED <<cancelRequested, art, objects, disk, wk, executed, callFaults, crashes>>

\* _expire_leases.
SweepLease(a) ==
    /\ att[a].lease = "lapsed"
    /\ att' = [att EXCEPT ![a] = [state |-> "expired", lease |-> "released"]]
    /\ UNCHANGED <<cancelRequested, art, objects, disk, wk, executed, callFaults, crashes>>

\* cancel_task: a running attempt keeps its lease for the final report.  Between
\* two attempts the task waits for another Worker and can be cancelled too.
CancelTask ==
    /\ ~cancelRequested
    /\ \A a \in Attempts : att[a].state # "succeeded"
    /\ cancelRequested' = TRUE
    /\ att' = [a \in Attempts |-> IF att[a].state = "leased"
                                  THEN [state |-> "cancelled", lease |-> "released"]
                                  ELSE att[a]]
    /\ UNCHANGED <<art, objects, disk, wk, executed, callFaults, crashes>>

\* A kill leaves the page cache; a power loss tears what was not synchronized.
WorkerCrash(power) ==
    /\ wk.pc # "down" /\ crashes < MaxCrashes
    /\ crashes' = crashes + 1
    /\ wk' = [Fresh(0) EXCEPT !.pc = "down"]
    /\ disk' = IF ~power THEN disk
               ELSE [a \in Attempts |-> [disk[a] EXCEPT !.files = [o \in Outputs |->
                        IF disk[a].files[o] = "volatile" THEN "torn" ELSE disk[a].files[o]]]]
    /\ UNCHANGED <<gateway, executed, callFaults>>

-----------------------------------------------------------------------------
WorkerStep ==
    \/ Start \/ Scan \/ PollLease
    \/ Refuse \/ Prepare \/ Download \/ MarkStarted \/ Execute \/ Encrypt
    \/ Sync \/ WriteTemporary \/ PublishManifest \/ SaveFails
    \/ Upload \/ UploadFails \/ UploadsDone
    \/ CompleteAttempt \/ ReportAttemptFailure \/ DiscardPending \/ Unlink
    \/ Reconnect \/ RenewTickets

CoreNext ==
    \/ WorkerStep \/ RefreshSession \/ Report \/ KeeperHeartbeat \/ CancelTask
    \/ \E a \in Attempts : AttemptLeaseLapses(a) \/ SweepLease(a)
    \/ \E power \in BOOLEAN : WorkerCrash(power)

\* Nobody renews the lease: the process is not inside a call for this attempt.
AbandonedLapses(a) ==
    /\ wk.a # a \/ wk.pc \in {"down", "loop", "poll"}
    /\ a \notin PendingResults /\ wk.polled # a
    /\ AttemptLeaseLapses(a)

-----------------------------------------------------------------------------
(* Properties *)

\* A published manifest never points at a ciphertext that a power loss could
\* still tear, or has torn: UploadJournal.save synchronizes the files first.
\* However many crashes and resumed uploads lie between, success is reported
\* only when the bytes of every output are in the store (complete).
PublishedIsDurable ==
    /\ \A a \in Attempts : disk[a].manifest =>
         \A o \in Outputs : disk[a].files[o] \in {"durable", "none"}
    /\ wk.pc = "complete" => Outputs \subseteq objects[wk.a]

\* No attempt is executed twice: neither a replayed lease answer nor a restart
\* with a journaled result reaches the Executor again (process, poll_lease).
ExecutedOnce == \A a \in Attempts : executed[a] <= 1

\* A durable result is dropped without a report only when its lease is over at
\* the Gateway or an HTTP error answered a call for it, and as cancelled only
\* when the task was cancelled: a call that nobody answers never costs a result,
\* whenever it happens (process, resume_pending, _discard_pending_attempt).
\* An attempt ends as cancelled only if the task was, although the keeper turns
\* a heartbeat it could not deliver into cancelled.
ResultKeptWhileLeased ==
    /\ wk.pc \in {"discard", "unlink"} =>
         /\ wk.then = "loop" => ~LeaseValid(wk.a)
         /\ wk.report = "cancelled" => cancelRequested
    /\ \A a \in Attempts : att[a].state = "cancelled" => cancelRequested

\* Every result in the spool is eventually published or given up, so that the
\* Worker returns to taking leases (resume_pending).
SpoolDrains == \A a \in Attempts : (a \in PendingResults) ~> (a \notin PendingResults)

\* Every leased attempt is eventually closed at the Gateway: by a report, or by
\* the sweeper once the Worker has stopped renewing it.  No attempt is leased
\* before the one before it is closed, so an open attempt leads to a state
\* without one.
AttemptsEnd == []<>(\A a \in Attempts : att[a].state \notin LiveStates)

=============================================================================
