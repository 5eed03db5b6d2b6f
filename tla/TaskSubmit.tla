----------------------------- MODULE TaskSubmit -----------------------------
(***************************************************************************)
(* `vgen task submit`, invoked again under the same --idempotency-key      *)
(* after a network error: prepare the task, encrypt and upload its inputs, *)
(* commit it.  The Gateway's side is one handler per request, which goes   *)
(* on when its client has given up.                                        *)
(*                                                                         *)
(* A ciphertext and its digest are named by the invocation that made it:   *)
(* every invocation draws a new task data key, so no two are equal.  The   *)
(* size is a function of the file, so sizes always match.  A ticket is     *)
(* used once by the one invocation it was issued to.                       *)
(***************************************************************************)
EXTENDS Naturals, FiniteSets, Sequences

CONSTANTS NumInputs,        \* input files of the task, uploaded in this order
          MaxSubmits,       \* invocations of the command
          MaxSessions,      \* sessions of the client's Device
          MaxTaskRows,      \* tasks the Gateway will insert
          MaxSubmitFaults   \* lost requests, lost answers, Gateway crashes

ASSUME SubmitAssumption == NumInputs \in Nat

VARIABLES artifactStore,    \* "local" or "oss": VGEN_ARTIFACT_STORE
          taskRows,         \* tasks, with the rows of their input artifacts
          objects,          \* task -> input -> the ciphertext stored, 0 if none
          records,          \* idempotency_records
          handlers,         \* the requests inside the Gateway
          submit,           \* the running, or last, invocation
          submitFaults
submitVars == <<artifactStore, taskRows, objects, records, handlers, submit, submitFaults>>

Inputs == 1..NumInputs
Unreserved == [i \in Inputs |-> [state |-> "none", digest |-> 0]]
Reserved == [i \in Inputs |-> [state |-> "pending", digest |-> 0]]

SubmitInit ==
    /\ artifactStore \in {"local", "oss"}
    /\ taskRows = <<>> /\ objects = <<>>
    /\ records = {} /\ handlers = {}
    /\ submit = [run |-> 0, pc |-> "failed", sess |-> 1, task |-> 0,
                 tickets |-> {}, uploaded |-> 0]
    /\ submitFaults = 0

SubmitFault == submitFaults < MaxSubmitFaults /\ submitFaults' = submitFaults + 1

Becomes(h, g) == handlers' = (handlers \ {h}) \cup {g}
Answered(h) == handlers' = handlers \ {h}
\* The answer reaches the invocation that is still waiting for it.
Inform(h, waiting, then) ==
    submit' = IF submit.run = h.run /\ submit.pc = waiting THEN then ELSE submit
Failed == [submit EXCEPT !.pc = "failed"]

Recorded(h) == {r \in records : r.sess = h.sess /\ r.key = h.key}
\* INSERT OR IGNORE: the first answer stored under a key stays.
Put(h, answer) ==
    records' = IF Recorded(h) # {} THEN records
               ELSE records \cup {[sess |-> h.sess, key |-> h.key, answer |-> answer]}

----------------------------------------------------------------------------
(* POST /tasks/prepare.                                                    *)

StartSubmit ==
    /\ submit.pc = "failed" /\ submit.run < MaxSubmits
    /\ submit' = [submit EXCEPT !.run = @ + 1, !.pc = "preparing", !.task = 0,
                                !.tickets = {}, !.uploaded = 0]
    /\ handlers' = handlers \cup
           {[kind |-> "prepare", key |-> 0, run |-> submit.run + 1, sess |-> submit.sess,
             task |-> 0, step |-> "sent"]}
    /\ UNCHANGED <<artifactStore, taskRows, objects, records, submitFaults>>

\* The stored session expired between two invocations: the client logs in.
RenewLogin ==
    /\ submit.pc = "failed" /\ submit.run > 0 /\ submit.sess < MaxSessions
    /\ submit' = [submit EXCEPT !.sess = @ + 1]
    /\ UNCHANGED <<artifactStore, taskRows, objects, records, handlers, submitFaults>>

Expired(rows) ==
    [t \in DOMAIN rows |->
        IF rows[t].state = "prepared" /\ rows[t].life = "lapsed"
        THEN [rows[t] EXCEPT !.state = "expired"] ELSE rows[t]]

Pending(rows, t) == {i \in Inputs : rows[t].inputs[i].state = "pending"}

Prepared(t, rows) ==
    [submit EXCEPT !.pc = "uploading", !.task = t, !.tickets = Pending(rows, t)]

\* A record names the task: the answer is the task with fresh tickets for the
\* inputs not yet uploaded, if the sweep leaves it prepared; the stored
\* conflict, 0, is answered as it is.
ReplayedPrepare(t) ==
    IF t # 0 /\ Expired(taskRows)[t].state = "prepared" THEN Prepared(t, taskRows) ELSE Failed

\* No record: on to the handler.
LookUpPrepare(h) ==
    /\ h.kind = "prepare" /\ h.step = "sent"
    /\ IF Recorded(h) = {}
       THEN Becomes(h, [h EXCEPT !.step = "run"]) /\ UNCHANGED <<taskRows, submit>>
       ELSE LET t == (CHOOSE r \in Recorded(h) : TRUE).answer IN
            /\ Answered(h)
            /\ taskRows' = IF t = 0 THEN taskRows ELSE Expired(taskRows)
            /\ Inform(h, "preparing", ReplayedPrepare(t))
    /\ UNCHANGED <<artifactStore, objects, records, submitFaults>>

\* prepare_task: one transaction, which expires what has lapsed.  No eligible
\* Worker is an answer that is not stored; a Worker without an approved rate is
\* a conflict, 0, which is.
PrepareTask(h) ==
    /\ h.kind = "prepare" /\ h.step = "run"
    /\ \/ /\ Len(taskRows) < MaxTaskRows
          /\ taskRows' = Append(Expired(taskRows),
                 [state |-> "prepared", life |-> "live", sess |-> h.sess,
                  inputs |-> Unreserved, payload |-> 0])
          /\ objects' = Append(objects, [i \in Inputs |-> 0])
          /\ Becomes(h, [h EXCEPT !.task = Len(taskRows) + 1, !.step = "reserve"])
          /\ UNCHANGED submit
       \/ /\ Answered(h) /\ Inform(h, "preparing", Failed)
          /\ UNCHANGED <<taskRows, objects>>
       \/ /\ Becomes(h, [h EXCEPT !.step = "store"])
          /\ UNCHANGED <<taskRows, objects, submit>>
    /\ UNCHANGED <<artifactStore, records, submitFaults>>

\* reserve_input_artifacts: the second transaction of the same request.
ReserveInputs(h) ==
    LET prepared == taskRows[h.task].state = "prepared" IN
    /\ h.kind = "prepare" /\ h.step = "reserve"
    /\ taskRows' = IF prepared THEN [taskRows EXCEPT ![h.task].inputs = Reserved] ELSE taskRows
    /\ Becomes(h, [h EXCEPT !.step = "store", !.task = IF prepared THEN @ ELSE 0])
    /\ UNCHANGED <<artifactStore, objects, records, submit, submitFaults>>

StorePrepare(h) ==
    /\ h.kind = "prepare" /\ h.step = "store"
    /\ Put(h, h.task)
    /\ Answered(h)
    /\ Inform(h, "preparing", IF h.task = 0 THEN Failed ELSE Prepared(h.task, taskRows))
    /\ UNCHANGED <<artifactStore, taskRows, objects, submitFaults>>

----------------------------------------------------------------------------
(* encrypt_and_upload_inputs, and PUT /artifacts/transfer.                 *)

\* No key is disclosed to a Worker whose certificate or allocation does not
\* verify: the command ends, and the task it prepared lapses.
RefusePrepared ==
    /\ submit.pc = "uploading" /\ submit.uploaded = 0
    /\ submit' = Failed
    /\ UNCHANGED <<artifactStore, taskRows, objects, records, handlers, submitFaults>>

NextInput == submit.uploaded + 1

\* With the local store the Gateway receives the ciphertext; OSS takes it
\* directly from the client, who may not hear of it.
UploadInput ==
    /\ submit.pc = "uploading" /\ submit.uploaded < NumInputs
    /\ IF NextInput \notin submit.tickets
       THEN submit' = Failed /\ UNCHANGED <<handlers, objects, submitFaults>>
       ELSE IF artifactStore = "local"
       THEN /\ handlers' = handlers \cup
                   {[kind |-> "put", run |-> submit.run, task |-> submit.task,
                     input |-> NextInput, step |-> "body"]}
            /\ submit' = [submit EXCEPT !.pc = "putting"]
            /\ UNCHANGED <<objects, submitFaults>>
       ELSE /\ objects' = [objects EXCEPT ![submit.task][NextInput] = submit.run]
            /\ \/ submit' = [submit EXCEPT !.uploaded = @ + 1] /\ UNCHANGED submitFaults
               \/ submit' = Failed /\ SubmitFault
            /\ UNCHANGED handlers
    /\ UNCHANGED <<artifactStore, taskRows, records>>

\* The UPDATE of mark_artifact_uploaded, whatever the state of the task.
Marked(rows, t, i, run) ==
    IF rows[t].inputs[i].state \in {"pending", "uploaded"}
    THEN [rows EXCEPT ![t].inputs[i] = [state |-> "uploaded", digest |-> run]]
    ELSE rows

\* mark_artifact_uploaded moved in front of put_chunks.
MarkThenStore(h) ==
    /\ h.kind = "put" /\ h.step = "body"
    /\ taskRows' = Marked(taskRows, h.task, h.input, h.run)
    /\ Becomes(h, [h EXCEPT !.step = "stored"])
    /\ Inform(h, "putting", [submit EXCEPT !.pc = "uploading", !.uploaded = @ + 1])
    /\ UNCHANGED <<artifactStore, objects, records, submitFaults>>

\* put_chunks: a temporary file, made durable, replaces the object.
StoreObject(h) ==
    /\ h.kind = "put" /\ h.step = "body"
    /\ objects' = [objects EXCEPT ![h.task][h.input] = h.run]
    /\ Becomes(h, [h EXCEPT !.step = "stored"])
    /\ UNCHANGED <<artifactStore, taskRows, records, submit, submitFaults>>

MarkUploaded(h) ==
    /\ h.kind = "put" /\ h.step = "stored"
    /\ taskRows' = Marked(taskRows, h.task, h.input, h.run)
    /\ Answered(h)
    /\ Inform(h, "putting", [submit EXCEPT !.pc = "uploading", !.uploaded = @ + 1])
    /\ UNCHANGED <<artifactStore, objects, records, submitFaults>>

----------------------------------------------------------------------------
(* POST /tasks/{id}/commit.                                                *)

SendCommit ==
    /\ submit.pc = "uploading" /\ submit.uploaded = NumInputs
    /\ submit' = [submit EXCEPT !.pc = "committing"]
    /\ handlers' = handlers \cup
           {[kind |-> "commit", key |-> submit.task, run |-> submit.run, sess |-> submit.sess,
             task |-> submit.task, pending |-> {}, step |-> "sent"]}
    /\ UNCHANGED <<artifactStore, taskRows, objects, records, submitFaults>>

Refuse(h) == Answered(h) /\ Inform(h, "committing", Failed)

\* The route reads the inputs still pending.  A record under the key is of
\* another invocation, whose body differs.  OSS wants one receipt for each.
ReadPending(h) ==
    LET pending == Pending(taskRows, h.task) IN
    /\ h.kind = "commit" /\ h.step = "sent"
    /\ IF Recorded(h) # {} \/ (artifactStore # "local" /\ pending # Inputs)
       THEN Refuse(h)
       ELSE Becomes(h, [h EXCEPT !.step = "receipts", !.pending = pending]) /\ UNCHANGED submit
    /\ UNCHANGED <<artifactStore, taskRows, objects, records, submitFaults>>

\* One receipt after the other: the object must be there with the size that
\* was announced; the digest recorded is the one the client reports.
TakeReceipt(h) ==
    /\ h.kind = "commit" /\ h.step = "receipts"
    /\ \E i \in h.pending :
        /\ \A y \in h.pending : i <= y
        /\ IF objects[h.task][i] = 0
           THEN Refuse(h) /\ UNCHANGED taskRows
           ELSE /\ taskRows' = Marked(taskRows, h.task, i, h.run)
                /\ Becomes(h, [h EXCEPT !.pending = h.pending \ {i}])
                /\ UNCHANGED submit
    /\ UNCHANGED <<artifactStore, objects, records, submitFaults>>

Committable(row) ==
    /\ row.state = "prepared" /\ row.life = "live"
    /\ \A i \in Inputs : row.inputs[i].state = "uploaded"

\* commit_task: every refusal of the transaction is a conflict, and leaves the
\* row as it was.
CommitTask(h) ==
    LET ok == Committable(taskRows[h.task]) IN
    /\ h.kind = "commit" /\ h.step = "receipts" /\ h.pending = {}
    /\ taskRows' = IF ok THEN [taskRows EXCEPT ![h.task].state = "queued", ![h.task].payload = h.run]
                   ELSE taskRows
    /\ Becomes(h, [h EXCEPT !.step = IF ok THEN "queued" ELSE "conflict"])
    /\ UNCHANGED <<artifactStore, objects, records, submit, submitFaults>>

\* The answer, a conflict too, is stored under the key and sent.
StoreCommit(h) ==
    /\ h.kind = "commit" /\ h.step \in {"queued", "conflict"}
    /\ Put(h, h.task)
    /\ Answered(h)
    /\ Inform(h, "committing", [submit EXCEPT !.pc = IF h.step = "queued" THEN "done" ELSE "failed"])
    /\ UNCHANGED <<artifactStore, taskRows, objects, submitFaults>>

----------------------------------------------------------------------------
(* The clock, the network and the Gateway process.                         *)

ReservationLapses(t) ==
    /\ taskRows[t].state = "prepared" /\ taskRows[t].life = "live"
    /\ taskRows' = [taskRows EXCEPT ![t].life = "lapsed"]
    /\ UNCHANGED <<artifactStore, objects, records, handlers, submit, submitFaults>>

SweepTasks ==
    /\ taskRows' = Expired(taskRows)
    /\ UNCHANGED <<artifactStore, objects, records, handlers, submit, submitFaults>>

Waiting == {"preparing", "putting", "committing"}

\* A network error ends the command; the request is lost, or goes on alone.
GiveUp ==
    /\ submit.pc \in Waiting /\ SubmitFault
    /\ submit' = Failed
    /\ \/ UNCHANGED handlers
       \/ handlers' = {h \in handlers : ~(h.run = submit.run /\ h.step \in {"sent", "body"})}
    /\ UNCHANGED <<artifactStore, taskRows, objects, records>>

GatewayCrashes ==
    /\ handlers # {} /\ SubmitFault
    /\ handlers' = {}
    /\ submit' = IF submit.pc \in Waiting THEN Failed ELSE submit
    /\ UNCHANGED <<artifactStore, taskRows, objects, records>>

SubmitNext ==
    \/ StartSubmit \/ RenewLogin \/ RefusePrepared \/ UploadInput \/ SendCommit
    \/ \E h \in handlers :
           \/ LookUpPrepare(h) \/ PrepareTask(h) \/ ReserveInputs(h) \/ StorePrepare(h)
           \/ StoreObject(h) \/ MarkUploaded(h)
           \/ ReadPending(h) \/ TakeReceipt(h)
           \/ CommitTask(h) \/ StoreCommit(h)
    \/ \E t \in DOMAIN taskRows : ReservationLapses(t)
    \/ SweepTasks \/ GiveUp \/ GatewayCrashes

----------------------------------------------------------------------------
Queued == {t \in DOMAIN taskRows : taskRows[t].state = "queued"}

\* A queued task has every input: the row is uploaded and the object is in the
\* store (artifact_transfer stores before it marks; commit_task counts rows).
QueuedInputsStored ==
    \A t \in Queued : \A i \in Inputs :
        taskRows[t].inputs[i].state = "uploaded" /\ objects[t][i] # 0

\* What the help text of --idempotency-key promises: reusing the key on a
\* network retry creates no second task to be charged.
QueuedOncePerKey == Cardinality(Queued) <= 1
=============================================================================
