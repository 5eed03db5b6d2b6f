----------------------------- MODULE WorkerEnroll -----------------------------
(***************************************************************************)
(* Enrolling a Windows Worker.  The Gateway keeps one row per Invite       *)
(* (gateway/repository.py); the Owner's `vgen worker add` issues it, waits *)
(* for the claim and approves it (cli/main.py); enroll-worker.ps1 prepares *)
(* a runtime, checks the credential of the machine, claims the Invite with *)
(* a local key (cli/worker_enrollment.py), stores the new credential       *)
(* (worker/credentials.py), and puts the supervised Worker back when it    *)
(* fails.  The script can die between any two of its steps.                *)
(***************************************************************************)
EXTENDS Integers, FiniteSets

CONSTANTS
    Invites,          \* Worker Invites, each with its own Worker ID
    WorkerKeys,       \* key pairs this machine may generate
    NoKey,            \* no key
    OtherKey,         \* the key of a second machine given the same Invite
    Approver,         \* "cli": vgen worker add; "api": another approving client
    MaxEnrollFaults   \* bound on crashes, failures, timeouts and revocations

VARIABLES
    fleet,        \* the Gateway's enrollment and Worker rows, per Invite
    owner,        \* the approving client
    win,          \* one run of enroll-worker.ps1
    disk,         \* files of the Windows machine
    sup,          \* the scheduled task that supervises the Worker
    enrollFaults  \* faults left

enrollVars == <<fleet, owner, win, disk, sup, enrollFaults>>

ASSUME EnrollAssumption == Approver \in {"cli", "api"} /\ OtherKey \notin WorkerKeys

NoCredential == [state |-> "none", key |-> NoKey]

Whole(key) == [state |-> "whole", key |-> key]

TornFile == [state |-> "torn", key |-> NoKey]

NoRow == [state |-> "none", live |-> TRUE, key |-> NoKey, worker |-> "none"]

Ended(exit) == [pc |-> "idle", mode |-> "plain", again |-> FALSE, inv |-> "none", key |-> NoKey,
                stopped |-> FALSE, was |-> FALSE, exit |-> exit]

EnrollInit ==
    /\ fleet = [i \in Invites |-> NoRow]
    /\ owner = [pc |-> "idle", inv |-> "none", shown |-> [i \in Invites |-> {}], saw |-> NoKey]
    /\ win = Ended("none")
    /\ disk = [cred |-> NoCredential, archived |-> {}, id |-> [f \in {"first", "again"} |-> NoCredential],
               runtime |-> "none", staging |-> FALSE, quarantine |-> "none", launch |-> "old"]
    /\ sup = [installed |-> FALSE, running |-> FALSE, request |-> FALSE]
    /\ enrollFaults = MaxEnrollFaults

EnrollFault == enrollFaults > 0 /\ enrollFaults' = enrollFaults - 1

-----------------------------------------------------------------------------
(* The Gateway: one transaction per operation *)

Registered(key) == \E i \in Invites : fleet[i].worker # "none" /\ fleet[i].key = key

\* A session needs the Worker's own key and a Worker that is not revoked.
LogsIn(key) == \E i \in Invites : fleet[i].worker = "enrolled" /\ fleet[i].key = key

\* Claiming binds the first key; the same key may claim again and reads the row.
Claimable(i, key) ==
    \/ fleet[i].state = "issued" /\ fleet[i].live
    \/ fleet[i].state \in {"pending", "active"} /\ fleet[i].key = key

Claimed(i, key) ==
    IF fleet[i].state = "issued"
    THEN [fleet EXCEPT ![i].state = "pending", ![i].key = key]
    ELSE fleet

\* What the Gateway shows the issuer: the claim it kept, never its signature.
EnrollmentView(i) == [state |-> fleet[i].state, claim |-> fleet[i].key, proof |-> NoKey]

\* Approving inserts the Worker under the claimed key, which is unique among
\* Workers: for a key already registered the transaction fails.
Approvable(i, key) == fleet[i].state = "pending" /\ fleet[i].key = key /\ ~Registered(key)

Approve(i) == fleet' = [fleet EXCEPT ![i].state = "active", ![i].worker = "enrolled"]

Reject(i) ==
    /\ fleet[i].state = "pending"
    /\ fleet' = [fleet EXCEPT ![i].state = "rejected"]
    /\ UNCHANGED <<owner, win, disk, sup, enrollFaults>>

\* leave_worker with force: the row and its sessions are revoked.
Revoke(i) ==
    /\ EnrollFault
    /\ fleet[i].worker = "enrolled"
    /\ fleet' = [fleet EXCEPT ![i].worker = "revoked"]
    /\ UNCHANGED <<owner, win, disk, sup>>

InviteLapses(i) ==
    /\ EnrollFault
    /\ fleet[i].state = "issued" /\ fleet[i].live
    /\ fleet' = [fleet EXCEPT ![i].live = FALSE]
    /\ UNCHANGED <<owner, win, disk, sup>>

\* The same Invite is pasted on a second machine.
OtherMachineClaims(i) ==
    /\ EnrollFault
    /\ fleet[i].state = "issued" /\ fleet[i].live
    /\ fleet' = Claimed(i, OtherKey)
    /\ UNCHANGED <<owner, win, disk, sup>>

-----------------------------------------------------------------------------
(* The Owner *)

OwnerGoes(pc) == owner' = [owner EXCEPT !.pc = pc]

WorkerAdd(i) ==
    /\ owner.pc \in {"idle", "done", "failed"}
    /\ fleet[i].state = "none"
    /\ fleet' = [fleet EXCEPT ![i].state = "issued"]
    /\ owner' = [owner EXCEPT !.pc = "waiting", !.inv = i]
    /\ UNCHANGED <<win, disk, sup, enrollFaults>>

OwnerPolls ==
    /\ owner.pc = "waiting"
    /\ \/ fleet[owner.inv].state = "pending" /\ OwnerGoes("code")
       \/ fleet[owner.inv].state \in {"active", "rejected"} /\ OwnerGoes("failed")
    /\ UNCHANGED <<fleet, win, disk, sup, enrollFaults>>

OwnerTimesOut ==
    /\ EnrollFault
    /\ owner.pc = "waiting"
    /\ OwnerGoes("failed")
    /\ UNCHANGED <<fleet, win, disk, sup>>

\* require_pending_worker_claim: the claim must still be pending, carry its
\* own signature, and have the code that the Windows machine displayed.
Accepts(view, code) ==
    /\ view.state = "pending"
    /\ Approver = "cli" => view.proof # NoKey
    /\ view.claim = code

OwnerReviews ==
    /\ owner.pc = "code"
    /\ \E code \in owner.shown[owner.inv] :
          LET view == EnrollmentView(owner.inv) IN
             owner' = IF Accepts(view, code)
                      THEN [owner EXCEPT !.pc = "approve", !.saw = view.claim]
                      ELSE [owner EXCEPT !.pc = "failed"]
    /\ UNCHANGED <<fleet, win, disk, sup, enrollFaults>>

\* The decision is sent; its answer may be lost after the Gateway stored it.
OwnerApproves ==
    /\ owner.pc = "approve"
    /\ IF Approvable(owner.inv, owner.saw) THEN Approve(owner.inv) ELSE UNCHANGED fleet
    /\ \/ OwnerGoes(IF Approvable(owner.inv, owner.saw) THEN "done" ELSE "failed") /\ UNCHANGED enrollFaults
       \/ EnrollFault /\ OwnerGoes("failed")
    /\ UNCHANGED <<win, disk, sup>>

-----------------------------------------------------------------------------
(* enroll-worker.ps1: stopping the supervised Worker *)

Goes(pc) == win' = [win EXCEPT !.pc = pc]

\* The bundle is checked; only repair and re-enrollment touch the task.
StartScript(mode) ==
    /\ win.pc = "idle"
    /\ win' = [Ended("none") EXCEPT !.pc = IF mode = "plain" THEN "runtime" ELSE "status",
                                    !.mode = mode, !.was = sup.running /\ ~sup.request]
    /\ UNCHANGED <<fleet, owner, disk, sup, enrollFaults>>

\* An error leaves through catch.
Throw == win' = [win EXCEPT !.pc = IF win.stopped THEN "restore" ELSE "exit"]

\* The task is remembered as stopped before it is stopped.
SupervisorStatus ==
    /\ win.pc = "status"
    /\ \/ /\ win' = IF sup.installed THEN [win EXCEPT !.pc = "reinstall", !.stopped = sup.running]
                                     ELSE [win EXCEPT !.pc = "runtime"]
          /\ UNCHANGED enrollFaults
       \/ EnrollFault /\ Throw
    /\ UNCHANGED <<fleet, owner, disk, sup>>

Reinstall ==
    /\ win.pc = "reinstall"
    /\ \/ Goes("stop") /\ UNCHANGED enrollFaults
       \/ EnrollFault /\ Throw
    /\ UNCHANGED <<fleet, owner, disk, sup>>

\* Stop leaves a request and waits; it can give up before the task obeys it.
StopSupervisor ==
    /\ win.pc = "stop"
    /\ \/ sup' = [sup EXCEPT !.running = FALSE, !.request = sup.running] /\ Goes("runtime") /\ UNCHANGED enrollFaults
       \/ EnrollFault /\ sup' = [sup EXCEPT !.request = sup.running] /\ Throw
    /\ UNCHANGED <<fleet, owner, disk>>

SupervisorObeys ==
    /\ sup.running /\ sup.request
    /\ sup' = [sup EXCEPT !.running = FALSE]
    /\ UNCHANGED <<fleet, owner, win, disk, enrollFaults>>

\* The catch block: the saved configuration, the task definition, the task.
\* A failure of the first two is only a warning.
RestoreConfiguration ==
    /\ win.pc = "restore"
    /\ \/ disk' = [disk EXCEPT !.launch = "old"] /\ UNCHANGED enrollFaults
       \/ EnrollFault /\ UNCHANGED disk
    /\ Goes("restart")
    /\ UNCHANGED <<fleet, owner, sup>>

Restart ==
    /\ win.pc = "restart"
    /\ \/ /\ sup' = [sup EXCEPT !.running = TRUE, !.request = FALSE]
          /\ Goes("exit")
          /\ UNCHANGED enrollFaults
       \/ EnrollFault /\ UNCHANGED sup /\ win' = Ended("down")
    /\ UNCHANGED <<fleet, owner, disk>>

ExitFailed ==
    /\ win.pc = "exit"
    /\ win' = [Ended("failed") EXCEPT !.was = win.was]
    /\ UNCHANGED <<fleet, owner, disk, sup, enrollFaults>>

-----------------------------------------------------------------------------
(* enroll-worker.ps1: the enrollment runtime *)

\* Test-LockedWorkerRuntime: every file is the one the lock names.
Locked == disk.runtime = "locked"

\* A runtime that verifies against the lock is kept.  Otherwise leftovers of
\* an earlier attempt are removed and a new one is built and verified beside
\* it; a failed one is removed again, if it can be.
PrepareRuntime ==
    /\ win.pc = "runtime"
    /\ \/ Locked /\ Goes("check") /\ UNCHANGED <<disk, enrollFaults>>
       \/ /\ ~Locked
          /\ Goes("complete")
          /\ disk' = [disk EXCEPT !.staging = TRUE]
          /\ UNCHANGED enrollFaults
       \/ EnrollFault /\ Throw /\ \E left \in BOOLEAN : disk' = [disk EXCEPT !.staging = left]
    /\ UNCHANGED <<fleet, owner, sup>>

\* The inconsistent runtime moves to quarantine ...
SetAside ==
    /\ win.pc = "complete"
    /\ \/ /\ disk' = [disk EXCEPT !.quarantine = disk.runtime, !.runtime = "none"]
          /\ Goes("promote")
          /\ UNCHANGED enrollFaults
       \/ EnrollFault /\ Throw /\ disk' = [disk EXCEPT !.staging = FALSE]
    /\ UNCHANGED <<fleet, owner, sup>>

\* ... the staged one takes its place, or the old one returns, unless that
\* move fails too.
Promote ==
    /\ win.pc = "promote"
    /\ \/ /\ disk' = [disk EXCEPT !.runtime = "locked", !.staging = FALSE, !.quarantine = "none"]
          /\ Goes("check")
          /\ UNCHANGED enrollFaults
       \/ /\ EnrollFault
          /\ \E back \in BOOLEAN :
                disk' = [disk EXCEPT !.runtime = IF back THEN disk.quarantine ELSE @,
                                     !.quarantine = IF back THEN "none" ELSE @, !.staging = FALSE]
          /\ Throw
    /\ UNCHANGED <<fleet, owner, sup>>

\* Something outside VGen changes a file of the runtime.
RuntimeDrifts ==
    /\ EnrollFault
    /\ win.pc = "idle" /\ Locked
    /\ disk' = [disk EXCEPT !.runtime = "stale"]
    /\ UNCHANGED <<fleet, owner, win, sup>>

-----------------------------------------------------------------------------
(* The existing credential *)

\* No credential: enroll.  -Reenroll: enroll beside it.  Otherwise its key
\* must log in (and its session is refreshed by one rename); only an explicit
\* rejection permits a new enrollment, and an unreadable file or an
\* unreachable Gateway stops the script.
CheckCredential ==
    /\ win.pc = "check"
    /\ \/ disk.cred.state = "none" /\ Goes("identity") /\ UNCHANGED enrollFaults
       \/ disk.cred.state # "none" /\ win.mode = "reenroll" /\ UNCHANGED enrollFaults
          /\ win' = [win EXCEPT !.pc = "identity", !.again = TRUE]
       \/ disk.cred.state = "torn" /\ win.mode # "reenroll" /\ Throw /\ UNCHANGED enrollFaults
       \/ disk.cred.state = "whole" /\ win.mode # "reenroll" /\ UNCHANGED enrollFaults
          /\ IF LogsIn(disk.cred.key) THEN Goes("setup")
             ELSE win' = [win EXCEPT !.pc = "identity", !.again = TRUE]
       \/ disk.cred.state = "whole" /\ win.mode # "reenroll" /\ EnrollFault /\ Throw
    /\ UNCHANGED <<fleet, owner, disk, sup>>

-----------------------------------------------------------------------------
(* cli/worker_enrollment.py: claim, wait, log in *)

IdFile == IF win.again THEN "again" ELSE "first"

\* The pending identity is reused, so that the same Invite can be resumed.
LoadIdentity ==
    /\ win.pc = "identity"
    /\ disk.id[IdFile].state # "none"
    /\ IF disk.id[IdFile].state = "whole"
       THEN win' = [win EXCEPT !.pc = "claim", !.key = disk.id[IdFile].key]
       ELSE Throw
    /\ UNCHANGED <<fleet, owner, disk, sup, enrollFaults>>

\* A new identity is created and written: two steps of the file system.
GenerateIdentity(key) ==
    /\ win.pc = "identity"
    /\ disk.id[IdFile].state = "none"
    /\ \A i \in Invites : fleet[i].key # key /\ key \notin owner.shown[i]
    /\ win' = [win EXCEPT !.pc = "write_identity", !.key = key]
    /\ disk' = [disk EXCEPT !.id[IdFile] = TornFile]
    /\ UNCHANGED <<fleet, owner, sup, enrollFaults>>

WriteIdentity ==
    /\ win.pc = "write_identity"
    /\ \/ disk' = [disk EXCEPT !.id[IdFile] = Whole(win.key)] /\ Goes("claim") /\ UNCHANGED enrollFaults
       \/ EnrollFault /\ Throw /\ \E left \in {NoCredential, TornFile} : disk' = [disk EXCEPT !.id[IdFile] = left]
    /\ UNCHANGED <<fleet, owner, sup>>

\* The code is displayed, then the Invite is claimed; the answer can be lost.
ClaimThenStore(i) ==
    /\ win.pc = "claim"
    /\ fleet[i].state # "none"
    /\ owner' = [owner EXCEPT !.shown[i] = @ \cup {win.key}]
    /\ fleet' = IF Claimable(i, win.key) THEN Claimed(i, win.key) ELSE fleet
    /\ \/ /\ IF Claimable(i, win.key)
             THEN win' = [win EXCEPT !.pc = IF win.again THEN "archive" ELSE "create"]
             ELSE Throw
          /\ UNCHANGED enrollFaults
       \/ EnrollFault /\ Throw
    /\ UNCHANGED <<disk, sup>>

ClaimInvite(i) ==
    /\ win.pc = "claim"
    /\ fleet[i].state # "none"
    /\ owner' = [owner EXCEPT !.shown[i] = @ \cup {win.key}]
    /\ fleet' = IF Claimable(i, win.key) THEN Claimed(i, win.key) ELSE fleet
    /\ \/ /\ IF Claimable(i, win.key) THEN win' = [win EXCEPT !.pc = "wait", !.inv = i] ELSE Throw
          /\ UNCHANGED enrollFaults
       \/ EnrollFault /\ Throw
    /\ UNCHANGED <<disk, sup>>

PollEnrollment ==
    /\ win.pc = "wait"
    /\ \/ fleet[win.inv].state = "active" /\ Goes("login") /\ UNCHANGED enrollFaults
       \/ fleet[win.inv].state = "rejected" /\ Throw /\ UNCHANGED enrollFaults
       \/ EnrollFault /\ Throw
    /\ UNCHANGED <<fleet, owner, disk, sup>>

LogIn ==
    /\ win.pc = "login"
    /\ \/ /\ IF LogsIn(win.key) THEN Goes(IF win.again THEN "archive" ELSE "create") ELSE Throw
          /\ UNCHANGED enrollFaults
       \/ EnrollFault /\ Throw
    /\ UNCHANGED <<fleet, owner, disk, sup>>

-----------------------------------------------------------------------------
(* worker/credentials.py: storing the credential *)

\* A first credential is created under its final name and then written.
CreateCredential ==
    /\ win.pc = "create"
    /\ disk' = [disk EXCEPT !.cred = TornFile]
    /\ Goes("write")
    /\ UNCHANGED <<fleet, owner, sup, enrollFaults>>

\* When its access rules cannot be hardened the new file is removed again; a
\* failed write leaves it.
WriteCredential ==
    /\ win.pc = "write"
    /\ \/ disk' = [disk EXCEPT !.cred = Whole(win.key)] /\ Goes("cleanup") /\ UNCHANGED enrollFaults
       \/ EnrollFault /\ Throw /\ \E left \in {NoCredential, TornFile} : disk' = [disk EXCEPT !.cred = left]
    /\ UNCHANGED <<fleet, owner, sup>>

\* A replacement is staged and hardened beside the credential, the old bytes
\* get a second name ...
ArchiveCredential ==
    /\ win.pc = "archive"
    /\ \/ /\ disk' = [disk EXCEPT !.archived = @ \cup {disk.cred}]
          /\ Goes("replace")
          /\ UNCHANGED enrollFaults
       \/ EnrollFault /\ Throw /\ UNCHANGED disk
    /\ UNCHANGED <<fleet, owner, sup>>

\* ... and one rename switches the canonical name.
ReplaceInPlace ==
    /\ win.pc = "replace"
    /\ \/ /\ disk' = [disk EXCEPT !.cred = TornFile]
          /\ Goes("write")
          /\ UNCHANGED enrollFaults
       \/ EnrollFault /\ Throw /\ UNCHANGED disk
    /\ UNCHANGED <<fleet, owner, sup>>

ReplaceCredential ==
    /\ win.pc = "replace"
    /\ \/ /\ disk' = [disk EXCEPT !.cred = Whole(win.key)]
          /\ Goes("cleanup")
          /\ UNCHANGED enrollFaults
       \/ EnrollFault /\ Throw /\ UNCHANGED disk
    /\ UNCHANGED <<fleet, owner, sup>>

RemoveIdentity ==
    /\ win.pc = "cleanup"
    /\ disk' = [disk EXCEPT !.id[IdFile] = NoCredential]
    /\ Goes("setup")
    /\ UNCHANGED <<fleet, owner, sup, enrollFaults>>

\* setup-worker.ps1 runs in a child process: it hands over to the task, or
\* stops half way with a launch configuration of its own.
RunSetup ==
    /\ win.pc = "setup"
    /\ \/ /\ disk' = [disk EXCEPT !.launch = "old"]
          /\ sup' = [installed |-> TRUE, running |-> TRUE, request |-> FALSE]
          /\ win' = Ended("done")
          /\ UNCHANGED enrollFaults
       \/ EnrollFault /\ disk' = [disk EXCEPT !.launch = "new"] /\ UNCHANGED sup /\ Throw
    /\ UNCHANGED <<fleet, owner>>

\* The window is closed or the machine stops; the task starts at log-on.
ScriptDies ==
    /\ EnrollFault
    /\ win.pc # "idle"
    /\ win' = Ended("died")
    /\ UNCHANGED <<fleet, owner, disk, sup>>

LogOn ==
    /\ win.pc = "idle" /\ win.exit \in {"died", "down"}
    /\ sup.installed /\ ~sup.running
    /\ sup' = [sup EXCEPT !.running = TRUE, !.request = FALSE]
    /\ UNCHANGED <<fleet, owner, win, disk, enrollFaults>>

-----------------------------------------------------------------------------
OwnerStep == OwnerPolls \/ OwnerReviews \/ OwnerApproves

ScriptStep ==
    \/ SupervisorStatus \/ Reinstall \/ StopSupervisor \/ RestoreConfiguration \/ Restart \/ ExitFailed
    \/ PrepareRuntime \/ SetAside \/ Promote \/ CheckCredential \/ LoadIdentity
    \/ (\E key \in WorkerKeys : GenerateIdentity(key)) \/ WriteIdentity
    \/ (\E i \in Invites : ClaimInvite(i)) \/ PollEnrollment \/ LogIn \/ CreateCredential
    \/ WriteCredential \/ ArchiveCredential \/ ReplaceCredential \/ RemoveIdentity \/ RunSetup

EnrollNext ==
    \/ \E i \in Invites : WorkerAdd(i) \/ Reject(i) \/ Revoke(i) \/ InviteLapses(i) \/ OtherMachineClaims(i)
    \/ OwnerStep \/ OwnerTimesOut
    \/ \E mode \in {"plain", "repair", "reenroll"} : StartScript(mode)
    \/ ScriptStep \/ SupervisorObeys \/ RuntimeDrifts \/ ScriptDies \/ LogOn

-----------------------------------------------------------------------------
(* Properties *)

CredentialIsEnrolled == disk.cred.state = "whole" => Registered(disk.cred.key)

WorkersAreApproved ==
    \A i \in Invites : fleet[i].worker # "none" =>
        /\ fleet[i].key \in owner.shown[i]
        /\ \A j \in Invites \ {i} : fleet[j].worker # "none" => fleet[j].key # fleet[i].key

FailedRepairRestarts == win.pc = "idle" /\ win.exit = "failed" /\ win.was => sup.running

\* The machine, the Gateway and the Owner agree on the Worker.  A readable
\* credential always belongs to a Worker the Gateway registered under the
\* same key, whatever was lost or interrupted on the way: the machine logs in
\* before it stores (enroll_worker_from_invite).  Only a key whose code the
\* Owner compared becomes a Worker, also when another machine claimed the
\* Invite (require_pending_worker_claim), and none becomes two
\* (decide_worker_enrollment).  And when the script ends with an error, a
\* Worker that ran before it, and was not already asked to stop, runs again
\* (the catch block), unless the task itself cannot be started.
EnrollmentHangsTogether == CredentialIsEnrolled /\ WorkersAreApproved /\ FailedRepairRestarts

\* A readable credential is never lost: a step keeps it readable and, when it
\* replaces it, keeps the old one in an archive and the new one is registered
\* (replace_worker_credentials_file_with_backup).
OldCredentialKept ==
    [][disk.cred.state = "whole" =>
         /\ disk'.cred.state = "whole"
         /\ disk'.cred # disk.cred => disk.cred \in disk'.archived /\ Registered(disk'.cred.key)]_enrollVars

\* Once the Windows machine has claimed the Invite and shown its code, the
\* waiting `vgen worker add` approves the Worker (_approve_worker_enrollment).
WorkerAddApproves ==
    \A i \in Invites :
        (owner.pc = "code" /\ owner.inv = i /\ owner.shown[i] = {fleet[i].key})
            ~> (fleet[i].state # "pending")
=============================================================================
