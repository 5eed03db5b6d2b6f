---------------------------- MODULE CapabilityStore ----------------------------
(***************************************************************************)
(* The workflow capabilities of one Worker on both sides: the Gateway's    *)
(* install jobs and the authorizations they earn (gateway/repository.py),  *)
(* and the Worker's store of releases with its index of active ones        *)
(* (worker/capabilities.py), which the Worker reconciles with the snapshot *)
(* every heartbeat answers (worker/main.py).                               *)
(***************************************************************************)
EXTENDS Integers

CONSTANTS
    CapJobs,       \* install jobs
    CapOf,         \* CapOf[j]: the workflow release job j installs
    MaxCapFaults,  \* bound on crashes, lost calls, lapsed leases, bad disks
    NoEntry        \* no digest

VARIABLES
    capJob,     \* state of each install job
    granted,    \* jobs whose authorization is not revoked
    index,      \* active.json: the digest of each active workflow
    rel,        \* release directories
    cap,        \* the Worker process
    capFaults   \* faults left

capVars == <<capJob, granted, index, rel, cap, capFaults>>

ASSUME CapAssumption ==
    \A j \in CapJobs : /\ CapOf[j].digest # NoEntry
                       /\ CapOf[j] = [ref |-> CapOf[j].ref, digest |-> CapOf[j].digest]

Caps == {CapOf[j] : j \in CapJobs}

Refs == {c.ref : c \in Caps}

Releases == {c.digest : c \in Caps}

OpenStates == {"queued", "held"}

Started == [pc |-> "announce", job |-> "none", snapshot |-> {}, aside |-> FALSE]

CapInit ==
    /\ capJob = [j \in CapJobs |-> "absent"]
    /\ granted = {}
    /\ index = [r \in Refs |-> NoEntry]
    /\ rel = [d \in Releases |-> "none"]
    /\ cap = Started
    /\ capFaults = MaxCapFaults

CapFault == capFaults > 0 /\ capFaults' = capFaults - 1

CapGoes(pc) == cap' = [cap EXCEPT !.pc = pc]

Authorized == {CapOf[j] : j \in granted}

-----------------------------------------------------------------------------
(* The Gateway *)

CreateJob(j) ==
    /\ capJob[j] = "absent"
    /\ capJob' = [capJob EXCEPT ![j] = "queued"]
    /\ UNCHANGED <<granted, index, rel, cap, capFaults>>

CancelInstalls(js) ==
    capJob' = [j \in CapJobs |-> IF j \in js /\ capJob[j] \in OpenStates THEN "cancelled" ELSE capJob[j]]

\* Uninstalling revokes every grant of the release, a rollback only the grant
\* of its own job; open jobs go with their grants.
Deactivate(js) ==
    /\ \E j \in js : capJob[j] # "absent"
    /\ granted' = granted \ js
    /\ CancelInstalls(js)
    /\ <<granted', capJob'>> # <<granted, capJob>>
    /\ UNCHANGED <<index, rel, cap, capFaults>>

DeactivateWorkflow(c) == Deactivate({j \in CapJobs : CapOf[j] = c})

DeactivateSource(j) == Deactivate({j})

InstallLapses(j) ==
    /\ capJob[j] = "held"
    /\ IF cap.job = j THEN CapFault ELSE UNCHANGED capFaults
    /\ capJob' = [capJob EXCEPT ![j] = "queued"]
    /\ UNCHANGED <<granted, index, rel, cap>>

-----------------------------------------------------------------------------
(* The Worker's loop *)

\* A heartbeat that fails is passed over until the next turn.
Announce ==
    /\ cap.pc = "announce"
    /\ \/ /\ cap' = [cap EXCEPT !.pc = "reconcile", !.snapshot = Authorized]
          /\ UNCHANGED capFaults
       \/ CapFault /\ CapGoes("serve")
    /\ UNCHANGED <<capJob, granted, index, rel>>

ReconcileNonempty ==
    [r \in Refs |-> IF cap.snapshot = {} \/ [ref |-> r, digest |-> index[r]] \in cap.snapshot
                    THEN index[r] ELSE NoEntry]

Reconciled ==
    [r \in Refs |-> IF [ref |-> r, digest |-> index[r]] \in cap.snapshot
                    THEN index[r] ELSE NoEntry]

\* One locked read, change and write of the index, which may fail.
Reconcile ==
    /\ cap.pc = "reconcile"
    /\ \/ index' = Reconciled /\ UNCHANGED capFaults
       \/ CapFault /\ UNCHANGED index
    /\ cap' = [cap EXCEPT !.pc = "serve", !.snapshot = {}]
    /\ UNCHANGED <<capJob, granted, rel>>

NextAnnounce ==
    /\ cap.pc = "serve"
    /\ CapGoes("announce")
    /\ UNCHANGED <<capJob, granted, index, rel, capFaults>>

ClaimInstall(j) ==
    /\ cap.pc = "serve"
    /\ capJob[j] = "queued"
    /\ capJob' = [capJob EXCEPT ![j] = "held"]
    /\ cap' = [cap EXCEPT !.pc = "activate", !.job = j, !.aside = FALSE]
    /\ UNCHANGED <<granted, index, rel, capFaults>>

-----------------------------------------------------------------------------
(* activate, with the index locked from the first step to the last *)

Wanted == CapOf[cap.job]

\* Another version of the workflow is active, or a directory that is neither
\* whole nor active is in the way.
Conflicts ==
    \/ index[Wanted.ref] \notin {NoEntry, Wanted.digest}
    \/ rel[Wanted.digest] = "corrupt" /\ index[Wanted.ref] # Wanted.digest

Activate ==
    /\ cap.pc = "activate"
    /\ CapGoes(CASE Conflicts -> "fail"
                 [] ~Conflicts /\ rel[Wanted.digest] = "good" -> "index"
                 [] ~Conflicts /\ rel[Wanted.digest] = "none" -> "place"
                 [] ~Conflicts /\ rel[Wanted.digest] = "corrupt" -> "aside")
    /\ UNCHANGED <<capJob, granted, index, rel, capFaults>>

\* A corrupt active release is moved aside before the new copy is placed.
MoveAside ==
    /\ cap.pc = "aside"
    /\ rel' = [rel EXCEPT ![Wanted.digest] = "none"]
    /\ cap' = [cap EXCEPT !.pc = "place", !.aside = TRUE]
    /\ UNCHANGED <<capJob, granted, index, capFaults>>

\* A copy that cannot be placed brings the old directory back, if that works.
PlaceRelease ==
    /\ cap.pc = "place"
    /\ \/ /\ rel' = [rel EXCEPT ![Wanted.digest] = "good"]
          /\ CapGoes("index")
          /\ UNCHANGED capFaults
       \/ /\ CapFault
          /\ \/ cap.aside /\ rel' = [rel EXCEPT ![Wanted.digest] = "corrupt"]
             \/ UNCHANGED rel
          /\ CapGoes("fail")
    /\ UNCHANGED <<capJob, granted, index>>

WriteIndexUnchecked ==
    /\ cap.pc = "index"
    /\ \/ /\ index' = [index EXCEPT ![Wanted.ref] = Wanted.digest]
          /\ CapGoes("complete")
          /\ UNCHANGED capFaults
       \/ CapFault /\ CapGoes("complete") /\ UNCHANGED index
    /\ UNCHANGED <<capJob, granted, rel>>

WriteIndex ==
    /\ cap.pc = "index"
    /\ \/ /\ index' = [index EXCEPT ![Wanted.ref] = Wanted.digest]
          /\ CapGoes("complete")
          /\ UNCHANGED capFaults
       \/ CapFault /\ CapGoes("fail") /\ UNCHANGED index
    /\ UNCHANGED <<capJob, granted, rel>>

Ends(j, state) ==
    IF capJob[j] = "held" THEN capJob' = [capJob EXCEPT ![j] = state] ELSE UNCHANGED capJob

\* The completion and the grant are one transaction; a job that was cancelled
\* or requeued earns nothing.
Earns(j) == granted' = IF capJob[j] = "held" THEN granted \cup {j} ELSE granted

\* The call is lost before or after the Gateway sees it, or gets through.
Complete ==
    /\ cap.pc = "complete"
    /\ \/ Ends(cap.job, "succeeded") /\ Earns(cap.job) /\ UNCHANGED capFaults
       \/ CapFault /\ UNCHANGED <<capJob, granted>>
    /\ cap' = Started
    /\ UNCHANGED <<index, rel>>

ReportFailure ==
    /\ cap.pc = "fail"
    /\ Ends(cap.job, "failed")
    /\ cap' = Started
    /\ UNCHANGED <<granted, index, rel, capFaults>>

CapCrash ==
    /\ CapFault
    /\ cap # Started
    /\ cap' = Started
    /\ UNCHANGED <<capJob, granted, index, rel>>

ReleaseRots(d) ==
    /\ CapFault
    /\ rel[d] = "good"
    /\ rel' = [rel EXCEPT ![d] = "corrupt"]
    /\ UNCHANGED <<capJob, granted, index, cap>>

CapLoop ==
    \/ Announce \/ Reconcile \/ NextAnnounce \/ Activate \/ MoveAside \/ PlaceRelease
    \/ WriteIndex \/ Complete \/ ReportFailure

CapNext ==
    \/ CapLoop \/ CapCrash
    \/ \E j \in CapJobs :
        CreateJob(j) \/ DeactivateSource(j) \/ InstallLapses(j) \/ ClaimInstall(j)
    \/ \E c \in Caps : DeactivateWorkflow(c)
    \/ \E d \in Releases : ReleaseRots(d)

-----------------------------------------------------------------------------
(* Properties *)

\* A workflow the Gateway has authorized is active on the Worker: the index is
\* written before the job completes, and no snapshot older than the grant is
\* applied after it (_install_capability, reconcile_authorizations).
GrantedIsActive == \A c \in Authorized : index[c.ref] = c.digest

\* A workflow that is not authorized any more, or whose job was cancelled after
\* the activation, leaves the index (reconcile_authorizations).
RevokedLeaves ==
    \A c \in Caps : <>[](c \notin Authorized) => <>[](index[c.ref] # c.digest)
=============================================================================
