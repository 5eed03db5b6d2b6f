---------------------------- MODULE WorkflowInstall ----------------------------
(***************************************************************************)
(* `vgen workflow install` (cli/main.py): a saga of maintenance jobs over  *)
(* HTTP that installs node packs, the workflow's capability and its        *)
(* models, and takes back what it authorized when a later step fails.      *)
(* Several invocations for one release on one Worker run at once, against  *)
(* the Gateway's jobs and grants (gateway/repository.py).  Leases and the  *)
(* Worker's stores are WorkerMaintenance's and CapabilityStore's; here the *)
(* Worker takes a job and carries it out.                                  *)
(***************************************************************************)
EXTENDS FiniteSets, Sequences, Naturals

CONSTANTS
    Installs,          \* invocations of the command
    NoSource,          \* no job
    MaxInstallFaults   \* bound on lost calls, timeouts, failed and ended jobs

VARIABLES
    installs,       \* the invocations
    sources,        \* state of each maintenance job
    grants,         \* jobs whose authorization is recorded and not revoked
    host,           \* the Worker, its last report and the job it works on
    uninstalled,    \* the Owner uninstalled the workflow
    installFaults   \* faults left

installVars == <<installs, sources, grants, host, uninstalled, installFaults>>

\* The job of an install that ended long ago, and the jobs an invocation makes.
Earlier == <<NoSource, "capability">>

Source == (Installs \X {"nodes", "capability", "models"}) \cup {Earlier}

Open == {"awaiting", "queued", "held"}

Unreported == [state |-> "none", lacks |-> FALSE]

Invoked(wait) ==
    [pc |-> "start", kind |-> "nodes", wait |-> wait, seen |-> Unreported,
     job |-> NoSource, capability |-> NoSource, own |-> <<>>, undone |-> {}]

InstallInit ==
    /\ installs \in [Installs -> {Invoked(wait) : wait \in BOOLEAN}]
    /\ grants \in {{}, {Earlier}}
    /\ sources = [s \in Source |-> IF s \in grants THEN "succeeded" ELSE "absent"]
    /\ host \in [nodes : BOOLEAN, models : BOOLEAN, index : {grants # {}}, job : {NoSource},
                 closure : {"whole", "partial", "incompatible"}, report : {Unreported}]
    /\ uninstalled = FALSE
    /\ installFaults = MaxInstallFaults

InstallFault == installFaults > 0 /\ installFaults' = installFaults - 1

Grants(kind) == {s \in grants : s[2] = kind}

-----------------------------------------------------------------------------
(* The Worker *)

Readiness ==
    [state |-> CASE ~host.index -> "none"
                 [] host.index /\ host.closure = "partial" -> "provenance"
                 [] host.index /\ host.closure = "incompatible" -> "incompatible"
                 [] host.index /\ host.closure = "whole" ->
                      IF ~host.nodes THEN "missing_nodes"
                      ELSE IF host.models THEN "ready" ELSE "missing_models",
     lacks |-> ~host.models]

\* What is shown of a report: only what is authorized when it is looked at.
Shown(report) == IF Grants("capability") = {} THEN Unreported ELSE report

\* The Gateway keeps what is authorized of the report and answers with the
\* authorized releases, which the Worker's index follows.
WorkerHeartbeat ==
    /\ host' = [host EXCEPT !.report = Shown(Readiness),
                            !.index = host.index /\ Grants("capability") # {}]
    /\ host' # host
    /\ UNCHANGED <<installs, sources, grants, uninstalled, installFaults>>

Visible == Shown(host.report)

TakeJob(s) ==
    /\ host.job = NoSource
    /\ sources[s] = "queued"
    /\ sources' = [sources EXCEPT ![s] = "held"]
    /\ host' = [host EXCEPT !.job = s]
    /\ UNCHANGED <<installs, grants, uninstalled, installFaults>>

Applied(kind) ==
    CASE kind = "nodes" -> [host EXCEPT !.job = NoSource, !.nodes = TRUE]
      [] kind = "capability" -> [host EXCEPT !.job = NoSource, !.index = TRUE]
      [] kind = "models" -> [host EXCEPT !.job = NoSource, !.models = TRUE]

\* The bytes stay whatever the Gateway says; the result counts, and a success
\* is an authorization, only while the job is held.
FinishJob ==
    /\ host.job # NoSource
    /\ \/ /\ host' = Applied(host.job[2])
          /\ IF sources[host.job] = "held"
             THEN /\ sources' = [sources EXCEPT ![host.job] = "succeeded"]
                  /\ grants' = IF host.job[2] = "nodes" THEN grants ELSE grants \cup {host.job}
             ELSE UNCHANGED <<sources, grants>>
          /\ UNCHANGED installFaults
       \/ /\ InstallFault
          /\ host' = [host EXCEPT !.job = NoSource]
          /\ sources' = [sources EXCEPT ![host.job] = IF @ = "held" THEN "failed" ELSE @]
          /\ UNCHANGED grants
    /\ UNCHANGED <<installs, uninstalled>>

-----------------------------------------------------------------------------
(* The Gateway's handlers *)

\* Jobs of different intents are never shared, even for the same specification.
DedupedBySpec(i, kind) ==
    LET same == {s \in Source : s[2] = kind /\ sources[s] \in Open}
    IN  IF same = {} THEN <<i, kind>> ELSE CHOOSE s \in same : TRUE

Deduped(i, kind) == <<i, kind>>

Created(s) ==
    sources' = [sources EXCEPT ![s] = CASE @ # "absent" -> @
                                        [] @ = "absent" /\ s[2] = "models" -> "queued"
                                        [] @ = "absent" /\ s[2] # "models" -> "awaiting"]

Committed(s) == sources' = [sources EXCEPT ![s] = IF @ = "awaiting" THEN "queued" ELSE @]

\* Revokes the grants of the sources and cancels those still open.
Deactivated(ss) ==
    /\ grants' = grants \ ss
    /\ sources' = [s \in Source |-> IF s \in ss /\ sources[s] \in Open THEN "cancelled"
                                    ELSE sources[s]]

\* The explicit uninstall is for the release, whatever its sources.
Uninstall ==
    /\ ~uninstalled
    /\ uninstalled' = TRUE
    /\ Deactivated({s \in Source : s[2] # "nodes"})
    /\ UNCHANGED <<installs, host, installFaults>>

\* Its authorization runs out, or the Owner cancels it.
JobEnds(s) ==
    /\ InstallFault
    /\ sources[s] \in Open
    /\ sources' = [sources EXCEPT ![s] = IF @ = "held" THEN "expired" ELSE "cancelled"]
    /\ UNCHANGED <<installs, grants, host, uninstalled>>

-----------------------------------------------------------------------------
(* The command *)

Moves(i, c) == installs' = [installs EXCEPT ![i] = c]

AtStep(c, pc) == [c EXCEPT !.pc = pc]

\* An error before the first authorization has nothing to take back.
Raised(c) == AtStep(c, IF c.own = <<>> THEN "failed" ELSE "rollback")

\* The last check, and only with --wait.
Ready(c) == AtStep(c, IF c.wait THEN "ready" ELSE "done")

\* _apply_model_install, for the models the report it was given lacks.
ModelInstall(c) ==
    CASE c.seen.state = "incompatible" -> Raised(c)
      [] c.seen.state # "incompatible" /\ c.seen.lacks ->
           [AtStep(c, "create") EXCEPT !.kind = "models"]
      [] c.seen.state # "incompatible" /\ ~c.seen.lacks -> Ready(c)

\* After the node packs: what the Worker reported before they were installed.
AfterPacks(c) ==
    IF c.seen.state \in {"none", "provenance"}
    THEN [AtStep(c, "create") EXCEPT !.kind = "capability"]
    ELSE ModelInstall(c)

BeginInstall(i) ==
    LET c == [installs[i] EXCEPT !.seen = Visible] IN
    /\ c.pc = "start"
    /\ Moves(i, IF host.nodes THEN AfterPacks(c) ELSE AtStep(c, "create"))
    /\ UNCHANGED <<sources, grants, host, uninstalled, installFaults>>

\* The nodes are not approved, or the package is unsigned.
RefuseNodes(i) ==
    /\ installs[i].pc = "create"
    /\ installs[i].kind = "capability"
    /\ Moves(i, AtStep(installs[i], "failed"))
    /\ UNCHANGED <<sources, grants, host, uninstalled, installFaults>>

\* What the answer to a create leads to: an own job is noted before anything
\* else is tried, and a shared one has no upload ticket.
Noted(i, c, s) ==
    LET n == [c EXCEPT !.job = s,
                       !.capability = IF c.kind = "capability" THEN s ELSE @,
                       !.own = IF c.kind # "nodes" /\ s[1] = i THEN Append(@, s) ELSE @]
    IN  CASE c.kind = "models" -> AtStep(n, IF c.wait THEN "wait" ELSE "done")
          [] c.kind # "models" /\ s[1] = i -> AtStep(n, "upload")
          [] c.kind # "models" /\ s[1] # i ->
               IF sources[s] = "awaiting" THEN Raised(n) ELSE AtStep(n, "wait")

CreateMaintenance(i) ==
    LET c == installs[i]
        s == Deduped(i, c.kind)
    IN
    /\ c.pc = "create"
    /\ \/ Created(s) /\ Moves(i, Noted(i, c, s)) /\ UNCHANGED installFaults
       \/ InstallFault /\ Created(s) /\ Moves(i, Raised(c))
       \/ InstallFault /\ UNCHANGED sources /\ Moves(i, Raised(c))
    /\ UNCHANGED <<grants, host, uninstalled>>

UploadPackage(i) ==
    LET c == installs[i] IN
    /\ c.pc = "upload"
    /\ \/ Moves(i, AtStep(c, "commit")) /\ UNCHANGED installFaults
       \/ InstallFault /\ Moves(i, Raised(c))
    /\ UNCHANGED <<sources, grants, host, uninstalled>>

CommitMaintenance(i) ==
    LET c == installs[i] IN
    /\ c.pc = "commit"
    /\ \/ /\ Committed(c.job)
          /\ Moves(i, IF sources[c.job] = "awaiting" THEN AtStep(c, "wait") ELSE Raised(c))
          /\ UNCHANGED installFaults
       \/ InstallFault /\ Committed(c.job) /\ Moves(i, Raised(c))
       \/ InstallFault /\ UNCHANGED sources /\ Moves(i, Raised(c))
    /\ UNCHANGED <<grants, host, uninstalled>>

AfterSuccess(c) ==
    CASE c.kind = "nodes" -> AfterPacks(c)
      [] c.kind = "capability" -> AtStep(c, "report")
      [] c.kind = "models" -> Ready(c)

WaitForMaintenance(i) ==
    LET c == installs[i] IN
    /\ c.pc = "wait"
    /\ \/ /\ sources[c.job] \notin Open
          /\ Moves(i, IF sources[c.job] = "succeeded" THEN AfterSuccess(c) ELSE Raised(c))
          /\ UNCHANGED installFaults
       \/ InstallFault /\ Moves(i, Raised(c))
    /\ UNCHANGED <<sources, grants, host, uninstalled>>

\* A capability whose node providers are incomplete stays, for the next
\* workflow to complete; only the invocation that made it says so.
Unusable(c) ==
    IF Visible.state = "provenance" /\ c.capability # NoSource THEN AtStep(c, "failed")
    ELSE Raised(c)

WaitForReport(i) ==
    LET c == installs[i] IN
    /\ c.pc = "report"
    /\ \/ /\ Visible.state # "none"
          /\ Moves(i, IF Visible.state \in {"ready", "missing_models"}
                     THEN ModelInstall([c EXCEPT !.seen = Visible]) ELSE Unusable(c))
          /\ UNCHANGED installFaults
       \/ InstallFault /\ Moves(i, Raised(c))
    /\ UNCHANGED <<sources, grants, host, uninstalled>>

WaitForReady(i) ==
    LET c == installs[i] IN
    /\ c.pc = "ready"
    /\ \/ /\ Visible.state \notin {"none", "missing_models"}
          /\ Moves(i, IF Visible.state = "ready" THEN AtStep(c, "done") ELSE Unusable(c))
          /\ UNCHANGED installFaults
       \/ InstallFault /\ Moves(i, Raised(c))
    /\ UNCHANGED <<sources, grants, host, uninstalled>>

\* One call for each own source, in order, that names the source and never the
\* release; a call that fails is passed over.
Rollback(i) ==
    LET c == installs[i]
        s == Head(c.own)
        left == IF Len(c.own) = 1 THEN AtStep(c, "failed") ELSE c
        next == [left EXCEPT !.own = Tail(@)]
    IN
    /\ c.pc = "rollback"
    /\ \/ /\ Deactivated({s})
          /\ Moves(i, [next EXCEPT !.undone = @ \cup {s}])
          /\ UNCHANGED installFaults
       \/ InstallFault /\ Deactivated({s}) /\ Moves(i, next)
       \/ InstallFault /\ UNCHANGED <<sources, grants>> /\ Moves(i, next)
    /\ UNCHANGED <<host, uninstalled>>

InstallNext ==
    \/ WorkerHeartbeat \/ FinishJob \/ Uninstall
    \/ \E s \in Source : TakeJob(s) \/ JobEnds(s)
    \/ \E i \in Installs :
        \/ BeginInstall(i) \/ RefuseNodes(i) \/ CreateMaintenance(i) \/ UploadPackage(i)
        \/ CommitMaintenance(i) \/ WaitForMaintenance(i) \/ WaitForReport(i)
        \/ WaitForReady(i) \/ Rollback(i)

-----------------------------------------------------------------------------
(* Properties *)

\* The jobs an invocation made or joined.  A capability it found reported, and
\* so made no job for, is not among them: when another invocation made that
\* one, its rollback takes it away under the invocation that found it.
Relied(i) ==
    {s \in Source : s \in {installs[i].capability, installs[i].job} /\ s[2] # "nodes"}

\* An invocation of workflow install takes back exactly what it authorized:
\* what a rollback call acknowledged is neither authorized nor open, then or
\* later, however late the Worker finishes; and no rollback of another
\* invocation revokes the grant an older install left, or one of a job that an
\* invocation still under way or done has made or joined.
InstallsAreIndependent ==
    /\ \A i \in Installs : \A s \in installs[i].undone :
           s \notin grants /\ sources[s] \notin Open
    /\ \/ uninstalled
       \/ /\ sources[Earlier] = "succeeded" => Earlier \in grants
          /\ \A i \in Installs :
                installs[i].pc \notin {"rollback", "failed"} =>
                    \A s \in Relied(i) : sources[s] = "succeeded" => s \in grants
=============================================================================
