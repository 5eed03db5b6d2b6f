----------------------------- MODULE MCInstalls -----------------------------
(* A maintenance job beside the task scheduler, and the commands that        *)
(* install workflows by such jobs, each explored by itself.                  *)
EXTENDS MCMaintenance, WorkflowInstall

VARIABLE kind

\* One thing is missing on the machine at a time, and an older grant is there
\* only when models are missing: a bound.
MachineBound ==
    /\ \E i \in Installs : installs[i].wait
    /\ grants # {} => host.nodes /\ ~host.models
    /\ ~host.nodes => host.models /\ host.closure = "whole"
    /\ host.closure # "whole" => ~host.models

\* What is not explored starts in one state.
MCInit ==
    /\ kind \in {"job", "install"}
    /\ Init
    /\ kind # "job" => \A w \in Workers : manager[w] = b1
    /\ InstallInit
    /\ MachineBound
    /\ kind # "install" =>
           /\ grants = {} /\ host.nodes /\ host.models /\ host.closure = "whole"
           /\ \A i \in Installs : installs[i].wait

MaintenanceNext ==
    kind = "job" /\ Next /\ UNCHANGED <<kind, installVars>>

WorkflowInstallNext ==
    kind = "install" /\ InstallNext /\ UNCHANGED <<kind, vars>>

\* The fairness of the maintenance jobs; commands may stop anywhere.
MCFairSpec ==
    /\ MCInit
    /\ [][MaintenanceNext \/ WorkflowInstallNext]_<<kind, vars, installVars>>
    /\ WF_vars(kind = "job" /\ SweepExpired)
    /\ \A w \in Workers :
        WF_vars(kind = "job" /\ \E s \in Sessions : ClaimWorkerMaintenance(w, s, Kinds))
    /\ \A t \in Tasks, n \in TL!Numbers :
        WF_vars(kind = "job" /\ UNCHANGED jobVars /\ TL!ExecutionEnds(t, n))
=============================================================================
