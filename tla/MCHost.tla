------------------------------ MODULE MCHost --------------------------------
(* What happens on a Worker's machine: node packs, models, workflow releases *)
(* and the Worker's own runtime, the attempts it is leased and the prompts   *)
(* it runs, each explored by itself.                                         *)
EXTENDS ComfyHost, ModelStore, CapabilityStore, RuntimeUpdate, WorkerCore, ComfyRun, TLC

CONSTANTS j1, j2, j3, d1, d2, o1, o2

VARIABLE kind

vars == <<kind, hostVars, modelVars, capVars, updateVars, coreVars, runVars>>

MCPins == {[digest |-> d, path |-> p] : d \in {d1, d2}, p \in {"x"}}
              \cup {[digest |-> d1, path |-> "y"]}

MCCapOf == j1 :> [ref |-> "r", digest |-> d1] @@ j2 :> [ref |-> "r", digest |-> d1]
               @@ j3 :> [ref |-> "r", digest |-> d2]

\* Two updates of a Worker that starts on version 1.
MCTarget == j1 :> 2 @@ j2 :> 3

ComponentsInit == HostInit /\ ModelInit /\ CapInit /\ UpdateInit /\ CoreInit /\ RunInit

Init == kind \in {"node_pack", "model", "capability", "update", "spool", "prompt"} /\ ComponentsInit

NodePackNext ==
    /\ kind = "node_pack" /\ HostNext
    /\ UNCHANGED <<kind, modelVars, capVars, updateVars, coreVars, runVars>>

ModelsNext ==
    /\ kind = "model" /\ ModelNext
    /\ UNCHANGED <<kind, hostVars, capVars, updateVars, coreVars, runVars>>

Capabilities(A) ==
    /\ kind = "capability" /\ A
    /\ UNCHANGED <<kind, hostVars, modelVars, updateVars, coreVars, runVars>>

Updates(A) ==
    /\ kind = "update" /\ A
    /\ UNCHANGED <<kind, hostVars, modelVars, capVars, coreVars, runVars>>

Spool(A) ==
    /\ kind = "spool" /\ A
    /\ UNCHANGED <<kind, hostVars, modelVars, capVars, updateVars, runVars>>

PromptNext ==
    /\ kind = "prompt" /\ RunNext
    /\ UNCHANGED <<kind, hostVars, modelVars, capVars, updateVars, coreVars>>

\* The host restarts the supervisor of the Worker's runtime, and the supervisor
\* and its child go on; so do the capability installer and the Worker's loop.
\* The Gateway's sweeper runs periodically; at most one attempt of the task is
\* open at a time.  Faults and crashes are finitely many.
Fairness ==
    /\ WF_coreVars(kind = "spool" /\ WorkerStep)
    /\ WF_coreVars(kind = "spool" /\ \E a \in Attempts : SweepLease(a))
    /\ WF_coreVars(kind = "spool" /\ \E a \in Attempts : AbandonedLapses(a))
    /\ WF_capVars(kind = "capability" /\ CapLoop)
    /\ WF_updateVars(kind = "update" /\ SupervisorStep)
    /\ WF_updateVars(kind = "update" /\ ChildStep)

Spec ==
    /\ Init
    /\ [][\/ NodePackNext \/ ModelsNext \/ Capabilities(CapNext) \/ Updates(UpdateNext)
          \/ Spool(CoreNext) \/ PromptNext]_vars
    /\ Fairness

\* The attempts of a Worker alone.
SpoolSpec == kind = "spool" /\ ComponentsInit /\ [][Spool(CoreNext)]_vars /\ Fairness

\* Whatever the faults, the failed activations and the newer installers, the
\* Worker serves again and again, as long as the files it needs exist
\* (supervise_worker, in the exploration of updates).
UpdatedWorkerServes == []<>(kind = "update" => ServesIfItCan)
=============================================================================
