------------------------------ MODULE MCGateway ------------------------------
(* The protocols and scripts around the Gateway, each explored by itself. *)
EXTENDS WorkerEnroll, BrokerRekey, GatewaySetup, UsageLedger, TaskSubmit, TaskOutputs,
        DatabaseOpen, WorkflowRegistry, TLC

VARIABLE kind

vars == <<kind, enrollVars, rekeyVars, setupVars, ledgerVars, submitVars, outputVars,
          openVars, registryVars>>

\* What is not explored starts in one state.
Init ==
    /\ kind \in {"enroll", "rekey", "setup", "ledger", "submit", "outputs", "open", "registry"}
    /\ EnrollInit /\ RekeyInit
    /\ SetupInit
    /\ kind # "setup" => server.nginx = "none" /\ ~server.bumps
    /\ LedgerInit
    /\ kind # "ledger" => ledger = {}
    /\ SubmitInit
    /\ kind # "submit" => artifactStore = "local"
    /\ OutputInit
    /\ kind # "outputs" =>
           /\ folder[0] = Absent
           /\ \A g \in Gets : gets[g].overwrite /\ gets[g].content = CHOOSE c \in Outputs : TRUE
    /\ OpenInit
    /\ kind # "open" => file.version = 0
    /\ RegistryInit
    /\ kind # "registry" => source.content \in CustomPackages /\ source.sig = NoSig

WorkerEnrollNext ==
    /\ kind = "enroll" /\ EnrollNext
    /\ UNCHANGED <<kind, rekeyVars, setupVars, ledgerVars, submitVars, outputVars, openVars,
                   registryVars>>

BrokerRekeyNext ==
    /\ kind = "rekey" /\ RekeyNext
    /\ UNCHANGED <<kind, enrollVars, setupVars, ledgerVars, submitVars, outputVars, openVars,
                   registryVars>>

GatewaySetupNext ==
    /\ kind = "setup" /\ SetupNext
    /\ UNCHANGED <<kind, enrollVars, rekeyVars, ledgerVars, submitVars, outputVars, openVars,
                   registryVars>>

UsageLedgerNext ==
    /\ kind = "ledger" /\ LedgerNext
    /\ UNCHANGED <<kind, enrollVars, rekeyVars, setupVars, submitVars, outputVars, openVars,
                   registryVars>>

TaskSubmitNext ==
    /\ kind = "submit" /\ SubmitNext
    /\ UNCHANGED <<kind, enrollVars, rekeyVars, setupVars, ledgerVars, outputVars, openVars,
                   registryVars>>

TaskOutputsNext ==
    /\ kind = "outputs" /\ OutputNext
    /\ UNCHANGED <<kind, enrollVars, rekeyVars, setupVars, ledgerVars, submitVars, openVars,
                   registryVars>>

DatabaseOpenNext ==
    /\ kind = "open" /\ OpenNext
    /\ UNCHANGED <<kind, enrollVars, rekeyVars, setupVars, ledgerVars, submitVars, outputVars,
                   registryVars>>

WorkflowRegistryNext ==
    /\ kind = "registry" /\ RegistryNext
    /\ UNCHANGED <<kind, enrollVars, rekeyVars, setupVars, ledgerVars, submitVars, outputVars,
                   openVars>>

Spec ==
    Init /\ [][\/ WorkerEnrollNext \/ BrokerRekeyNext \/ GatewaySetupNext
               \/ UsageLedgerNext \/ TaskSubmitNext \/ TaskOutputsNext \/ DatabaseOpenNext
               \/ WorkflowRegistryNext]_vars

Symmetry == Permutations(Workers) \cup Permutations(Devices)

\* Either the consumer retries or every lifetime runs out: a bound.
RetriesOrLapses == rekeyFaults.lapses > 0 \/ cli.left = MaxCliCalls

\* The versions of the two provenances have nothing in common: a bound.
OneProvenance == \E v \in Provenances : published[v] = 0

\* The explorations of a single one.
SetupSpec == kind = "setup" /\ Spec

SubmitSpec == kind = "submit" /\ Spec

\* The Owner's command and the enrollment script go on.
EnrollSpec ==
    /\ kind = "enroll" /\ Spec
    /\ WF_enrollVars(kind = "enroll" /\ OwnerStep)
    /\ WF_enrollVars(kind = "enroll" /\ ScriptStep)
=============================================================================
