--------------------------- MODULE MCMaintenance ---------------------------
(* Small instances of the maintenance jobs with the task scheduler. *)
EXTENDS WorkerMaintenance, TLC

CONSTANTS w1, t1, i1, i2, b1, b2, d1, d2, u1, s1, s2

UnitCapacity == [w \in Workers |-> 1]

AtW1 == [i \in Intents |-> w1]

ByB1 == [i \in Intents |-> b1]

OneSubject == [i \in Intents |-> u1]

\* Two devices ask for the same update.
Updates == [i \in Intents |-> "worker_update"]

TwoDevices == [i \in Intents |-> IF i = i1 THEN d1 ELSE d2]

\* A capability of a workflow and its models.
InstallKinds == [i \in Intents |-> IF i = i1 THEN "capability_install" ELSE "model_install"]

Symmetry == Permutations(Sessions)

OneDevice == [i \in Intents |-> d1]
=============================================================================
