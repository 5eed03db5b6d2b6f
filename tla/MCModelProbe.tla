---------------------------- MODULE MCModelProbe ----------------------------
(* Two placements, which may be one file, on a volume whose clock ticks every *)
(* two seconds; the settle time is two seconds as in the code.                *)
EXTENDS ModelProbe

MCPaths == <<"x", "y">>

Spec == ProbeInit /\ [][ProbeNext]_probeVars
=============================================================================
