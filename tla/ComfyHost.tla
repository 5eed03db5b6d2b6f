------------------------------- MODULE ComfyHost -------------------------------
(***************************************************************************)
(* The installation of a node pack on a Worker's machine: the installer    *)
(* that swaps a directory under ComfyUI (worker/node_packs.py), the pause  *)
(* it asks the host for through a request and an acknowledgement file      *)
(* (worker/host_control.py), and the loop of the host supervisor that      *)
(* stops and restarts ComfyUI and the Worker (supervise-worker.ps1).       *)
(*                                                                         *)
(* A pause request lives 600 seconds and its owner waits at most 90: it    *)
(* expires only once nobody waits for it.                                  *)
(***************************************************************************)
EXTENDS Integers

CONSTANTS
    Packs,         \* versions of the node pack
    Broken,        \* those whose classes ComfyUI cannot load
    NoPack,        \* an absent directory
    MaxInstalls,   \* bound on installations
    MaxHostFaults  \* bound on crashes, failed renames, failed removals

VARIABLES
    req,        \* comfyui-pause.request
    ack,        \* comfyui-pause.ack: the nonce in it, 0 without a file
    dir,        \* what the custom node directory holds
    backup,     \* the backup directory of the running transaction
    comfy,      \* the ComfyUI process
    host,       \* the supervisor loop
    wrk,        \* the installer in the Worker process
    installs,   \* installations left
    hostFaults  \* faults left

hostVars == <<req, ack, dir, backup, comfy, host, wrk, installs, hostFaults>>

ASSUME PacksAssumption == NoPack \notin Packs /\ Broken \subseteq Packs /\ MaxInstalls \in Nat

NoRequest == [nonce |-> 0, live |-> FALSE]

Stopped == [up |-> FALSE, loaded |-> NoPack]

HostLoop == [pc |-> "read", seen |-> 0, paused |-> 0]

\* held is the nonce of ComfyUIHostControl, err the exception on its way out,
\* torn records that a rename of the swap failed.
Idle == [pc |-> "idle", phase |-> "none", pack |-> NoPack, nonce |-> 0, held |-> 0,
         activated |-> FALSE, err |-> "none", cause |-> "none", before |-> NoPack,
         torn |-> FALSE, result |-> "none"]

HostInit ==
    /\ req = NoRequest
    /\ ack = 0
    /\ dir = NoPack
    /\ backup = NoPack
    /\ comfy = Stopped
    /\ host = HostLoop
    /\ wrk = [Idle EXCEPT !.pc = "dead"]
    /\ installs = MaxInstalls
    /\ hostFaults = MaxHostFaults

Faulty == hostFaults > 0 /\ hostFaults' = hostFaults - 1

-----------------------------------------------------------------------------
(* The supervisor loop *)

ReadRequest == IF req.live THEN req ELSE NoRequest

\* An expired request is deleted.
HostReads ==
    /\ host.pc = "read"
    /\ req' = ReadRequest
    /\ host' = IF ReadRequest # NoRequest
               THEN [host EXCEPT !.pc = "pause", !.seen = req.nonce]
               ELSE [host EXCEPT !.pc = IF host.paused # 0 THEN "resume" ELSE "start"]
    /\ UNCHANGED <<ack, dir, backup, comfy, wrk, installs, hostFaults>>

\* A process tree that does not stop is tried again in the next turn.
HostPauses ==
    /\ host.pc = "pause"
    /\ \/ /\ comfy' = Stopped
          /\ host' = [host EXCEPT !.pc = IF host.paused # host.seen THEN "ack" ELSE "read"]
          /\ UNCHANGED hostFaults
       \/ /\ Faulty /\ comfy.up
          /\ host' = [host EXCEPT !.pc = "read"]
          /\ UNCHANGED comfy
    /\ UNCHANGED <<req, ack, dir, backup, wrk, installs>>

HostAcks ==
    /\ host.pc = "ack"
    /\ ack' = host.seen
    /\ host' = [host EXCEPT !.pc = "read", !.paused = host.seen]
    /\ UNCHANGED <<req, dir, backup, comfy, wrk, installs, hostFaults>>

\* An acknowledgement that cannot be removed is only logged.
HostResumes ==
    /\ host.pc = "resume"
    /\ \/ ack' = 0 /\ UNCHANGED hostFaults
       \/ Faulty /\ UNCHANGED ack
    /\ host' = [host EXCEPT !.pc = "start", !.paused = 0]
    /\ UNCHANGED <<req, dir, backup, comfy, wrk, installs>>

\* The Worker and ComfyUI are started again; a launch may fail.
HostStarts ==
    /\ host.pc = "start"
    /\ \/ comfy' = [up |-> TRUE, loaded |-> IF comfy.up THEN comfy.loaded ELSE dir]
          /\ UNCHANGED hostFaults
       \/ Faulty /\ ~comfy.up /\ UNCHANGED comfy
    /\ wrk' = IF wrk.pc = "dead" THEN [wrk EXCEPT !.pc = "idle"] ELSE wrk
    /\ host' = [host EXCEPT !.pc = "read"]
    /\ UNCHANGED <<req, ack, dir, backup, installs>>

-----------------------------------------------------------------------------
(* The installer *)

Loads(v) == comfy.up /\ comfy.loaded = v /\ v \notin Broken

\* Leaving install: the transaction directory is deleted, backup and all.
Finish(result) ==
    /\ wrk' = [Idle EXCEPT !.result = result, !.held = wrk.held, !.before = wrk.before,
                           !.torn = wrk.torn]
    /\ backup' = NoPack

\* An exception after the activation starts the rollback, one in the rollback
\* is a failed rollback.
Raise(e) ==
    IF wrk.phase = "rollback" THEN Finish("rollback_failed")
    ELSE IF wrk.activated
    THEN /\ wrk' = [wrk EXCEPT !.phase = "rollback", !.pc = "pause", !.cause = e, !.err = "none"]
         /\ UNCHANGED backup
    ELSE Finish(e)

\* The archive is valid; an invalid one changes nothing.
BeginInstall(v) ==
    /\ wrk.pc = "idle"
    /\ installs > 0
    /\ installs' = installs - 1
    /\ wrk' = [Idle EXCEPT !.pc = "pause", !.pack = v, !.held = wrk.held, !.before = dir,
                           !.phase = IF dir = v /\ Loads(v) THEN "existing" ELSE "install"]
    /\ UNCHANGED <<req, ack, dir, backup, comfy, host, hostFaults>>

\* An installation asks at most twice, for the swap and for the rollback.
FreshNonce == 2 * (MaxInstalls - installs) - (IF wrk.phase = "rollback" THEN 0 ELSE 1)

Pause ==
    /\ wrk.pc = "pause"
    /\ IF wrk.held # 0 \/ req.nonce # 0
       THEN Raise("host") /\ UNCHANGED <<req, ack>>
       ELSE /\ ack' = 0
            /\ req' = [nonce |-> FreshNonce, live |-> TRUE]
            /\ wrk' = [wrk EXCEPT !.pc = "await", !.nonce = FreshNonce]
            /\ UNCHANGED backup
    /\ UNCHANGED <<dir, comfy, host, installs, hostFaults>>

Granted == ack # 0 /\ ack = wrk.nonce

PauseGranted ==
    /\ wrk.pc = "await"
    /\ Granted
    /\ wrk' = [wrk EXCEPT !.held = wrk.nonce,
                          !.pc = CASE wrk.phase = "install" -> "out"
                                   [] wrk.phase = "existing" -> "caches"
                                   [] wrk.phase = "rollback" -> "restore"]
    /\ UNCHANGED <<req, ack, dir, backup, comfy, host, installs, hostFaults>>

PauseTimesOut ==
    /\ wrk.pc = "await"
    /\ Raise("host")
    /\ \/ req' = NoRequest /\ UNCHANGED hostFaults
       \/ Faulty /\ UNCHANGED req
    /\ UNCHANGED <<ack, dir, comfy, host, installs>>

\* The body of the paused block is left with or without an exception.
Leave(e) ==
    wrk' = [wrk EXCEPT !.pc = "resume", !.err = e, !.torn = @ \/ e = "swap"]

SwapOut ==
    /\ wrk.pc = "out"
    /\ \/ /\ dir' = NoPack
          /\ backup' = dir
          /\ wrk' = [wrk EXCEPT !.pc = "in"]
          /\ UNCHANGED hostFaults
       \/ Faulty /\ dir # NoPack /\ Leave("swap") /\ UNCHANGED <<dir, backup>>
    /\ UNCHANGED <<req, ack, comfy, host, installs>>

SwapIn ==
    /\ wrk.pc = "in"
    /\ \/ /\ dir' = wrk.pack
          /\ wrk' = [wrk EXCEPT !.pc = "caches", !.activated = TRUE]
          /\ UNCHANGED hostFaults
       \/ Faulty /\ Leave("swap") /\ UNCHANGED dir
    /\ UNCHANGED <<req, ack, backup, comfy, host, installs>>

RemoveCaches ==
    /\ wrk.pc = "caches"
    /\ \/ Leave("none") /\ UNCHANGED hostFaults
       \/ Faulty /\ Leave("caches")
    /\ UNCHANGED <<req, ack, dir, backup, comfy, host, installs>>

RestoreNothing ==
    /\ dir' = dir
    /\ backup' = backup

Restore ==
    /\ dir' = backup
    /\ backup' = NoPack

\* The new directory aside, the old one back; a failed rename may leave none.
Rollback ==
    /\ wrk.pc = "restore"
    /\ \/ Restore /\ Leave("none") /\ UNCHANGED hostFaults
       \/ /\ Faulty /\ Leave("swap")
          /\ \/ UNCHANGED dir
             \/ backup # NoPack /\ dir' = NoPack
          /\ UNCHANGED backup
    /\ UNCHANGED <<req, ack, comfy, host, installs>>

Resume ==
    /\ wrk.pc = "resume"
    /\ \/ /\ req' = NoRequest
          /\ wrk' = [wrk EXCEPT !.pc = "wait"]
          /\ UNCHANGED <<backup, hostFaults>>
       \/ Faulty /\ Raise("host") /\ UNCHANGED req
    /\ UNCHANGED <<ack, dir, comfy, host, installs>>

Resumed ==
    /\ wrk.pc = "wait"
    /\ ack = 0
    /\ LET w == [wrk EXCEPT !.held = 0] IN
       CASE wrk.err # "none" /\ wrk.phase # "rollback" /\ wrk.activated ->
                /\ wrk' = [w EXCEPT !.phase = "rollback", !.pc = "pause", !.cause = wrk.err,
                                    !.err = "none"]
                /\ UNCHANGED backup
         [] wrk.err = "none" /\ wrk.phase # "rollback" ->
                /\ wrk' = [w EXCEPT !.pc = "probe"]
                /\ UNCHANGED backup
         [] OTHER ->
                /\ wrk' = [Idle EXCEPT !.before = wrk.before, !.torn = wrk.torn,
                                       !.result = IF wrk.phase # "rollback" THEN wrk.err
                                                  ELSE IF wrk.err = "none" THEN wrk.cause
                                                  ELSE "rollback_failed"]
                /\ backup' = NoPack
    /\ UNCHANGED <<req, ack, dir, comfy, host, installs, hostFaults>>

ResumeTimesOut ==
    /\ wrk.pc = "wait"
    /\ ack # 0
    /\ Raise("host")
    /\ UNCHANGED <<req, ack, dir, comfy, host, installs, hostFaults>>

NodesLoaded ==
    /\ wrk.pc = "probe"
    /\ Loads(wrk.pack)
    /\ Finish("installed")
    /\ UNCHANGED <<req, ack, dir, comfy, host, installs, hostFaults>>

ProbeTimesOut ==
    /\ wrk.pc = "probe"
    /\ Raise("validation")
    /\ UNCHANGED <<req, ack, dir, comfy, host, installs, hostFaults>>

-----------------------------------------------------------------------------
(* Time and failures *)

Waiting == wrk.pc \in {"await", "out", "in", "caches", "restore", "resume"}

RequestExpires ==
    /\ req.live
    /\ ~Waiting
    /\ req' = [req EXCEPT !.live = FALSE]
    /\ UNCHANGED <<ack, dir, backup, comfy, host, wrk, installs, hostFaults>>

Dead == [Idle EXCEPT !.pc = "dead", !.result = "crashed"]

\* The transaction directory stays behind and nobody reads it again.
WorkerCrashes ==
    /\ Faulty
    /\ wrk.pc # "dead"
    /\ wrk' = Dead
    /\ backup' = NoPack
    /\ UNCHANGED <<req, ack, dir, comfy, host, installs>>

ComfyExits ==
    /\ Faulty
    /\ comfy.up
    /\ comfy' = Stopped
    /\ UNCHANGED <<req, ack, dir, backup, host, wrk, installs>>

\* A stop request, or a new logon: both process trees are stopped first.
HostRestarts ==
    /\ Faulty
    /\ host' = HostLoop
    /\ comfy' = Stopped
    /\ wrk' = Dead
    /\ backup' = NoPack
    /\ UNCHANGED <<req, ack, dir, installs>>

HostStep == HostReads \/ HostPauses \/ HostAcks \/ HostResumes \/ HostStarts

InstallerStep ==
    \/ Pause \/ PauseGranted \/ PauseTimesOut
    \/ SwapOut \/ SwapIn \/ RemoveCaches \/ Rollback
    \/ Resume \/ Resumed \/ ResumeTimesOut
    \/ NodesLoaded \/ ProbeTimesOut

HostNext ==
    \/ HostStep \/ InstallerStep \/ RequestExpires
    \/ \E v \in Packs : BeginInstall(v)
    \/ WorkerCrashes \/ ComfyExits \/ HostRestarts

-----------------------------------------------------------------------------
(* Properties *)

Failures == {"validation", "caches", "host", "swap"}

\* A failed installation leaves the pack that was there before
\* (NodePackInstaller.install).
FailedInstallRestores ==
    wrk.pc = "idle" /\ wrk.result \in Failures => dir = wrk.before

\* The same while no rename of the swap fails: failures in the validation of
\* the classes, in the cache cleanup and in the host's pause are rolled back or
\* reported as a failed rollback (NodePackInstaller.install).
FailedProbeRestores == wrk.torn \/ FailedInstallRestores

=============================================================================
