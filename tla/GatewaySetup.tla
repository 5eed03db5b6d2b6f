---------------------------- MODULE GatewaySetup ----------------------------
(***************************************************************************)
(* examples/ecs/setup-gateway.sh: installing the Gateway on a server,      *)
(* resuming an interrupted installation, switching the Nginx route to it,  *)
(* upgrading it in place with an automatic rollback, rolling the route     *)
(* back and archiving a test installation.                                 *)
(*                                                                         *)
(* `server` holds the files, the services and Nginx; `setup` is the one    *)
(* running script (a file lock excludes a second).  A command of the       *)
(* script is one step.  It may fail, and a signal may reach the script     *)
(* while it runs: bash then lets the command end and calls the trap before *)
(* the script's next assignment.  The script can also be killed, and the   *)
(* server can lose power; systemd then starts what is enabled.             *)
(*                                                                         *)
(* Left out: file modes and owners, the bundle's own digests, the OSS      *)
(* checklist, the text of the Nginx routes.                                *)
(***************************************************************************)
EXTENDS Naturals

CONSTANTS MaxSetupFaults,   \* bound on failures, signals, kills, power losses
          MaxRows           \* bound on the rows clients write

VARIABLES server, setup, setupFaults
setupVars == <<server, setup, setupFaults>>

Versions == {"v1", "v2"}             \* releases; the route a release renders has its name
Older(v, w) == v = "v1" /\ w = "v2"

\* Files under their names: absent, whole, or cut short by what wrote them.
Intact(f) == f \notin {"none", "torn"}

NoData == [shape |-> "none", rows |-> 0]

Quiet(exit) == [pc |-> "idle", for |-> "none", bundle |-> "none", exit |-> exit, before |-> "none",
                route |-> "none", replaced |-> FALSE, moved |-> FALSE, saved |-> NoData, ok |-> TRUE]

SetupInit ==
    /\ \E route \in {"none"} \cup Versions, bumps \in BOOLEAN :
        server = [bumps |-> bumps, venv |-> "none", cand |-> "none", prev |-> "none", env |-> "none",
                  db |-> NoData, boot |-> FALSE, unit |-> "none", enabled |-> FALSE, svc |-> "down",
                  nginx |-> route, loaded |-> route, state |-> "none", due |-> 0]
    /\ setup = Quiet("none")
    /\ setupFaults = MaxSetupFaults

SetupFault == setupFaults > 0 /\ setupFaults' = setupFaults - 1

\* A release may change tables and columns with or without raising
\* SCHEMA_VERSION (`bumps`).  Only a raised version makes the older runtime
\* refuse the newer database; otherwise it works on it as it is.
Opens(s, v) == ~(s.bumps /\ Older(v, s.db.shape))

\* The runtime migrates an older database when it opens it.
Opened(db, v) == [db EXCEPT !.shape = IF Older(@, v) \/ @ = "none" THEN v ELSE @]

\* systemd starts a whole unit; the runtime refuses an environment without its
\* settings and a database of a newer schema version.
Started(s) ==
    IF Intact(s.unit) /\ s.venv \in Versions /\ s.env = "written" /\ Opens(s, s.venv)
    THEN [s EXCEPT !.svc = s.venv, !.db = Opened(s.db, s.venv)] ELSE s

Healthy(s) == s.svc # "down"
PublicHealthy(s) == Healthy(s) /\ s.loaded \in Versions

----------------------------------------------------------------------------
(* When an action of the script begins.                                    *)

FreeForInstall(s, b) == s.nginx \in {"none", b} /\ s.svc = "down" /\ s.db = NoData /\ ~s.boot
                        /\ s.unit = "none" /\ s.state = "none"

CanInstall(s, b) == FreeForInstall(s, b) /\ s.env = "none" /\ s.venv = "none"

\* Only runtime and environment exist, and both are whole.
CanResume(s, b) == FreeForInstall(s, b) /\ s.env = "written" /\ s.venv \in Versions

\* Everything runs, and the route is still the one saved before the switch.
CanActivate(s, b) ==
    /\ s.venv = b /\ s.env = "written" /\ s.db # NoData /\ s.boot /\ s.unit = b
    /\ s.state \in {b, "uninit"} /\ s.nginx = s.state
    /\ s.enabled /\ Healthy(s)

CanUpgrade(s, b) ==
    /\ s.venv \in Versions /\ Older(s.venv, b)
    /\ s.env = "written" /\ s.db # NoData /\ Opens(s, s.venv) /\ Intact(s.unit) /\ Intact(s.state)
    /\ s.nginx \in Versions /\ ~Older(b, s.nginx)
    /\ s.enabled /\ PublicHealthy(s)

Begin(action, b, pc) ==
    /\ setup.pc = "idle"
    /\ setup' = [Quiet("none") EXCEPT !.pc = pc, !.for = action, !.bundle = b, !.before = server]
    /\ UNCHANGED <<server, setupFaults>>

StartSetup(b) ==
    \/ CanInstall(server, b) /\ Begin("install", b, "runtime")
    \/ CanResume(server, b) /\ Begin("install", b, IF server.venv = b THEN "access" ELSE "aside")
    \/ CanActivate(server, b) /\ Begin("activate", b, "replace")
    \/ CanUpgrade(server, b) /\ Begin("upgrade", b, "stage")

StartRollback == Intact(server.state) /\ server.nginx # "none" /\ Begin("rollback", "none", "route_back")

StartReset ==
    /\ \/ server.venv # "none" \/ server.env # "none" \/ server.db # NoData \/ server.unit # "none"
    /\ Begin("reset", "none", "disable")

----------------------------------------------------------------------------
(* Steps.  `done` is the server after the command, `next` the script after *)
(* the assignments that follow the command.                                *)

UpgradeTrapped == {"render", "route", "test_route", "stop", "save", "move_old", "move_new", "verify", "unit_up",
                   "migrate", "start", "health"}
SwitchTrapped == {"switch", "test", "reload", "public"}

Ends(exit) == [Quiet(exit) EXCEPT !.before = setup.before, !.route = setup.route]

OnError ==
    CASE setup.pc \in UpgradeTrapped -> [setup EXCEPT !.pc = "undo_stop"]
      [] setup.pc \in SwitchTrapped  -> IF setup.replaced THEN [setup EXCEPT !.pc = "restore"]
                                        ELSE Ends("route_restored")
      [] OTHER                       -> Ends("failed")

Try(pc, done, left, next) ==
    /\ setup.pc = pc
    /\ \/ server' = done /\ setup' = next /\ UNCHANGED setupFaults
       \/ SetupFault /\ server' \in left \cup {server, done} /\ setup' = OnError

To(pc) == [setup EXCEPT !.pc = pc]

----------------------------------------------------------------------------
(* install and resume                                                      *)

\* A runtime of another release is kept aside and built anew.
SetAsidePartial == Try("aside", [server EXCEPT !.venv = "none"], {}, To("runtime"))

InstallRuntime ==
    Try("runtime", [server EXCEPT !.venv = setup.bundle], {[server EXCEPT !.venv = "broken"]},
        To(IF server.env = "none" THEN "env" ELSE "access"))

\* The environment is created under its name and then written.
WriteEnvironment ==
    Try("env", [server EXCEPT !.env = "written"], {[server EXCEPT !.env = "torn"]}, To("access"))

VerifyAccess == Try("access", server, {}, To("init"))

InitializeGateway ==
    Try("init", [server EXCEPT !.db = Opened(@, server.venv), !.boot = TRUE],
        {[server EXCEPT !.db = Opened(@, server.venv)]}, To("service"))

\* The unit is installed, enabled and started, and answers on the local port.
InstallService ==
    LET up == Started([server EXCEPT !.unit = setup.bundle, !.enabled = TRUE])
    IN Try("service", up, {[server EXCEPT !.unit = setup.bundle], [up EXCEPT !.svc = "down"]}, To("save_route"))

----------------------------------------------------------------------------
(* switch_nginx                                                            *)

\* The current route, or a refusing one, is copied before the state is created
\* under its name and then written.
SaveRoute ==
    Try("save_route", [server EXCEPT !.state = IF server.nginx = "none" THEN "uninit" ELSE server.nginx],
        {[server EXCEPT !.state = "torn"]}, To("replace"))

\* The traps are set and the route counts as replaced before it is.
ArmSwitch ==
    /\ setup.pc = "replace"
    /\ setup' = [setup EXCEPT !.pc = "switch", !.route = server.state, !.replaced = TRUE]
    /\ UNCHANGED <<server, setupFaults>>

SwitchRoute == Try("switch", [server EXCEPT !.nginx = setup.bundle], {}, [To("test") EXCEPT !.replaced = TRUE])
TestRoute == Try("test", server, {}, To("reload"))
ReloadRoute == Try("reload", [server EXCEPT !.loaded = server.nginx], {}, To("public"))
CheckPublic == PublicHealthy(server) /\ Try("public", server, {}, Ends("done"))
PublicFails == ~PublicHealthy(server) /\ setup.pc = "public" /\ setup' = OnError /\ UNCHANGED <<server, setupFaults>>

\* restore_nginx_config: the saved route, its test, the reload.
RestoreRoute ==
    /\ setup.pc = "restore"
    /\ \/ /\ server' = [server EXCEPT !.nginx = setup.route, !.loaded = setup.route]
          /\ setup' = Ends("route_restored") /\ UNCHANGED setupFaults
       \/ /\ SetupFault
          /\ server' \in {server, [server EXCEPT !.nginx = setup.route]}
          /\ setup' = Ends("route_lost")

----------------------------------------------------------------------------
(* upgrade_gateway                                                         *)

\* Built and verified beside the running one; no trap is set yet.
StageRuntime ==
    Try("stage", [server EXCEPT !.cand = setup.bundle], {[server EXCEPT !.cand = "broken"]}, To("preflight"))

\* The configuration is copied and a copy of the database is migrated.
Preflight == Try("preflight", server, {}, [To("render") EXCEPT !.route = server.nginx])

\* The traps are set.  The route is rendered beside the current one and counts
\* as replaced before it is.
RenderRoute == Try("render", server, {}, [To("route") EXCEPT !.replaced = TRUE])
UpgradeRoute == Try("route", [server EXCEPT !.nginx = setup.bundle], {}, To("test_route"))
UpgradeReload == Try("test_route", [server EXCEPT !.loaded = server.nginx], {}, To("stop"))

StopGateway == Try("stop", [server EXCEPT !.svc = "down"], {}, To("save"))

\* sqlite_online_backup of the stopped database.
SaveDatabase == Try("save", server, {}, [To("move_old") EXCEPT !.saved = server.db])

\* The old runtime moves away; only the next assignment records it.
MoveOld == Try("move_old", [server EXCEPT !.prev = server.venv, !.venv = "none"], {}, [To("move_new") EXCEPT !.moved = TRUE])
MoveNew == Try("move_new", [server EXCEPT !.venv = server.cand, !.cand = "none"], {}, To("verify"))

\* A failed command is trapped.  An executable that has gone since its paths
\* were rewritten is `die`, an exit that no trap sees.
VerifyMoved ==
    \/ Try("verify", server, {}, To("unit_up"))
    \/ setup.pc = "verify" /\ SetupFault /\ setup' = Ends("died") /\ UNCHANGED server

UpgradeUnit == Try("unit_up", [server EXCEPT !.unit = setup.bundle], {}, To("migrate"))
Migrate == Try("migrate", [server EXCEPT !.db = Opened(@, server.venv)], {}, To("start"))
StartGateway == Try("start", Started(server), {}, To("health"))

\* Two health checks; a success confirms what the new Gateway has stored.
CheckUpgraded ==
    /\ setup.pc = "health"
    /\ \/ /\ PublicHealthy(server)
          /\ server' = [server EXCEPT !.due = server.db.rows]
          /\ setup' = Ends("done") /\ UNCHANGED setupFaults
       \/ SetupFault /\ setup' = OnError /\ UNCHANGED server

----------------------------------------------------------------------------
(* handle_upgrade_error.  Every command is tried, and a called function     *)
(* fails when its last command does: `silent` is what the server may be    *)
(* after a failure that the last command hides, `left` after any other.    *)

Undo(pc, done, left, silent, next) ==
    /\ setup.pc = pc
    /\ \/ server' = done /\ setup' = To(next) /\ UNCHANGED setupFaults
       \/ /\ SetupFault
          /\ \/ server' \in left \cup {server} /\ setup' = [To(next) EXCEPT !.ok = FALSE]
             \/ server' \in silent /\ setup' = To(next)

SkipUndo(pc, next) == setup.pc = pc /\ setup' = To(next) /\ UNCHANGED <<server, setupFaults>>

UndoStop == Undo("undo_stop", [server EXCEPT !.svc = "down"], {}, {}, "undo_runtime")

\* The new runtime moves to a third name, the previous one returns.
UndoRuntime ==
    IF setup.moved /\ server.prev # "none"
    THEN Undo("undo_runtime", [server EXCEPT !.venv = server.prev, !.prev = "none"],
              {[server EXCEPT !.venv = "none"]}, {}, "undo_data")
    ELSE SkipUndo("undo_runtime", "undo_data")

\* restore_sqlite_backup ends with chown: that the backup was not written back
\* goes unnoticed.
UndoData ==
    IF setup.saved # NoData
    THEN LET back == [server EXCEPT !.db = setup.saved]
         IN Undo("undo_data", back, {back}, {server, back}, "undo_config")
    ELSE SkipUndo("undo_data", "undo_config")

UndoUnitOnly == Undo("undo_config", [server EXCEPT !.unit = setup.before.unit], {}, {}, "undo_start")

\* atomic_restore_upgrade_config ends with mv: a copy that failed half way
\* becomes the file.  Unit, environment, state, then the route if it was
\* replaced, which Nginx tests and loads.
UndoConfig ==
    LET files == [server EXCEPT !.unit = setup.before.unit]
        route == [files EXCEPT !.nginx = setup.route]
        done  == IF setup.replaced THEN [route EXCEPT !.loaded = setup.route] ELSE files
    IN Undo("undo_config", done,
            {files, done} \cup (IF setup.replaced THEN {route, [files EXCEPT !.loaded = files.nginx]} ELSE {}),
            {[done EXCEPT !.unit = "torn"], [done EXCEPT !.env = "torn"], [done EXCEPT !.state = "torn"]}
                \cup (IF setup.replaced THEN {[done EXCEPT !.nginx = "torn", !.loaded = "torn"]} ELSE {}),
            "undo_start")

UndoStart ==
    /\ setup.pc = "undo_start"
    /\ LET up == IF server.svc = "down" THEN Started(server) ELSE server IN
       \/ /\ server' = up
          /\ setup' = Ends(IF setup.ok /\ PublicHealthy(up) THEN "restored" ELSE "unrestored")
          /\ UNCHANGED setupFaults
       \/ SetupFault /\ server' \in {server, up} /\ setup' = Ends("unrestored")

----------------------------------------------------------------------------
(* rollback and reset-test                                                 *)

\* The saved route, its test and its reload; the current one when they fail.
RouteBack ==
    /\ setup.pc = "route_back"
    /\ \/ server' = [server EXCEPT !.nginx = server.state] /\ setup' = To("reload_back") /\ UNCHANGED setupFaults
       \/ SetupFault /\ setup' = Ends("failed") /\ UNCHANGED server

ReloadBack ==
    /\ setup.pc = "reload_back"
    /\ \/ server' = [server EXCEPT !.loaded = server.nginx] /\ setup' = Ends("done") /\ UNCHANGED setupFaults
       \/ SetupFault /\ setup' = Ends("failed") /\ server' = [server EXCEPT !.nginx = setup.before.nginx]

\* The service may fail to stop; its files are archived all the same.
DisableService ==
    /\ setup.pc = "disable"
    /\ \/ server' = [server EXCEPT !.svc = "down", !.enabled = FALSE] /\ UNCHANGED setupFaults
       \/ SetupFault /\ UNCHANGED server
    /\ setup' = To("root")

ArchiveRoot == Try("root", [server EXCEPT !.venv = "none", !.cand = "none", !.prev = "none"], {}, To("data"))
ArchiveData == Try("data", [server EXCEPT !.db = NoData, !.boot = FALSE, !.due = 0], {}, To("conf"))
ArchiveConfig == Try("conf", [server EXCEPT !.env = "none", !.state = "none"], {}, To("unit"))
ArchiveUnit == Try("unit", [server EXCEPT !.unit = "none"], {}, Ends("done"))

----------------------------------------------------------------------------
(* Around the script                                                       *)

\* A client writes a row through the public route.  What a new Gateway stores
\* before its upgrade is confirmed is not yet due.
ClientWrites ==
    /\ PublicHealthy(server) /\ server.db # NoData /\ server.db.rows < MaxRows
    /\ server' = [server EXCEPT !.db.rows = @ + 1,
                                !.due = IF setup.for = "upgrade" /\ server.svc = setup.bundle
                                        THEN @ ELSE server.db.rows + 1]
    /\ UNCHANGED <<setup, setupFaults>>

\* The operator removes the consumed Bootstrap code.
RemoveBootstrap ==
    /\ server.boot /\ Healthy(server)
    /\ server' = [server EXCEPT !.boot = FALSE]
    /\ UNCHANGED <<setup, setupFaults>>

\* The operator starts a service that was left stopped.
RestartService ==
    /\ setup.pc = "idle" /\ server.svc = "down" /\ server.enabled
    /\ server' = Started(server)
    /\ UNCHANGED <<setup, setupFaults>>

KillSetup ==
    /\ SetupFault
    /\ setup.pc # "idle" /\ setup' = Ends("killed")
    /\ UNCHANGED server

PowerLoss ==
    /\ SetupFault
    /\ setup' = IF setup.pc = "idle" THEN Quiet("none") ELSE Ends("killed")
    /\ LET off == [server EXCEPT !.svc = "down", !.loaded = server.nginx]
       IN server' = IF server.enabled THEN Started(off) ELSE off

SetupStep ==
    \/ SetAsidePartial \/ InstallRuntime \/ WriteEnvironment \/ VerifyAccess \/ InitializeGateway \/ InstallService
    \/ SaveRoute \/ ArmSwitch \/ SwitchRoute \/ TestRoute \/ ReloadRoute \/ CheckPublic \/ PublicFails \/ RestoreRoute
    \/ StageRuntime \/ Preflight \/ RenderRoute \/ UpgradeRoute \/ UpgradeReload \/ StopGateway \/ SaveDatabase
    \/ MoveOld \/ MoveNew \/ VerifyMoved \/ UpgradeUnit \/ Migrate \/ StartGateway \/ CheckUpgraded
    \/ UndoStop \/ UndoRuntime \/ UndoData \/ UndoConfig \/ UndoStart
    \/ RouteBack \/ ReloadBack \/ DisableService \/ ArchiveRoot \/ ArchiveData \/ ArchiveConfig \/ ArchiveUnit

SetupNext ==
    \/ \E b \in Versions : StartSetup(b)
    \/ StartRollback \/ StartReset \/ SetupStep
    \/ ClientWrites \/ RemoveBootstrap \/ RestartService \/ KillSetup \/ PowerLoss

----------------------------------------------------------------------------
(* Properties                                                              *)

Returned ==
    LET was == setup.before IN
    /\ server.venv = was.venv /\ server.svc = was.svc
    /\ server.unit = was.unit /\ server.env = was.env
    /\ server.nginx = was.nginx /\ server.loaded \in {was.loaded, was.nginx}

RouteReturned == server.nginx = setup.route /\ server.loaded = setup.route

\* What reports that it has restored has restored, wherever it failed or was
\* interrupted, and whatever the roll-back itself failed at.  An upgrade has
\* put back the runtime, the unit, the environment, the route and the running
\* service, on a database this runtime opens: with a raised schema version,
\* the one of before (handle_upgrade_error).  A switch of the route has put
\* back the saved route on disk and in Nginx (handle_nginx_switch_error,
\* restore_nginx_config).  And the database always holds every row the Gateway
\* accepted before an upgrade stopped it
\* (create_stopped_upgrade_database_backup runs after the stop).
RestoredIsWhole ==
    /\ setup.exit = "restored" =>
           /\ Returned
           /\ server.bumps => server.db.shape = setup.before.db.shape
    /\ setup.exit = "route_restored" => RouteReturned
    /\ server.db.rows >= server.due

\* "a failed upgrade restores the previous database", at least when it reports
\* that the previous Gateway was restored (handle_upgrade_error).
FailedUpgradeRestores == setup.exit = "restored" => server.db.shape = setup.before.db.shape
=============================================================================
