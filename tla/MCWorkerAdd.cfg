SPECIFICATION EnrollSpec
CONSTANTS
    Invites = {i1, i2}
    WorkerKeys = {k1, k2}
    NoKey = NoKey
    OtherKey = OtherKey
    Approver = "cli"
    MaxEnrollFaults = 0
    Workers = {w1, w2}
    Devices = {b1}
    NoDevice = NoDevice
    MaxAttempts = 3
    MaxRekeyFaults = 1
    MaxLapses = 1
    MaxCliCalls = 0
    MaxSetupFaults = 1
    MaxRows = 2
    LedgerIds = {1, 2, 3, 4}
    FinishCalls = {f1, f2}
    ReverseCalls = {r1, r2}
    LastTick = 2
    NumInputs = 1
    MaxSubmits = 2
    MaxSessions = 2
    MaxTaskRows = 2
    MaxSubmitFaults = 1
    Gets = {g1, g2, g3}
    Outputs = {a, b}
    Absent = Absent
    MaxNames = 2
    NoTable = NoTable
    NewColumns = {"content_key_version", "command_key"}
    NewJobs = {"j3"}
    MaxKills = 3
    MarketPackages = {m1, m2}
    CustomPackages = {u1}
    NoSig = NoSig
    Installs = {n1, n2}
    Removes = {x1}
    MaxEdits = 1
    MaxPublishes = 2
\* A script, a command or a Gateway with no request left to handle may stop.
CHECK_DEADLOCK FALSE
PROPERTY WorkerAddApproves
