SPECIFICATION SpoolSpec
CONSTANTS
    p1 = p1
    p2 = p2
    NoPack = NoPack
    Packs = {p1, p2}
    Broken = {p2}
    MaxInstalls = 3
    MaxHostFaults = 2
    i1 = i1
    i2 = i2
    d1 = d1
    d2 = d2
    Nobody = Nobody
    Installers = {i1, i2}
    Pins <- MCPins
    ModelSize = 2
    MaxModelFaults = 2
    j1 = j1
    j2 = j2
    j3 = j3
    NoEntry = NoEntry
    CapJobs = {j1, j2, j3}
    CapOf <- MCCapOf
    MaxCapFaults = 2
    NoJob = NoJob
    Jobs = {j1, j2}
    Target <- MCTarget
    FirstBase = 1
    MaxBase = 3
    MaxFence = 2
    MaxFaults = 2
    MaxRefusals = 1
    MaxLeased = 1
    o1 = o1
    o2 = o2
    Outputs = {o1}
    LocalStore = TRUE
    MaxRuns = 2
    MaxComfyFaults = 2
    MaxCallFaults = 1
    MaxCrashes = 0
PROPERTY SpoolDrains
