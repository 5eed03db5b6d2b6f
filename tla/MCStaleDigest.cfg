SPECIFICATION Spec
CONSTANTS
    PinnedPaths <- MCPaths
    Inodes = {f1, f2}
    Bytes = {a, b}
    NoInode = NoInode
    NoDigest = NoDigest
    StampTick = 2
    SettleTime = 2
    LastSecond = 5
    MaxWrites = 2
\* Time is bounded.
CHECK_DEADLOCK FALSE
INVARIANT ReusedDigestIsCurrent
