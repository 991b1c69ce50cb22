SPECIFICATION ClientSpec
CONSTANTS
    a = a
    b = b
    Blocks = {a, b}
    Nodes = {n1}
    Sessions = {s1, s2}
    None = None
    SafetyWindow = 0
    SessionTTL = 1
    ReaperGrace = 0
    MaxTime = 1
    Reqs = {r1}
    Files <- MCFiles
    HasBlobStore = TRUE
    Pods = {p1}
    Consumers = {c1}
    BatchSize = 1
    MaxBlocksPerHour = 2
    Hour = 0
    DryRun = FALSE
INVARIANTS
    ClientTypeOK
    OnlyReleasedBlocksLost
CHECK_DEADLOCK FALSE
