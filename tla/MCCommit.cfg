\* Concurrent commits alone, without a collector: liveness.
SPECIFICATION ClientFairSpec
CONSTANTS
    a = a
    b = b
    Blocks = {a, b}
    Nodes = {n1}
    Sessions = {s1, s2}
    None = None
    SafetyWindow = 0
    SessionTTL = 0
    ReaperGrace = 0
    MaxTime = 1
    Reqs = {r1, r2}
    Files <- MCOrderedFiles
    HasBlobStore = TRUE
    Pods = {}
    Consumers = {}
    BatchSize = 2
    MaxBlocksPerHour = 1
    Hour = 0
    DryRun = FALSE
PROPERTIES
    CommitAnswered
CHECK_DEADLOCK FALSE
