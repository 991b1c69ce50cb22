SPECIFICATION Spec
CONSTANTS
    a = a
    b = b
    Blocks = {a, b}
    Nodes = {n1}
    Sessions = {s1, s2}
    None = None
    SafetyWindow = 0
    SessionTTL = 0
    ReaperGrace = 0
    MaxTime = 1
    Reqs = {r1, r2}
    Files <- MCFiles
    Pods = {p1}
    Consumers = {}
    BatchSize = 2
    MaxBlocksPerHour = 1
    Hour = 0
    DryRun = FALSE
    HasBlobStore = FALSE
INVARIANTS
    TypeOK
    RefCountExact
    OneVersionPerSession
    VersionFence
    VersionsGapless
    
SYMMETRY MCSymmetry
PROPERTIES
    ReapedUnreferenced
    RegistrySpec
CHECK_DEADLOCK FALSE
