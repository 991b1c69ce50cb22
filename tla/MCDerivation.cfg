SPECIFICATION DerivationFairSpec
CONSTANTS
    Versions <- MCVersions
    Workers <- MCWorkers
    MimeType <- MCMimeType
    MaxAttempts = 2
    WalLen = 3
    Capacity = 1
    Partitions = {p1}
    None = None
    MaxCrashes = 1
INVARIANTS
    CommittedTasksAccounted

    
CHECK_DEADLOCK FALSE
