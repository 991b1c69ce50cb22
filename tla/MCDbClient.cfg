SPECIFICATION ClientFairSpec
CONSTANTS
    Callers = {c1, c2}
    Health = health
    Replicas = 1
    Kinds = {"exec", "tx", "read"}
    Threshold = 2
    MaxConnsPerPool = 3
    MinConnsPerPool = 1
    MaxTotalConns = 4
INVARIANTS
    ConnsAccounted
PROPERTIES
    
    BreakerRecovers
