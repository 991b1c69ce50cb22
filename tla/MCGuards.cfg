SPECIFICATION GuardsSpec
CONSTANTS
    Tokens = {n1}
    Validators = {v1, v2}
    Unset = Unset
    TTL = 2
    Skew = 1
    Overlap = 4
    MaxTime = 5
    MaxVersion = 3
    MaxBoots = 1
    Requests = {r1, r2, r3}
    MaxRuns = 4
    Calls = {c1, c2}
    Cost = 2
    Burst = 4
    Refill = 1
    ClockEnd = 5
    Pods = {p1, p2}
    Window = 3
    Limit = 2
    MaxHits = 4
    WindowEnd = 5
INVARIANTS
    
    TokensOutliveRotation
    ReplaysLatestRun
    BurstBound
    WindowBound

    
CHECK_DEADLOCK FALSE
