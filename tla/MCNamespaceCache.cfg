SPECIFICATION CacheFairSpec
CONSTANTS
    Readers = {r1, r2}
    Writers = {w1}
    None = None
    MaxMoves = 2
    MaxGen = 2
INVARIANTS
    InvalidationImmediate

    
CHECK_DEADLOCK FALSE
