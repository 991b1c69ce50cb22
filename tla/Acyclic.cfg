SPECIFICATION NamespaceSpec
CONSTANTS
    Movers = {t1, t2}
    Nodes = {0, 1, 2, 3, 4}
    Root = 0
    Tree <- MCTree
    MaxMoves = 3
    None = None
INVARIANTS
    Acyclic
CHECK_DEADLOCK FALSE
