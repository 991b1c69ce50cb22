SPECIFICATION LeaderFairSpec
CONSTANTS
    Pods = {p1, p2}
    Blocks = {b1}
    LeaderKey = leader
    Resources = {b1, leader}
    Tokens = {1, 2, 3, 4, 5, 6, 7}
    NoToken = NoToken
    None = None
    MaxFaults = 2
PROPERTIES
    OnlyOwnerUnlocks
    
