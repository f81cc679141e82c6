SPECIFICATION FairSpec
CONSTANTS
    Replica = {r1}
    Key = {k1, k2}
    Call = {c1}
    Nil = Nil
    Cluster = TRUE
    MaxKeys = 1
    MaxClears = 1
    OrphansRemoved = TRUE
INVARIANTS
    IndexKept
    
PROPERTIES
    SweepsKeepUp
