SPECIFICATION MCFairSpec
CONSTANTS
    Key = {k1, k2, k3}
    Elem = {e1, e2, e3, e4}
    Nil = Nil
    MaxEntries = 2
INVARIANTS
    MapPointsIntoList
    CapacityRespected
PROPERTY EvictionTerminates
VIEW View
