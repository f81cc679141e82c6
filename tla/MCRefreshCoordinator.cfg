SPECIFICATION FairSpec
CONSTANTS
    Replica = {r1, r2}
    Key = {k1}
    Call = {c1, c2}
    Nil = Nil
    MaxInflight = 1
    Threshold = 1
INVARIANTS
    TokensExact
    OneRefreshWhileLockHolds
    RetriesStop
PROPERTIES
    NothingStuck
