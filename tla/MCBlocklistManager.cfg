SPECIFICATION FairSpec
CONSTANTS
    one = one
    two = two
    none = none
    s1 = s1
    s2 = s2
    Config <- MCConfig
    Source = {s1, s2}
    SourcesOf <- MCSourcesOf
    FailOnAny = {two}
    Handler = {h1}
    Refresher = refresher
    Nil = Nil
INVARIANTS
    SnapshotOfOneConfig
PROPERTIES
    CatchesUp
