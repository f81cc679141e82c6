SPECIFICATION BatcherFairSpec
CONSTANTS
    Inc = {i1, i2}
    Key = {k1, k2}
    Caller = {c1, c2}
    Runner = run
    Sweeper = sweep
    Nil = Nil
    BatchSize = 1
    Failures = TRUE
INVARIANTS
    HitsAccounted
PROPERTY PendingFlushed
