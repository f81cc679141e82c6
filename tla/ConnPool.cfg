SPECIFICATION FairSpec
CONSTANTS
    Conn = {a, b, c}
    Exchange = {e1, e2}
    Pool = {p, q}
    Nil = Nil
    PoolSize = 1
INVARIANTS
    ExclusiveUse
    ConnsAccounted
PROPERTY ExchangesFinish
