SPECIFICATION FairSpec
CONSTANTS
    Threads = {t1, t2}
    Locks = {a, b}
    Workers = {w1, w2}
    NoJob = NoJob
    MaxLate = 1
INVARIANTS
    MutualExclusion
    NacquireExact
    PoolNeverExhausted
PROPERTIES
    ReleaseReturns
CHECK_DEADLOCK FALSE
