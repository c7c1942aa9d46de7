SPECIFICATION FairSpec
CONSTANTS
    Callers = {p1, p2, p3, p4}
    Workers = {w1, w2}
    Pill = Pill
    max_ = 2
INVARIANTS
    PoolTypeOK
    FifoOrder
    NoLostWakeup
PROPERTIES
    PoolDrains
