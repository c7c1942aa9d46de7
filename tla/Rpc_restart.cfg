SPECIFICATION FairSpec
CONSTANTS
    Clients = {c1}
    MaxXid = 2
    MaxConn = 2
    MaxNonce = 2
    MaxThreads = 1
    MaxRounds = 1
    Workers = {w1}
    MaxQueue = 1
    NoJob = NoJob
INVARIANTS
    TypeOK
PROPERTIES
    KeepsPromise
    EveryCallReturns
CHECK_DEADLOCK FALSE
