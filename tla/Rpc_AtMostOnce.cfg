SPECIFICATION BoundSpec
CONSTANTS
    Clients = {c1}
    MaxXid = 3
    MaxConn = 2
    MaxNonce = 1
    MaxThreads = 1
    MaxRounds = 1
    Workers = {w1, w2}
    MaxQueue = 2
    NoJob = NoJob
SYMMETRY Symmetry
INVARIANT AtMostOnce
CHECK_DEADLOCK FALSE
