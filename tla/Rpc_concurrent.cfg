SPECIFICATION GapSpec
CONSTANTS
    Clients = {c1}
    MaxXid = 4
    MaxConn = 2
    MaxNonce = 1
    MaxThreads = 2
    MaxRounds = 1
    Workers = {w1, w2}
    MaxQueue = 2
    NoJob = NoJob
SYMMETRY Symmetry
INVARIANTS
    OnceWhileOutstanding
    ReturnsFirstExecution
    ClientRefsExact
    NoDanglingConn
    BuffersAccounted
PROPERTIES
    ForgetsOnlyWhatIsOver
CHECK_DEADLOCK FALSE
