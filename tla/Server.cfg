SPECIFICATION Spec
CONSTANTS
    Conns = {1, 2, 3}
    Nonce <- MCNonce
    Fds = {1, 2}
    Workers = {w1, w2}
    MaxQueue = 1
    MaxPdus = 2
    None = None
SYMMETRY Symmetry
INVARIANTS
    NoUseOfDeleted
    NoStaleDescriptor
    NoLateUpcall
    NothingLeft
    ShutdownGoesOn
\* The server is gone, or its process has ended.
CHECK_DEADLOCK FALSE
