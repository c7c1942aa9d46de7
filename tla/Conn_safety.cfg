SPECIFICATION Spec
CONSTANTS
    Senders = {s1, s2}
    WSize = 2
    Room = 1
    Stream <- MCStream
    MaxRefuse = 1
SYMMETRY Symmetry
INVARIANTS
    WritesWhole
    InOrder
    NoUseAfterDelete
\* All has been sent and read, and nothing is left to do.
CHECK_DEADLOCK FALSE
