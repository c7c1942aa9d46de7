SPECIFICATION DeadlineSpec
CONSTANTS
    MsPerSec = 4
    NsPerMs = 3
    ToMin = 4
    Tos <- Timeouts
    LastSec = 6
INVARIANTS
    NoEarlyTimeout
    NoLateRound
PROPERTIES
    CallReturns
\* When the call is over and the clock has stopped, nothing is left to do.
CHECK_DEADLOCK FALSE
