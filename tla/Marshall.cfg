SPECIFICATION Spec
CONSTANTS
    Base = 4
    IntLen = 2
    DefaultSz = 14
    Args <- MCArgs
    Headers <- MCHeaders
    Rets = {0, 7}
    MaxArgs = 3
INVARIANTS
    MarshallTypeOK
    CallFaithful
\* The call has returned.
CHECK_DEADLOCK FALSE
