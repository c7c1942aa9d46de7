SPECIFICATION FairSpec
CONSTANTS
    Senders = {s1, s2}
    WSize = 2
    Room = 1
    Stream <- MCShort
    MaxRefuse = 0
PROPERTIES
    SendReturns
    PduDelivered
\* All has been sent and read, and nothing is left to do.
CHECK_DEADLOCK FALSE
