SPECIFICATION FairSpec
CONSTANTS
    NULL = NULL
    Buffers = {b1, b2, b3}
    RingCap = 1
    EventCap = 4
    PeerFec = {FALSE}
    MaxTraffic = 3
PROPERTY ComesHome
