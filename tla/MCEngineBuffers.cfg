SPECIFICATION Spec
CONSTANTS
    NULL = NULL
    Buffers = {b1, b2, b3}
    RingCap = 1
    EventCap = 4
    PeerFec = {TRUE, FALSE}
    MaxTraffic = 5
SYMMETRY AnyBuffer
VIEW LiveState
INVARIANTS TypeOK OneHolder EventRoom
