SPECIFICATION ConsoleSpec
CONSTANTS
    Peers = {p, q}
    MaxSessions = 2
    MaxPeers = 2
    MaxPending = 1
    EventCap = 1
    StaleAfter = 1
    MaxBeacons = 1
    Media = {"audio", "video"}
    RoomNames = {r}
    MaxRooms = 1
    MaxMsgs = 1
    MaxLines = 1
    MaxKeys = 7
    NULL = NULL
SYMMETRY AnyPeer
VIEW Acted
INVARIANTS ConsoleTypeOK EngineUp ChatPartner 
CHECK_DEADLOCK FALSE
