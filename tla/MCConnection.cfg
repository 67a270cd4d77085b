SPECIFICATION FairSpec
CONSTANTS
    NULL = NULL
    Peers = {p, q}
    MaxSessions = 3
    Media = {audio}
    MaxPeers = 2
    MaxPending = 1
    EventCap = 1
    StaleAfter = 1
    MaxBeacons = 1
INVARIANTS TypeOK RightPeer ListedAsConnected
PROPERTY SilentPeersFade
