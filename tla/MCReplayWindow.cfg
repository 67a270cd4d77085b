SPECIFICATION WindowSpec
CONSTANTS
    W = 3
    MaxSeq = 4
    Paths = {p1, p2}
    Multipath = TRUE
    Session = Session
INVARIANTS
    WindowTypeOK
    NoReplay
PROPERTIES
    DropsOnlyStale
