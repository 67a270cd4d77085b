SPECIFICATION FairSpec
CONSTANTS
    Checked <- BothChecked
    MaxFresh = 8
    MaxSeq = 4
    MaxRestarts = 0
    MaxPoolFails = 2
PROPERTY LockedForGood
PROPERTY BothLock
CHECK_DEADLOCK FALSE
