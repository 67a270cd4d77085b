SPECIFICATION FairSpec
CONSTANTS
    Peers = {a, b}
    Interval = 1
    Timeout = 4
    Retry = 1
    MaxAttempts = 1
    MaxPaths = 2
    Hoppers = {a}
    HopHeard = FALSE
    MinPolls = 2
    MaxPolls = 2
    PollGap = 0
    MaxTransit = 1
    MaxHops = 1
    MaxPoolFails = 1
INVARIANTS
    TypeOK
    
    DownMeansSilent

    
