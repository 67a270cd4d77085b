SPECIFICATION FairSpec
CONSTANTS
    Peers = {a, b}
    Starters = {a, b}
    Talkers = {a}
    MaxRekeys = 2
    Unreliable = TRUE
INVARIANTS
    TypeOK
    EpochGap
    WholeKeys
    AgreeWhenOrderly
PROPERTY
    Settles
CHECK_DEADLOCK FALSE
