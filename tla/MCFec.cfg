SPECIFICATION FecSpec
CONSTANTS
    Slots = 3
    Firsts = {0, 1}
    LongSeqs = {1, 4}
    LossRates = {0}
    MaxData = 6
    MaxGaps = 1
    MaxBack = 1
    MaxLost = 2
    MaxTransit = 2
INVARIANTS
    FecTypeOK
    RebuildRight
    
CHECK_DEADLOCK FALSE
