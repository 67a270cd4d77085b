SPECIFICATION FairSpec
CONSTANTS
    Items = {x, y}
    RingSize = 4
    NoItem = NoItem
INVARIANTS
    TypeOK
    SlotExclusive
PROPERTIES
    RefusedOnlyWhenFull
    ImplementsFifo
    ImplementsFairFifo
