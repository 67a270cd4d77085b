SPECIFICATION FairPoolSpec
CONSTANTS
    Threads = {t1, t2}
    PoolSize = 3
    MaxExtra = 1
INVARIANTS
    PoolTypeOK
    CountConserved
PROPERTIES
    LockFree
