SPECIFICATION FairSpec
CONSTANTS
    BUFFERSIZE = 8
    WORD = 2
    NPUT = 4
    Consumer = {c1, c2}
    ForkMayFail = TRUE
INVARIANTS
    WorkAreaIntact
PROPERTIES
    PoolSpec
    Termination
CHECK_DEADLOCK FALSE
