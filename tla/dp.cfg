SPECIFICATION FairSpec
CONSTANTS
    NPHIL = 3
    Programs = {"DP1", "DP2", "DP3"}
    ForkMayFail = TRUE
    MayCrash = TRUE
INVARIANTS
    TypeOK
    CrashRestoresTable
    NeighboursExclude
    ParentReapsAll
    NoCircularWait
PROPERTIES
    TableSpec
    KilledChildrenExit
    NoStarvation
CHECK_DEADLOCK FALSE
