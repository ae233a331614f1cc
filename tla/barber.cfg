SPECIFICATION FairSpec
CONSTANTS
    Versions = {"V1", "V2"}
    MAX_CUSTOMERS = 4
    numChairs = 2
    ForkMayFail = TRUE
INVARIANTS
    SemaphoresAccounted
    CutsOnlyCustomers
    EverybodyGone
PROPERTIES
    StopsBarber
CHECK_DEADLOCK FALSE
