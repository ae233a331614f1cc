SPECIFICATION FairSpec
CONSTANTS
    BUFSIZE = 3
    Input <- MCInput
    Upper <- MCUpper
    NUL = "nul"
    Drains = {FALSE, TRUE}
    SemIds <- AnyId
    AttachMayFail = TRUE
    ForkMayFail = TRUE
INVARIANTS
    TypeOK
    RingGuarded
    Output
PROPERTIES
    LineSpec
    Termination
CHECK_DEADLOCK FALSE
