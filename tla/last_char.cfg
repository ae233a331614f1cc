SPECIFICATION Spec
CONSTANTS
    BUFSIZE = 3
    Input <- MCInput
    Upper <- MCUpper
    NUL = "nul"
    Drains = {TRUE}
    SemIds = {1}
    AttachMayFail = FALSE
    ForkMayFail = FALSE
INVARIANTS
    AllConsumed
CHECK_DEADLOCK FALSE
