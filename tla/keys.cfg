SPECIFICATION FairSpec
CONSTANTS
    Programs = {"pv", "msg", "sem"}
    Instance = {1, 2}
    nprocs = 2
    ROUNDS = 2
    User = {u1, u2, u3, u4}
    QMAX = 2
    ForkMayFail = TRUE
INVARIANTS
    SharedByKey
PROPERTIES
    AllEnd
CHECK_DEADLOCK FALSE
