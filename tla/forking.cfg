SPECIFICATION ForkingSpec
CONSTANTS
    Versions = {"Fork", "SIGCHLD"}
    Client = {"k1", "k2", "k3", "k4"}
    ServerForkMayFail = TRUE
    Programs = {"forkwait1", "forkwait2", "forkwait3", "forkwait4", "shell",
                "signal0", "signal1", "spawn"}
    MaxChilds = 4
    ForkMayFail = TRUE
INVARIANTS
    ServerTypeOK
    CountSafe
    CountNeverShort
    ChildrenCounted
PROPERTIES
    CleansAll
    ParentsEnd
CHECK_DEADLOCK FALSE
