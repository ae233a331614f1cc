SPECIFICATION ServerSpec
CONSTANTS
    Versions = {"SIGCHLD"}
    Client = {"k1", "k2", "k3"}
    ServerForkMayFail = FALSE
INVARIANTS
    RunsForever
CHECK_DEADLOCK FALSE
