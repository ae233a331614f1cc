SPECIFICATION FairSpec
CONSTANTS
    k1 = k1
    k2 = k2
    Client = {k1, k2}
    Port <- MCPort
    Versions = {"Iterative", "ForkN", "Thread", "Select"}
    Words = {0, 1, 6}
    SOCKBUF = 2
    RCVBUFSIZE = 3
    processLimit = 2
    Mortal = {k1}
    Faults = {"fork", "thread"}
INVARIANTS
    StreamsWhole
    FailuresExplained
PROPERTIES
    ServiceEnds
    ChannelSpec
CHECK_DEADLOCK FALSE
