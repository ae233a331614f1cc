SPECIFICATION UdpFairSpec
CONSTANTS
    Clients = {"timeout", "plain"}
    Servers = {"iterative", "sigio"}
    MAXTRIES = 5
    InFlight = 3
    ServerMayStop = TRUE
INVARIANTS
    UdpTypeOK
    TriesCountWords
    HandlerDrains
PROPERTIES
    EndsUnlessMissed
CHECK_DEADLOCK FALSE
