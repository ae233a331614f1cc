SPECIFICATION PipesFairSpec
CONSTANTS
    Programs = {"Pipe1", "Pipe2", "Pipe3", "Pipe4", "Pipe5", "block", "shell", "half", "full"}
    Sizes = {0, 5, 9, 14}
    MSGSIZE = 2
    SMALLSIZE = 3
    LINELEN = 5
    MAX_BUF_SIZE = 4
    STRLEN = 3
    PIPESIZE = 6
    PIPE_BUF = 6
    MayBeKilled = {1, 2}
    Faults = {"fork"}
INVARIANTS
    PipesDeliver
PROPERTIES
    PipesEnd
CHECK_DEADLOCK FALSE
