CONSTANTS
    c1 = c1
    c2 = c2
    c3 = c3
    m1 = m1
    Client <- MCClient
    Msg <- MCMsg
    MaxClients = 2
    BoardSize = 2
    MaxFd = 6
    MaxSend = 1
    Talker <- MCTalker
    StdinLines = 1
    StdinCloses = TRUE
SPECIFICATION Spec
CHECK_DEADLOCK FALSE
INVARIANTS
    TypeOK
    NoWriteToExitedClient
