CONSTANTS
    k1 = k1  k2 = k2  w1 = w1  w2 = w2  a = a
    Quit = Quit  EOF = EOF  NoName = NoName  Free = Free
    Conn <- MCConn
    Worker <- MCWorker
    Word <- MCWord
    MaxClients = 2
    MaxLines = 2
    MaxSent = 2
SPECIFICATION Spec
CHECK_DEADLOCK FALSE
INVARIANT NoUseAfterFree
