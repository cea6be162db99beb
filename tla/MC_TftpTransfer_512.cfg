CONSTANTS
    MaxFull = 1
    BlockMod = 4
    MaxRetry = 3
    CliRetry = 1
    NPorts = 1
    MaxReq = 0
SPECIFICATION Spec
\* The child exits when its handler returns, and the client stops.
CHECK_DEADLOCK FALSE
INVARIANT
    RrqCompleteMeansClientDone
