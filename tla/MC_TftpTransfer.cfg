CONSTANTS
    MaxFull = 3
    BlockMod = 4
    MaxRetry = 3
    CliRetry = 2
    NPorts = 1
    MaxReq = 1
SPECIFICATION Spec
\* The child exits when its handler returns, and the client stops.
CHECK_DEADLOCK FALSE
INVARIANTS
    TypeOK
    ServerNeverAhead
    WrqDoneMeansFileWhole
PROPERTIES
    ImplementsTftpFile
    ServerTerminates
