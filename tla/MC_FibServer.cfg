\* One connection, DEFAULT_NUM_THREADS workers, N from invalid to more
\* than twice the thread count, so some ranges are empty and some longer.
CONSTANTS
    NumThreads = 4
    MaxConn = 2
    InputN <- MCInputN
SPECIFICATION Spec
\* The handler thread returns after close(connfd).
CHECK_DEADLOCK FALSE
INVARIANTS
    PartitionExact
    TotalIsFibSum
