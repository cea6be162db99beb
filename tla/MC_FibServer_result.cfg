\* DEFAULT_NUM_THREADS and N = 72, whose Fibonacci numbers all fit a long.
CONSTANTS
    NumThreads = 4
    MaxConn = 1
    InputN = {72}
SPECIFICATION Spec
CHECK_DEADLOCK FALSE
INVARIANT ResultFits
