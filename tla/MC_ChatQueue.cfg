CONSTANTS
    w1 = w1
    w2 = w2
    m = m
    n1 = n1
    n2 = n2
    n3 = n3
    Null = Null
    Poppers <- MCPoppers
    TryPoppers <- MCTryPoppers
    Node <- MCNode
    MaxPush = 4
SPECIFICATION QSpec
\* Every thread may stop calling the queue.
CHECK_DEADLOCK FALSE
INVARIANT
    ListWellFormed
PROPERTIES
    ImplementsFifo
    NoLostWakeup
    CloseReleasesAll
