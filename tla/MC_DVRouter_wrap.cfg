CONSTANTS
    A = A
    B = B
    C = C
    NetA = NetA
    NetB = NetB
    NetC = NetC
    ZeroAddr = ZeroAddr
    Router <- MCRouter
    Net <- MCNet
    ConnectedNet <- MCConnectedNet
    StaticRoute <- MCNoStatic
    LinkCost <- MCLinkCost
    DeadInterval = 1
    UpdateInterval = 1
    MaxInFlight = 1
    Stoppable = {}
INIT Init
NEXT Next
INVARIANT CostNeverBelowShortestPath
