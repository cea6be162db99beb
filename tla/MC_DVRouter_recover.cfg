CONSTANTS
    A = A
    B = B
    C = C
    NetA = NetA
    NetB = NetB
    NetC = NetC
    ZeroAddr = ZeroAddr
    Router <- MCRouterAB
    Net <- MCNetAB
    ConnectedNet <- MCConnectedNet
    StaticRoute <- MCNoStatic
    LinkCost <- MCLinkCostAB
    DeadInterval = 1
    UpdateInterval = 1
    MaxInFlight = 1
    Stoppable <- MCRouterAB
SPECIFICATION Spec
PROPERTY DeadNeighborRecovers
