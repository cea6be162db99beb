CONSTANTS
    A = A
    B = B
    NetA = NetA
    NetB = NetB
    NetX = NetX
    HostA = HostA
    HostB = HostB
    HostX = HostX
    ZeroAddr = ZeroAddr
    Outside = Outside
    Router <- MCRouter
    Net <- MCNet
    ConnectedNet <- MCConnectedNet
    StaticRoute <- MCStaticRoute
    LinkCost <- MCLinkCost
    Addr <- MCAddr
    Covers <- MCCovers
    PrefixLen <- MCPrefixLen
    DeadInterval = 1
    UpdateInterval = 1
    MaxInFlight = 1
    Stoppable <- MCStoppable
    MaxTTL = 3
    MaxPackets = 1
SPECIFICATION FwdSpec
INVARIANTS
    FwdTypeOK
    ForwardedTTLPositive
    DeadNeighborRoutesPoisoned
    ConnectedRouteKept
PROPERTIES
    PacketEventuallyConsumed
    StoppedRouterDetected
