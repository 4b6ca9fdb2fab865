SPECIFICATION FairSpec
CONSTANTS
    p1 = p1
    p2 = p2
    Adds <- MCAdds
    NumOthers = 2
    n1 = n1
    n2 = n2
    Nets <- MCNets
    Cidrs <- MCCidrs
    MaxIP = 2
    MayFail = TRUE
INVARIANTS
    BridgeMadeByOne
    RoutesComplete
    RouteAsRead
PROPERTIES
    PodsGetGateway
CHECK_DEADLOCK FALSE
