SPECIFICATION Spec
CONSTANTS
    p1 = p1
    p2 = p2
    p3 = p3
    Procs = {p1, p2, p3}
    NumHosts = 2
    HostOf <- TwoHosts
    FirstNet = 2
    NumNets = 3
    NetSize = 3
    NeverOverlap <- HostSerial
    EtcdFailsFor = {}
SYMMETRY SameHostSymmetry
VIEW LiveView
INVARIANTS
    UniqueOnNetwork
    PodIPIsNoGateway
    LeavesOnlyWhenFull
PROPERTIES
    BookSpec
CHECK_DEADLOCK FALSE
