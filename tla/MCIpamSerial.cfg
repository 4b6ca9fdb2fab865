SPECIFICATION Spec
CONSTANTS
    p1 = p1
    p2 = p2
    p3 = p3
    Procs = {p1, p2, p3}
    NumHosts = 3
    HostOf <- OwnHost
    FirstNet = 2
    NumNets = 2
    NetSize = 3
    NeverOverlap <- ClusterSerial
    EtcdFailsFor = {p1}
INVARIANTS
    EvenUpToTorn
CHECK_DEADLOCK FALSE
