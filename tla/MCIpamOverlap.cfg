SPECIFICATION FairSpec
CONSTANTS
    p1 = p1
    p2 = p2
    p3 = p3
    Procs = {p1, p2}
    NumHosts = 1
    HostOf <- OneHost
    FirstNet = 2
    NumNets = 2
    NetSize = 3
    NeverOverlap <- Overlapping
    EtcdFailsFor = {}
PROPERTIES
    AddEnds
CHECK_DEADLOCK FALSE
