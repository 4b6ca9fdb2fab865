SPECIFICATION FairSpec
CONSTANTS
    Items <- MCItems
    Together <- MCTogether
    Room = 1
    MaxBreaks = 1
    DailRetryTime = 3
INVARIANTS
    WholeIfQuiet
    OkMeansServed
    CallSettles
    EndsTogether
    SocketReleased
PROPERTIES
    StreamSpec
    CallEnds
CHECK_DEADLOCK FALSE
