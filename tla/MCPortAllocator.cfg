SPECIFICATION PortFairSpec
CONSTANTS
    c1 = c1
    c2 = c2
    Base <- MCBase
    Size <- MCSize
    BufSize <- MCBufSize
    Clients <- MCClients
INVARIANTS
    UsedIsOut
    OnePlace
PROPERTIES
    PoolSpec
    BufferRefills
