SPECIFICATION FairSpec
CONSTANTS
    a1 = a1
    a2 = a2
    d1 = d1
    d2 = d2
    d3 = d3
    k1 = k1
    k2 = k2
    Acceptors <- MCAcceptors
    Dialers <- MCDialers
    Closers <- MCClosers
    Cap <- MCCap
INVARIANTS
    ClosedOnce
    NobodyParkedAfterClose
    LateDialFails
PROPERTIES
    CloseReturns
    CallsEndAfterClose
CHECK_DEADLOCK FALSE
