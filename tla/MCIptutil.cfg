SPECIFICATION Spec
CONSTANTS
    s1 = s1
    s2 = s2
    o1 = o1
    Starts <- MCStarts
    Others <- MCOthers
    MaxForeign = 1
SYMMETRY StartSymmetry
INVARIANTS
    AppliedOrRemoved
    TwiceOnlyIfMet
CHECK_DEADLOCK FALSE
