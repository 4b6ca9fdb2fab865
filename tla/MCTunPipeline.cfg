SPECIFICATION FairSpec
CONSTANTS
    Sizes <- MCSizes
    SliceSize = 4
    PipeSize = 1
    MaxFrames = 2
INVARIANTS
    SentInOrder
    CleanDelivery
PROPERTIES
    EveryFrameOut
CHECK_DEADLOCK FALSE
