SPECIFICATION FairSpec
CONSTANTS
    SeqMod = 5
    RndMax = 1
    PThreshold = 0
    MaxFaults = 0
    NumChunks = 4
    LastPartial = FALSE
PROPERTIES
    LosslessDelivery
    FirstFrameRecovers
CHECK_DEADLOCK FALSE
