SPECIFICATION FairSpec
CONSTANTS
    SeqMod = 8
    RndMax = 1
    PThreshold = 0
    MaxFaults = 0
    NumChunks = 3
    LastPartial = FALSE
PROPERTY
    SingleLossRecovered
CHECK_DEADLOCK FALSE
