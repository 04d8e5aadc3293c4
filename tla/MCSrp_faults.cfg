SPECIFICATION Spec
CONSTANTS
    SeqMod = 4
    RndMax = 1
    PThreshold = 0
    MaxFaults = 2
    NumChunks = 5
    LastPartial = TRUE
INVARIANTS
    TypeOK
    InOrder
    WriteLimit
    AcksNeverAdvance
    InFlightBound
    FlightInv
PROPERTIES
    OnlyFrameZeroResent
    PipeRefined
CHECK_DEADLOCK FALSE
