SPECIFICATION FairSpec
CONSTANTS
    NoName = NoName
    NoClient = NoClient
    Clients = {c1, c2}
    Files = {f1}
    Names = {c1, c2}
    NameOf <- OwnName
    NumSlots = 2
    SockBuf = 1
    MaxSends <- TwoSends
    AlarmInMain = TRUE
    SendsExit = TRUE
PROPERTIES
    FramesAreServed
    LeaversAreRemoved
    ServerDeathEndsClients
CHECK_DEADLOCK FALSE
