SPECIFICATION Spec
CONSTANTS
    NoName = NoName
    NoClient = NoClient
    Clients = {c1, c2}
    Files = {f1}
    Names = {c1, c2}
    NameOf <- OwnName
    NumSlots = 2
    SockBuf = 2
    MaxSends <- OneSend
    AlarmInMain = FALSE
    SendsExit = FALSE
INVARIANT
    DeparturesAreSurvived
CHECK_DEADLOCK FALSE
