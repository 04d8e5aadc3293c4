SPECIFICATION Spec
CONSTANTS
    NoName = NoName
    NoClient = NoClient
    Clients = {c1, c2, c3}
    Files = {f1}
    Names = {c1, c2, c3}
    NameOf <- OwnName
    NumSlots = 2
    SockBuf = 2
    MaxSends <- OneSend
    AlarmInMain = FALSE
    SendsExit = FALSE
SYMMETRY Symmetry
INVARIANTS
    TypeOK
    ReadyBitsStayTrue
    ListsAreCurrent
    SocketsMatchSlots
    SlotHoldsOwnData
    GetReachesAnnouncer
    ListInv
PROPERTY DirectoryRefined
CHECK_DEADLOCK FALSE
