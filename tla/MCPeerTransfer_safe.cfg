SPECIFICATION Spec
CONSTANTS
    c1 = c1
    c2 = c2
    c3 = c3
    h1 = h1
    h2 = h2
    f1 = f1
    f2 = f2
    Clients = {c1, c2, c3}
    Hosts = {h1, h2}
    HostOf <- TwoOnOneHost
    Files = {f1, f2}
    Shares <- TwoSharers
    NoFile = NoFile
    NoHost = NoHost
    NoThread = NoThread
    PiecesPerFrame = 1
    MaxGets = 2
CHECK_DEADLOCK FALSE
INVARIANTS
    TypeOK
    OneTransferPerClient
    PortsMatchListeners
    SenderSlotsSuffice
    CalmDownloadsAreRight
