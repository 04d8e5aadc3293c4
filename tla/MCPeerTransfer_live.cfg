SPECIFICATION FairSpec
CONSTANTS
    c1 = c1
    c2 = c2
    c3 = c3
    h1 = h1
    h2 = h2
    f1 = f1
    f2 = f2
    Clients = {c1, c2}
    Hosts = {h1}
    HostOf <- OneHost
    Files = {f1}
    Shares <- AllShare
    NoFile = NoFile
    NoHost = NoHost
    NoThread = NoThread
    PiecesPerFrame = 2
    MaxGets = 2
CHECK_DEADLOCK FALSE
PROPERTIES
    GettersEnd
    SendersEnd
