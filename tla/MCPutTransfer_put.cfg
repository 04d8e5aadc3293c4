SPECIFICATION FairSpec
CONSTANTS
    c1 = c1
    c2 = c2
    plain = plain
    awkward = awkward
    Clients = {c1, c2}
    Files = {plain, awkward}
    ChunkHeads <- TwoFiles
    ShortFiles = {plain}
    NoFile = NoFile
    MaxCommands = 3
    MaxLosses = 1
CHECK_DEADLOCK FALSE
INVARIANTS
    TypeOK
    PutInv
    CleanPutsAreWhole
    CleanAnswersAreNotStale
PROPERTIES
    CleanCommandsReturn
