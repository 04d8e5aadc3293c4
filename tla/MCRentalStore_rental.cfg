SPECIFICATION Spec
CONSTANTS
    NumVideos = 8
    NumCustomers = 4
    Requirements <- MCRequirements
    Request <- MCRequest
    MostNights = 7
    Days = 10
INVARIANTS
    TypeOK
    VideosAreConserved
    ActiveListsMatch
    DueRentalsGoBack
    LastNeverRents
    HoldingsBound
PROPERTY InventoryRefined
CHECK_DEADLOCK FALSE
