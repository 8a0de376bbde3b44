SPECIFICATION Spec
CONSTANTS
    laptop = laptop  desktop = desktop  Photos = Photos
    Catalogs = {laptop, desktop}
    Flows <- BothWays
    NumDrives = 1
    Home <- HomeOne
    OwnName <- NameOne
    NoName = NoName
    MaxRows = 4
    MaxScans = 2
    MaxTime = 2
CHECK_DEADLOCK FALSE
INVARIANT ReceiptsTellTheTruth
PROPERTY ViewMovesForward
PROPERTY OwnRowsStay
