SPECIFICATION Spec
CONSTANTS
    laptop = laptop  desktop = desktop  Photos = Photos
    Catalogs = {laptop, desktop}
    Flows <- OneWay
    NumDrives = 2
    Home <- HomeApart
    OwnName <- NameShared
    NoName = NoName
    MaxRows = 4
    MaxScans = 2
    MaxTime = 2
INVARIANT TypeOK
INVARIANT EveryCompleteArrives
INVARIANT RepeatChangesNothing
INVARIANT NoScanTwice
PROPERTY MergeIsAtomic
