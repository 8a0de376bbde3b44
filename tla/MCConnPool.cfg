SPECIFICATION FairPoolSpec
CONSTANTS
    d1 = d1  w1 = w1  w2 = w2  e1 = e1  p1 = p1  folder = folder
    Drives = {d1}
    Writers = {w1, w2}
    Processes = {p1}
    Host <- HostTogether
    Paths = {folder}
    Kind <- KindFolder
    NoDrive = NoDrive
    NoWriter = NoWriter
    StaleAfter = 0
    MaxSnapshot = 2
    MaxClock = 1
    MaxErrors = 0
    Editors = {e1}
    Server = p1
    PoolSizes = {1, 2}
INVARIANT IInv
PROPERTY ImplementsShelf
PROPERTY ScanEnds
PROPERTY NothingScansForever
PROPERTY RequestsAreAnswered
