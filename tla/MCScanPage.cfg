SPECIFICATION FairPageSpec
CONSTANTS
    d1 = d1  j1 = j1  j2 = j2  server = server  file = file
    Drives = {d1}
    Writers = {j1, j2}
    Jobs = {j1}
    Processes = {server}
    Host <- HostServer
    Paths = {file}
    Kind <- KindFile
    NoDrive = NoDrive
    NoWriter = NoWriter
    StaleAfter = 0
    MaxSnapshot = 2
    MaxClock = 1
    MaxErrors = 0
INVARIANT CompleteJobHasSnapshot
INVARIANT PageShowsTheScan
PROPERTY PageSettles
