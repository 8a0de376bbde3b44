SPECIFICATION Spec
CONSTANTS
    d1 = d1  d2 = d2  w1 = w1  w2 = w2  p1 = p1  p2 = p2
    file = file  link = link
    Drives = {d1, d2}
    Writers = {w1, w2}
    Processes = {p1, p2}
    Host <- HostApart
    Paths = {file, link}
    Kind <- KindTwo
    NoDrive = NoDrive
    NoWriter = NoWriter
    StaleAfter = 1
    MaxSnapshot = 2
    MaxClock = 3
    MaxErrors = 1
SYMMETRY ApartSymmetry
INVARIANT LatestIsComplete
INVARIANT NoPartialTree
INVARIANT CountsMatchEntries
INVARIANT LatestIsNewest
PROPERTY CompleteIsForever
