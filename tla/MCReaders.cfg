SPECIFICATION ReadersSpec
CONSTANTS
    d1 = d1  d2 = d2  s1 = s1  x = x  v1 = v1  v2 = v2  v3 = v3
    r1 = r1  r2 = r2
    Drives = {d1, d2}
    Scans = {s1}
    Paths = {x}
    Versions = {v1, v2, v3}
    NoVersion = NoVersion
    NoDrive = NoDrive
    Slots = {r1, r2}
    MaxRenders = 2
CONSTRAINT OneTree
SYMMETRY ReadersSymmetry
INVARIANT ExportedTotalsMatch
INVARIANT ExportedLatestIsListed
INVARIANT DiffIsOfSelected
INVARIANT DiffIsOfRows
