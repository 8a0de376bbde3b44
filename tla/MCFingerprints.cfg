SPECIFICATION Spec
CONSTANTS
    d1 = d1  d2 = d2  x = x  y = y
    Files <- ThreeFiles
    Contents <- SmallContents
    Folder = Folder
    NoFile = NoFile
    FolderSize = 2
    AtFirst <- TwoShelves
    Sample = 1
    Buffer = 2
    MaxChanges = 1
    MaxSnapshots = 2
    MaxTime = 2
CHECK_DEADLOCK FALSE
INVARIANT TypeOK
INVARIANT DuplicatesAreCopies
INVARIANT CopiesAreFound
INVARIANT DiffMissesNothingHashed
INVARIANT DiffListsOnlyChanges
