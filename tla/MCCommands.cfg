SPECIFICATION CommandSpec
CONSTANTS
    Listing <- SmallTree
    Links <- SmallLinks
    Patterns <- NameAndFolder
    HashWanted = TRUE
    EfuFiles <- SmallFiles
    Letters <- LettersInName
    Numbers <- NumbersInName
INVARIANT TypeOK
INVARIANT GapsAreReported
INVARIANT ExcludedStaysOut
INVARIANT TotalsMatchRecorded
INVARIANT EveryItemArrives
INVARIANT EntriesMoveOn
