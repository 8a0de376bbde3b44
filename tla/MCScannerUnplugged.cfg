SPECIFICATION Spec
CONSTANTS
    Listing <- SmallTree
    Links <- SmallLinks
    Patterns <- NameAndFolder
    HashWanted = FALSE
INVARIANT PartialNeverReplaces
