SPECIFICATION FairSpec
CONSTANTS
    old = old  new = new  newer = newer
    Processes = {old, new, newer}
    Supports <- SupportsThree
    MaxVersion = 3
    NoProcess = NoProcess
INVARIANT TablesMatchVersion
INVARIANT FailureMigratesNothing
PROPERTY VersionNeverGoesBack
PROPERTY LockIsFreed
