SPECIFICATION FairSpec
CONSTANTS
    MaxOps = 3
    Key = {k1, k2}
    All = All
    maxConcurrentOperations = 1
    MaxForks = 1
    None = None
PROPERTY DisposalEnds
CHECK_DEADLOCK FALSE
