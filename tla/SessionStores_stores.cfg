SPECIFICATION FairSpec
CONSTANTS
    MaxOps = 4
    Key = {k1, k2, k3}
    All = All
    maxConcurrentOperations = 2
    MaxForks = 1
    None = None
INVARIANTS
    TypeOK
    PermitsExact
    IInv
    DisposedMeansSettled
PROPERTIES
    ImplementsSerialOperations
    AcceptedSettles
CHECK_DEADLOCK FALSE
