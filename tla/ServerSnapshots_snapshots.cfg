SPECIFICATION FairSpec
CONSTANTS
    Connection = {c1, c2}
    MaxChanges = 3
    MaxFailures = 1
    None = None
INVARIANTS
    TypeOK
    StaleIsPending
PROPERTY
    BroadcastsEnd
CHECK_DEADLOCK FALSE
