SPECIFICATION FairSpec
CONSTANTS
    MaxOps = 2
    MaxMessages = 2
    MaxWrites = 2
    MaxFaults = 1
    EarlyPrompts = FALSE
    None = None
INVARIANTS
    TypeOK
    MessagesConserved
    DeliveredInOrder
    WritesExactlyOnce
    RunsFlush
    PhaseReleased
PROPERTIES
    WritesKeepTurnsWhole
    CancelledSettles
CHECK_DEADLOCK FALSE
