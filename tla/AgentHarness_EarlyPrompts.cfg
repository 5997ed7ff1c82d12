SPECIFICATION Spec
CONSTANTS
    MaxOps = 2
    MaxMessages = 0
    MaxWrites = 1
    MaxFaults = 0
    EarlyPrompts = TRUE
    None = None
INVARIANT WritesExactlyOnce
CHECK_DEADLOCK FALSE
