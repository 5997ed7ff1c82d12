SPECIFICATION Spec
CONSTANTS
    Token = {t1, t2}
    None = None
    Removals = FALSE
    MaxFaults = 2
INVARIANT ExclusiveAlways
SYMMETRY Symmetry
CHECK_DEADLOCK FALSE
