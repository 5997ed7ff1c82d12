SPECIFICATION Spec
CONSTANTS
    Token = {t1, t2}
    None = None
    Removals = TRUE
    MaxFaults = 2
INVARIANTS
    TypeOK
    ExclusiveAlone
    AttachmentFollowsLeases
    NoLostCall
SYMMETRY Symmetry
CHECK_DEADLOCK FALSE
