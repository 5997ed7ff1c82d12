SPECIFICATION Spec
CONSTANTS
    Document = {d1, d2}
    Session = {s1, s2}
    Id = {i1, i2, i3}
    None = None
    Torn = Torn
    MaxTasks = 2
    MaxMoves = 1
    MaxEvents = 2
INVARIANTS
    TypeOK
    AcceptedSurvives
    BranchesRead
    ResumesInPlace
SYMMETRY Symmetry
CHECK_DEADLOCK FALSE
