SPECIFICATION Spec
CONSTANTS
    Conn = {c1, c2}
    Sid = {s1}
    Stored = {}
    MaxLive = 3
    Req = {r1, r2}
    None = None
SYMMETRY Symmetry
INVARIANTS
    TypeOK
    ExclusiveRuntime
    DisposedOnce
    OperationCountExact
    NoDisposeInUse
    NoForgottenSession
    TerminalDrains
    NothingServedAfterClose
    IInv
    UseInv
PROPERTY ImplementsExclusiveRuntimes
CHECK_DEADLOCK FALSE
