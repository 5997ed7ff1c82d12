SPECIFICATION FairSpec
CONSTANTS
    Conn = {c1}
    Sid = {s1}
    Stored = {}
    MaxLive = 3
    Req = {r1, r2}
    None = None
PROPERTIES
    RequestAnswered
    TerminatedIsReleased
    CloseCompletes
CHECK_DEADLOCK FALSE
