SPECIFICATION Spec
CONSTANTS
    Conn = {c1, c2}
    Sid = {s1}
    Stored = {s1}
    MaxLive = 3
    Req = {r1, r2}
    None = None
SYMMETRY Symmetry
CHECK_DEADLOCK FALSE
INVARIANT CloseReleasesRuntimes
