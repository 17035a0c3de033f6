\* A keyset in use.  A process dies while it rotates and two others break its
\* lock: do the tokens stay valid?
SPECIFICATION InUseSpec
CONSTANTS
    Proc = {p1, p2}
    MaxKeys = 4
    MaxCrashes = 1
INVARIANTS
    RotationKeepsTokens
CHECK_DEADLOCK FALSE
