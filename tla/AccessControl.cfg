SPECIFICATION InTurnSpec
CONSTANTS
    Gate = {w1, w2}
    User = {u1}
    Policy = {p1}
    Resource = {x}
    Bit = {0, 1}
    ActionBag <- MCBags
    Token = {j1, j2}
    Time = {m1}
    Task = {t1}
    MaxChanges = 3
    None = none
INVARIANTS
    AccessTypeOK
    NarrowingIsSwept
    RightsAreNamed
PROPERTIES
    NarrowingLands
CHECK_DEADLOCK FALSE
