\* Two requests with the same refresh token at the same time.
SPECIFICATION GrantSpec
CONSTANTS
    User = {u1}
    Client = {c1, c2}
    Cred = {g1, g2, g3}
    NoCred = NoCred
    Trade = {r1, r2}
    Faults = FALSE
SYMMETRY Symmetry
INVARIANTS
    TradedOnce
CHECK_DEADLOCK FALSE
