\* A login between the SELECT and the UPDATE of a logout-all.
SPECIFICATION SessionSpec
CONSTANTS
    b1 = b1
    alice = alice
    bob = bob
    acme = acme
    Worker = {w1, w2}
    Jti = {a1, a2, b1}
    Request = {r1, r2}
    Owner <- MCOwner
    TenantOf <- MCTenantOf
    Admin = {bob}
    Ops = {"all"}
    Untracked = FALSE
    Faults = FALSE
    MaxTasks = 1
    MaxStops = 0
INVARIANTS
    SweepIsBroadcast
CHECK_DEADLOCK FALSE
