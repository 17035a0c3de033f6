\* A logout with a token that has no session.
SPECIFICATION SessionSpec
CONSTANTS
    b1 = b1
    alice = alice
    bob = bob
    acme = acme
    Worker = {w1, w2}
    Jti = {a1, b1}
    Request = {r1, r2}
    Owner <- MCOwner
    TenantOf <- MCTenantOf
    Admin = {bob}
    Ops = {"logout"}
    Untracked = TRUE
    Faults = FALSE
    MaxTasks = 1
    MaxStops = 0
PROPERTIES
    LogoutInvalidates
CHECK_DEADLOCK FALSE
