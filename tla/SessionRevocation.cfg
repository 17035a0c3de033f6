\* Every kind of request, with failures and one worker stop.
SPECIFICATION FairSessionSpec
CONSTANTS
    b1 = b1
    alice = alice
    bob = bob
    acme = acme
    Worker = {w1, w2}
    Jti = {a1, a2}
    Request = {r1, r2}
    Owner <- MCOwner
    TenantOf <- MCTenantOf
    Admin = {alice}
    Ops = {"logout", "single", "bulk", "all"}
    Untracked = TRUE
    Faults = TRUE
    MaxTasks = 2
    MaxStops = 1
INVARIANTS
    RevokedRowIsBroadcast
PROPERTIES
    EndedRequestIsEffective
    RevocationLands
CHECK_DEADLOCK FALSE
