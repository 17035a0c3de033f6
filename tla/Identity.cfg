\* Accounts from invitations and providers; codes and refresh tokens; keys,
\* expiry and the cache of the gate; the connections of the pool.
SPECIFICATION IdentitySpec
CONSTANTS
    Tenant = {t1, t2}
    Email = {e1, e2, e3}
    Invite = {i1}
    Provider = {p1}
    Subject = {s1, s2}
    Txn = {x1}
    Request = {r1, r2}
    Home <- MCHome
    Config <- MCConfig
    None = none
    User <- MCUser
    Client <- MCClient
    Cred = {g1, g2}
    NoCred = NoCred
    Trade <- MCTrade
    Faults = TRUE
    Process = {w1, w2}
    Jwt = {j1, j2}
    Call = {c1, c2}
    Rotation = 2
    Check = 1
    Retention = 5
    Ttl = 2
    MemoCap = 1
    MaxTime = 6
    ShortTime = 3
    Conn = {k1, k2}
    Owner = {t1, t2}
    Http = {q1, q2, q3}
    Nobody = nobody
SYMMETRY Symmetry
INVARIANTS
    AccountsTypeOK
    OneAccountPerInvitation
    OneSessionPerTransaction
    EntersLinkedAccount
    LinksStayInTenant
    SignInCanBeRepeated
    TradedIsSpent
    LineKeepsOwner
    OneAlivePerLine
    KeyOutlivesToken
    RefusalIsFinal
    OwnTenantOnly
    WaitersAreServed
CHECK_DEADLOCK FALSE
