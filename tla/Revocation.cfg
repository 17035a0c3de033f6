\* Every fault and one stop: the log, its trimming, the group, the fan-out, the start
\* of a worker that pages through the log, and what must eventually happen.
SPECIFICATION FairSpec
CONSTANTS
    Worker = {w1, w2}
    Jti = {j1}
    Request = {r1}
    BatchSize = 1
    MaxLen = 1
    RedisFaults = TRUE
    MaxStream = 2
    MaxStops = 1
INVARIANTS
    FanoutIsDurable
    MessageFollowsLog
    ReplayComplete
PROPERTIES
    ImplementsService
    RestartRecovers
    BacklogDrains
    FanoutCompletes
CHECK_DEADLOCK FALSE
