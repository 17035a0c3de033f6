\* No fault, no stop: does every worker learn of every revocation?
SPECIFICATION FairSpec
CONSTANTS
    Worker = {w1, w2}
    Jti = {j1}
    Request = {r1}
    BatchSize = 1
    MaxLen = 1
    RedisFaults = FALSE
    MaxStream = 1
    MaxStops = 0
PROPERTIES
    ReachesEveryWorker
CHECK_DEADLOCK FALSE
