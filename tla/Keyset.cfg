\* Creation, reloads, rotations and pruning by two processes, one of them killed.
SPECIFICATION FairKeysetSpec
CONSTANTS
    Proc = {p1, p2}
    MaxKeys = 4
    MaxCrashes = 1
INVARIANTS
    LockExcludes
    TokensStayValid
    ActiveKeyPresent
PROPERTIES
    DueKeyIsReplaced
    StaleMemoryHeals
CHECK_DEADLOCK FALSE
