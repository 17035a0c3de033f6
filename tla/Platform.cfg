SPECIFICATION PlatformSpec
CONSTANTS
    Logger = {w1, w2}
    Entry = {e1, e2}
    BufferSize = 2
    RetryCap = 1
    ReadCount = 2
    StreamCap = 1
    MaxFaults = 2
    Host = {h1}
    Request = {r1, r2, r3}
    Settings = {s1, s2}
    Template = {p1}
    Provider = {i1}
    Client = {c1}
    Field = {own, f1, f2}
    Section = {{own, f1}, {f2}}
    Tokens = {own, f1}
    Own = own
    Default = default
    NoDoc = nodoc
    Miss = miss
INVARIANTS
    PlatformTypeOK
    NothingVanishes
    OneRowPerEntry
    
    
    ListsCurrent
PROPERTIES
    EntriesArrive
CHECK_DEADLOCK FALSE
