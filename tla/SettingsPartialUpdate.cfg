SPECIFICATION ConfigSpec
CONSTANTS
    Host = {h1}
    Request = {r1, r2}
    Settings = {s1}
    Template = {}
    Provider = {}
    Client = {}
    Field = {own, f1, f2}
    Section = {{own}, {f1, f2}}
    Tokens = {own}
    Own = own
    Default = default
    NoDoc = nodoc
    Miss = miss
INVARIANTS
    OnlyProvidedFieldsChange
CHECK_DEADLOCK FALSE
