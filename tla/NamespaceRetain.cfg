SPECIFICATION Spec
CONSTANTS
    Keys = 1
    Oid = {a, b}
    NoOid = NoOid
    Cap = 1
    Until = {0, 1}
    Ops = {"put", "unbind", "retain"}
    MaxRev = 2
    MaxNow = 2
    MaxLog = 2
SYMMETRY Symmetry
INVARIANTS ViewExact
PROPERTIES RetentionKept
