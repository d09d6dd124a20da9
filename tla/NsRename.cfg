SPECIFICATION Spec
CONSTANTS
    Keys = 2
    Oid = {a}
    NoOid = NoOid
    Cap = 2
    Until = {0}
    Ops = {"put", "rename"}
    MaxRev = 2
    MaxNow = 0
    MaxLog = 3
INVARIANTS ViewExact
