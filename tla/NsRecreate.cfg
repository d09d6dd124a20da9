SPECIFICATION Spec
CONSTANTS
    Keys = 1
    Oid = {a, b}
    NoOid = NoOid
    Cap = 1
    Until = {0}
    Ops = {"commit", "delete"}
    MaxRev = 2
    MaxNow = 0
    MaxLog = 3
SYMMETRY Symmetry
INVARIANTS ViewExact
