SPECIFICATION Spec
CONSTANTS
    Keys = 2
    Oid = {a}
    NoOid = NoOid
    Cap = 1
    Until = {0}
    Ops = {"bind", "put", "unbind"}
    MaxRev = 2
    MaxNow = 0
    MaxLog = 3
INVARIANTS ViewExactWithRoom CoveredExact
