SPECIFICATION FaultlessSpec
CONSTANTS
    Keys = 2
    Oid = {a}
    NoOid = NoOid
    Cap = 2
    Until = {0}
    Ops = {"bind", "rename", "commit", "delete", "reserve", "provider"}
    MaxRev = 2
    MaxNow = 0
    MaxLog = 2
INVARIANTS ViewExact
VIEW StagedView
PROPERTIES RoomReturns
CHECK_DEADLOCK FALSE
