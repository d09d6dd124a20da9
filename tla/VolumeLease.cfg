SPECIFICATION Spec
CONSTANTS
    Volume = {v1, v2, v3}
    Holder = {h1, h2}
    NoVolume = NoVolume
    NoHolder = NoHolder
    Slots = 2
    TtlMax = 3
    Root = {r1}
    NoRoot = NoRoot
    Body = {b1}
    NoBody = NoBody
    GcSlots = 1
    MaxNow = 4
    MaxFence = 3
    MaxRev = 2
SYMMETRY Symmetry
CONSTRAINT Explored
INVARIANTS TypeOK FenceUnique RotationExact
PROPERTIES CommitFenced FlushGuarded StampOrder
