CONSTANTS
    NBlocks = 5
    Per = 2
    LeafWidth = 2
    Vals = {0, 1, 2}
    Slots = 5
    LeafSlots = 1
    WantSlots = 2
    Depth = 2
    Configs <- RefusedConfigs
SPECIFICATION Spec
CHECK_DEADLOCK FALSE
INVARIANT ClosedForCause
