SPECIFICATION Spec
CONSTANTS
    Digest = {a, k}
    Keyed = {k}
    Wid = {w}
    Slots = 1
    Chunks = 2
    Providers = {{"rename", "fsync_name"}, {"fsync_name"}, {}}
    Faults = {"bytes", "rename"}
INVARIANTS WholeByRename RetiredGone TempKept
PROPERTIES RequestDecided
