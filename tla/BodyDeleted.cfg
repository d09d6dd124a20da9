SPECIFICATION Spec
CONSTANTS
    Digest = {a, k}
    Keyed = {k}
    Wid = {w}
    Slots = 1
    Chunks = 2
    Providers = {{"rename"}}
    Faults = {}
INVARIANT AckedStored
