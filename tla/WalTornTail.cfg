SPECIFICATION Spec
CONSTANTS
    MaxRec = 2
    TornTails = TRUE
INVARIANTS NoneBehind
