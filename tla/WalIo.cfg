SPECIFICATION Spec
CONSTANTS
    MaxRec = 4
    TornTails = TRUE
INVARIANTS AckedReplayable ReplayExact RefusedUnfenced
PROPERTIES StepsReturn
