SPECIFICATION Spec
CONSTANTS
    Names <- MCNames
    Key <- MCKey
    Reqs = {r1, r2}
    CacheTTL = 1
    MaxReqs = 4
    MaxNow = 5
SYMMETRY Symmetry
INVARIANT MissingIsYoung
INVARIANT TwinsOnlyByOverlap
CHECK_DEADLOCK FALSE
