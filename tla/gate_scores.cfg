SPECIFICATION Spec
CONSTANTS
    None = None
    c1 = c1
    Candidates = {c1}
    NumStages = 2
    Weight <- Weights2
    Kind <- KindsMixed2
    startsAt = None
    deadlineAt = None
    MaxNow = 4
    CLOCK_SKEW = 1
    BATCH_SIZE = 1
    Scores = {40, 80}
    GateChoices <- Edits
    InitialGates <- ScoreGates
    AiEnabled = TRUE
INVARIANT HandedInConsistent
PROPERTY UnlockWithdrawnOnlyOutsideWindow
PROPERTY GradeThatOpensTells
PROPERTY FollowsLifecycle
