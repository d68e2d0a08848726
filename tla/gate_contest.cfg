SPECIFICATION FairSpec
CONSTANTS
    None = None
    c1 = c1
    c2 = c2
    Candidates = {c1, c2}
    NumStages = 2
    Weight <- Weights2
    Kind <- KindsMixed2
    startsAt = None
    deadlineAt = None
    MaxNow = 1
    CLOCK_SKEW = 1
    BATCH_SIZE = 1
    Scores = {40, 80}
    GateChoices <- NoEdits
    InitialGates <- ContestGates
    AiEnabled = FALSE
PROPERTY QuotaRankRespected
PROPERTY NobodyWaitsForever
