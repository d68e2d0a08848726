SPECIFICATION Spec
CONSTANTS
    None = None
    c1 = c1
    Candidates = {c1}
    NumStages = 3
    Weight <- Weights3
    Kind <- KindsMixed3
    startsAt = None
    deadlineAt = None
    MaxNow = 3
    CLOCK_SKEW = 1
    BATCH_SIZE = 1
    Scores = {40, 80}
    GateChoices <- NoEdits
    InitialGates <- BasisGates
    AiEnabled = FALSE
INVARIANT WalkAgrees
INVARIANT ReadingIsStable
PROPERTY AdmissionJustified
