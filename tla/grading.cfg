SPECIFICATION FairSpec
CONSTANTS
    None = None
    w1 = w1
    g1 = g1
    NumStages = 1
    Wholes = {w1}
    Graders = {g1}
    AiEnabled = TRUE
    MaxFaults = 1
INVARIANT PenalisedOnce
INVARIANT RemindedOnce
INVARIANT TokensBacked
PROPERTY AiQueueDrains
PROPERTY EverySubmissionAnswered
CHECK_DEADLOCK FALSE
