SPECIFICATION Spec
CONSTANTS
    None = None
    w1 = w1
    g1 = g1
    NumStages = 2
    Wholes = {}
    Graders = {g1}
    AiEnabled = FALSE
    MaxFaults = 0
INVARIANT RewardedOnce
CHECK_DEADLOCK FALSE
