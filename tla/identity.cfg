SPECIFICATION Spec
CONSTANTS
    None = None
    Talents = {a, b}
    Uploads <- MCUploads
    Alike <- MCAlike
    Jobs = {j1, j2}
    Enforcing = TRUE
    MaxAttempts = 3
    MaxRestarts = 1
SYMMETRY Symmetry
INVARIANT OneFaceOneAccount
INVARIANT DoubtDecidedByAdmin
INVARIANT PendingIsLookedAt
CHECK_DEADLOCK FALSE
