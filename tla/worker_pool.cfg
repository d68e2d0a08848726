SPECIFICATION FairSpec
CONSTANTS
    None = None
    Jobs = {j1, j2, j3}
    Size = 2
    MAX_RESTARTS = 1
INVARIANT WaitingInOnePlace
INVARIANT QueuedOnlyWhenBusy
PROPERTY FollowsService
PROPERTY MixUpOnlyWhenDying
PROPERTY EveryCallSettles
CHECK_DEADLOCK FALSE
