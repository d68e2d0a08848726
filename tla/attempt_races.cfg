SPECIFICATION FairSpec
CONSTANTS
    None = None
    tab2 = tab2
    tab1 = tab1
    owner = owner
    cron = cron
    Jobs = {tab1, owner, cron}
    CanDo <- Everybody
    timeLimit = 1
    closesAt = None
    CLOCK_SKEW = 0
    Scores = {40}
    MaxNow = 2
INVARIANT EntryWasPromised
PROPERTY ScoreNeverLost
PROPERTY OverdueIsClosed
