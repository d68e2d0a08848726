SPECIFICATION FairSpec
CONSTANTS
    TopUps = {t1}
    Subs = {s1, s2}
    MaxHooks = 2
    Spenders = {p1, p2}
    TokenAmount = 2
    Cost = 2
    Months = 1
    MaxNow = 3
    MaxCredits = 2
    MaxEarned = 1
    MaxRestarts = 1
INVARIANT CreditedOnce
INVARIANT BalanceExplained
INVARIANT NeverOverdrawn
INVARIANT NoMonthLost
PROPERTY PaidIsCredited
CHECK_DEADLOCK FALSE
