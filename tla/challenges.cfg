SPECIFICATION Spec
CONSTANTS
    Challenges = {c1, c2}
    Companies = {acme}
    Talents = {tia}
    Limit <- MCLimit
    Start = 2
    Cost = 1
    Reqs = {r1, r2}
    MaxReqs = 3
SYMMETRY Symmetry
INVARIANT QuotaKept
INVARIANT OpenIsSound
INVARIANT TokensAccounted
INVARIANT BankHasNoTwins
CHECK_DEADLOCK FALSE
