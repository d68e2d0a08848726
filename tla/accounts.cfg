SPECIFICATION Spec
CONSTANTS
    Reqs = {r1, r2}
    CacheTTL = 2
    LinkTTL = 1
    CodeTTL = 1
    MaxReqs = 4
    MaxNow = 4
INVARIANT BanBites
INVARIANT LinksAreSingle
INVARIANT InviteUsedOnce
INVARIANT RefusedHasNoAccess
CHECK_DEADLOCK FALSE
