\* Two limiters, two keys, three requests, the cleanup at any point.
SPECIFICATION Spec

CONSTANTS
    g = g
    a = a
    r1 = r1
    r2 = r2
    r3 = r3
    l1 = l1
    l2 = l2
    Keys <- TwoKeys
    Cost <- Costs
    Full <- Fulls
    IdleTime = 4
    MaxStall = 1
    Requests <- ThreeRequests
    Chains <- Routes
    Limiters <- TwoLimiters
    MaxTime = 7
    NoEntry = NoEntry
    NoLimiter = NoLimiter

SYMMETRY Symmetry

INVARIANTS
    TypeOK
    NoMoreThanBurstAndRate
    OneLimiterPerKey

PROPERTIES
    BucketsAreRemembered

CHECK_DEADLOCK FALSE
