CONSTANTS
    k1 = k1
    k2 = k2
    r1 = r1
    r2 = r2
    Keys <- OneKey
    Rules <- TwoRules
    Covers <- CoversSecond
    Lifetimes <- ShortAndLong
    Callers <- FlusherOnly
    Writers <- OneWriter
    QueueMax = 1
    DedupWindow = 2
    CleanupEvery = 2
    SuppressTTL = 2
    JoinTimeout = 2
    Faults = TRUE
    StartTime = 4
    MaxTime = 7
    MaxFlows = 3
SPECIFICATION Spec
PROPERTIES
    ImplementsSink
    OnlyRepeatsDropped
    RuleTakesEffect
    SuppressionIsFresh
CHECK_DEADLOCK FALSE
