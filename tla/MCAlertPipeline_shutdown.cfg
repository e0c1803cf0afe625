CONSTANTS
    k1 = k1
    k2 = k2
    r1 = r1
    r2 = r2
    Keys <- OneKey
    Rules <- OneRule
    Covers <- CoversOther
    Lifetimes <- LongOnly
    Callers <- BothCallers
    Writers <- TwoWriters
    QueueMax = 1
    DedupWindow = 0
    CleanupEvery = 3
    SuppressTTL = 1
    JoinTimeout = 1
    Faults = TRUE
    StartTime = 4
    MaxTime = 5
    MaxFlows = 2
SPECIFICATION FairSpec

    
CHECK_DEADLOCK FALSE
PROPERTIES
    EveryAlertIsDecided
