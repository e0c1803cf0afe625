CONSTANTS
    a = a
    b = b
    dos = dos
    r1 = r1
    q1 = q1
    q2 = q2
    e1 = e1
    e2 = e2
    NoRequest = NoRequest
    BaseWeights <- DefaultWeights
    TypeWeights <- NoOverrides
    BenignLabels <- NoLabels
    SevereTypes <- DosTypes
    CriticalRules <- Critical
    Threshold = 55
    DecayNum = 6
    DecayDen = 10
    IcmpFlood = 50
    SynScan = 20
    LargePayload = 5000
    IPs <- TwoIPs
    Attacks <- OneType
    Allowed <- NoIPs
    Blocked <- NoIPs
    Readings <- OneAlerting
    Mentions <- OwnText
    Rules <- OneRule
    Covers <- CoversA
    Lifetimes <- Lives
    Requests <- TwoRequests
    Analysts <- TwoAnalysts
    DedupWindow = 1
    DecayWindow = 1
    MaxTracked = 1
    CacheTTL = 1
    CorrWindow = 1
    CorrThreshold = 1
    Faults = TRUE
    StartTime = 2
    MaxTime = 3
    MaxRequests = 3
    MaxEdits = 2
SYMMETRY ActorSymmetry
SPECIFICATION Spec
INVARIANTS
    
    OneIncidentUnlessRaced
PROPERTIES
    ImplementsSink
    CacheLagsByTTL
CHECK_DEADLOCK FALSE
