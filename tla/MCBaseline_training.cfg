CONSTANTS
    h1 = h1
    h2 = h2
    Callers <- TwoCallers
    Hosts <- TwoHosts
    HardCap = 2
    MinVectors = 1
    MinHosts = 1
    Thresholds <- NearAndFar
    MaxRatio = 3
    RefWindows = 2
    MaxRejects = 1
    Faults = TRUE
    MaxSamples = 5
    MaxRestarts = 1
SPECIFICATION FairSpec
INVARIANTS
    TypeOK
    OneTraining
    NoSampleTwice
    DroppedAreReported
    ServedIsAccepted
    GateVerdicts
PROPERTIES
    CollectionResumes
CHECK_DEADLOCK FALSE
