CONSTANTS
    Keys <- FourTuples
    Rev <- RevFourTuples
    Src <- Host
    Workers <- TwoWorkers
    MaxActive = 2
    Timeout = 1
    Evidence <- Ja3InLast
    MaxTime = 3
    MaxPackets = 3
SPECIFICATION Spec
INVARIANTS
    OneFlowPerConversation
    HeapMatchesFlows
    NoFlowTwice
PROPERTIES
    ExpiredAreCollected
CHECK_DEADLOCK FALSE
