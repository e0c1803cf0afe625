CONSTANTS
    Keys <- TwoFlows
    Rev <- RevTwoFlows
    Src <- Host
    Workers <- OneWorker
    MaxActive = 2
    Timeout = 1
    Evidence <- PayloadInFirst
    MaxTime = 3
    MaxPackets = 4
SPECIFICATION FairSpec
INVARIANTS
    EvidenceOfSameTuple
CHECK_DEADLOCK FALSE
PROPERTIES
    CollectedIsScored
    FlowsExpire
