CONSTANTS
    Keys <- Conversation
    Rev <- RevConversation
    Src <- Host
    Workers <- OneWorker
    MaxActive = 2
    Timeout = 1
    Evidence <- PayloadBothWays
    MaxTime = 4
    MaxPackets = 3
SPECIFICATION Spec
INVARIANTS
    EvidenceOfOwnFlow
CHECK_DEADLOCK FALSE
