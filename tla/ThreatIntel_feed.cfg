CONSTANTS
    Lookers = {one, other}
    Refreshers = {bg1}
    NoThread = noThread
    Indicators = {1, 2}
    Configured = {"abuse", "misp"}
    RefreshPeriod = 1
    IntelMaxTime = 4
SPECIFICATION Spec
INVARIANT FeedFailureKeepsData
CHECK_DEADLOCK FALSE
