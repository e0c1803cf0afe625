CONSTANTS
    ip1 = ip1
    ip2 = ip2
    ip3 = ip3
    none = none
    admin = admin
    guest = guest
    IPs <- ThreeIPs
    NoIP = none
    Whitelist <- ThirdIP
    OperatorEntries <- OneIP
    AlertKinds <- MixedKinds
    MinSeverity = 3
    AlertSources <- DetectorOnly
    Users <- AdminAndGuest
    AllowedUsers <- Admin
    MaxActions = 1
    Faults = TRUE
    MaxAlerts = 2
    MaxClicks = 1
    MaxCrashes = 1
SPECIFICATION FairSpec
INVARIANTS
    TypeOK
    UniquePending
    OneActionPerAlert
    ResolvedByAllowedUser
    OperatorEntriesKept
    WhitelistNeverBlocked
PROPERTIES
    NoActionWhilePaused
    EveryActionIsResolved
    NewAlertIsAhead
CHECK_DEADLOCK FALSE
