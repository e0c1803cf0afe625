CONSTANTS
    ip1 = ip1
    ip2 = ip2
    ip3 = ip3
    none = none
    admin = admin
    guest = guest
    IPs <- TwoIPs
    NoIP = none
    Whitelist <- Nobody
    OperatorEntries <- Nobody
    AlertKinds <- Critical
    MinSeverity = 3
    AlertSources <- DetectorOnly
    Users <- Admin
    AllowedUsers <- Admin
    MaxActions = 2
    Faults = FALSE
    MaxAlerts = 2
    MaxClicks = 1
    MaxCrashes = 0
SPECIFICATION Spec
PROPERTIES
    ResolvedIsFinal
CHECK_DEADLOCK FALSE
