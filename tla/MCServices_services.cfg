CONSTANTS
    one = one
    other = other
    bg1 = bg1
    bg2 = bg2
    key1 = key1
    key2 = key2
    noKey = noKey
    \* WebSocketHub
    Sockets = {one, other}
    Nobody = nobody
    MaxClients = 1
    MaxMessages = 2
    \* ApiGate
    Addresses = {addr}
    Users = {"root", "eve"}
    FirstAdmin = "root"
    Quota = 2
    QuotaWindow = 2
    TokenLife = 2
    GateMaxTime = 3
    MaxTokens = 2
    \* PacketProcessor
    PktWorkers = {one, other}
    PktQueueSize = 2
    MaxArrivals = 4
    NoPkt = noPkt
    \* AssetInventory
    Lan = {1, 2}
    Wan = {9}
    Ports = {80}
    IotPorts = {80}
    MaxHosts = 1
    SetCap = 1
    MinFlows = 2
    MaxObserved = 3
    \* ThreatIntel
    Lookers = {one, other}
    Refreshers = {bg1, bg2}
    NoThread = noThread
    Indicators = {1, 2}
    Configured = {"abuse", "ja3", "misp"}
    RefreshPeriod = 1
    IntelMaxTime = 4
    \* LogRuleEngine
    LogRules <- MCLogRules
    LogEvents <- MCLogEvents
    NoKey = noKey
    Trusted = {key2}
    MaxWindowEvents = 2
    MaxKeysPerRule = 1
    LogMaxTime = 4
    MaxLogEvents = 5
    \* AlertsApi
    Analysts = {one, other}
    Readers = {rd}
    NewAlerts <- MCNewAlerts
    Bodies <- MCBodies
    Walks <- MCWalks
    MaxPage = 2
    ScanLimit = 2
    BucketWidth = 2
    StoreMaxTime = 1
    MaxStored = 2
    MaxIncidents = 1
    MaxEdits = 2
    \* TriageRunner
    Runners = {one, other}
    Kinds <- MCKinds
    Outputs <- MCOutputs
    NamedLists <- MCNamedLists
    MinSeverity = "medium"
    BatchSize = 2
    MinConfidence = 60
    Budget = 1
    MaxCall = 1
    Lookback = 0
    Day = 0
    MaxSummary = 1200
    MaxFact = 300
    MaxEvidence = 8
    MaxAlerts = 1
    MaxAnnotations = 2
    TriageMaxTime = 1
    \* ModelLoading
    Sites <- MCSites
    ClassScores <- MCClassScores
    Benign = "Benign"
    RfThreshold = 90
    FtThreshold = 50
    \* BaselineModels
    Reloaders = {"trainer1", "trainer2"}
    Scorers = {"scorer1", "scorer2"}
    Loadable = {1, 3}
    MaxVersions = 3
    \* HostBuffers
    ModelHosts = {"h1", "h2", "h3"}
    SeqLen = 2
    MaxBuffers = 2
    TrainPercent = 60
    MaxVectors = 7
    \* DriftMonitor
    DriftWorkers = {one, other}
    Vectors <- MCVectors
    TrainMean <- MCTrainMean
    TrainStd <- MCTrainStd
    WindowFlows = 2
    DriftMinFlows = 1
    FeatureZ = 1
    WarnPercent = 50
    CritPercent = 100
    MaxWindows = 3
    \* FlowFeatures
    FlowPackets <- MCFlowPackets
    Gaps <- MCGaps
    IdleThreshold = 2
    MaxSamples = 2
    MaxFlowPackets = 4
    \* HostFeatures
    SourceIps = {"s1", "s2"}
    HostPackets <- MCHostPackets
    NoPort = 0
    CommonPorts = {80}
    HostWindow = 2
    MaxTracked = 1
    BurstSpan = 1
    HostMaxTime = 2
    MaxHostPackets = 4
    \* PacketInspection
    Hellos <- MCHellos
    Grease = {100}
    Payloads <- MCPayloads
    EncryptedLen = 256
    EncryptedEntropy = 7
    MaxPayloads = 1
    MaxInspected = 2
    \* SiemForwarder
    Forwarded = "medium"
    Severities = {"medium", "high"}
    PollLimit = 2
    MaxForwardable = 3
    MaxCrashes = 1
    \* ScrubbedText
    AlertTexts <- MCAlertTexts
    AskedTexts <- MCAskedTexts
    IpForms <- MCIpForms
    HashForms <- MCHashForms
    Canonical <- MCCanonical
    TextBounds <- MCTextBounds
    \* BaselineScrape
    ScrapeHosts = {1}
    ScrapePorts = {80, 443}
    FireAt <- MCFireAt
    HardCap = 3
    PortBits <- MCPortBits
    DriftVectors = 1
    DriftWarn = 30
    DriftCrit = 60
    MaxSeen = 4
    ScrapeMaxTime = 1
    \* DnsLog
    DnsWorkers = {one, other}
    DnsClients = {"c1", "c2", "c3"}
    MaxIps = 2
    MaxPerIp = 2
    MaxQueries = 4
    \* OutboundTrust
    FlowThreads = {one, other}
    Destinations = {"d1"}
    DnsTtl = 2
    DnsTimeout = 1
    MaxHung = 2
    DnsMaxTime = 4
    \* BaselineBench
    Windows <- MCWindows
    NotFinite = 9
    Attacks <- MCAttacks
    BenchSeqLen = 2
    BenchTrainPercent = 50
    FlagRatio = 2
    PointScore <- MCPointScore
    KeepFiles = 2
    MaxDumps = 3
SPECIFICATION Spec
SYMMETRY Alike
CHECK_DEADLOCK FALSE
INVARIANTS
    NothingLostOrDoubled
    MemoryMatchesHistory
    OnlyRacesBreakLimits
    OnlyWhatIsAdmitted
    ReadersSeeOneState
    RefreshKeepsIndicators
PROPERTY StateMovesForward
