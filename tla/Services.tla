------------------------------ MODULE Services ------------------------------
(***************************************************************************)
(* The services around the detection core, composed: they share no state,  *)
(* so a behaviour runs one of them, chosen in Init.  The properties are    *)
(* those of the modules, gathered by what they promise; each is stated of  *)
(* the behaviours that run its service, since the others never move.       *)
(***************************************************************************)
EXTENDS Deliveries, Stores, TLC

CONSTANTS
    LogRules, LogEvents, NoKey, Trusted, MaxWindowEvents, MaxKeysPerRule, LogMaxTime, MaxLogEvents,   \* LogRuleEngine
    FlowPackets, Gaps, IdleThreshold, MaxSamples, MaxFlowPackets,   \* FlowFeatures
    SourceIps, HostPackets, NoPort, CommonPorts, HostWindow, MaxTracked, BurstSpan, HostMaxTime, MaxHostPackets,   \* HostFeatures
    DnsWorkers, DnsClients, MaxIps, MaxPerIp, MaxQueries,   \* DnsLog
    Windows, NotFinite, Attacks, BenchSeqLen, BenchTrainPercent, FlagRatio, PointScore, KeepFiles, MaxDumps   \* BaselineBench

VARIABLES
    service,  \* the one that runs
    logTime, logHits, slotOrder, lastAlert, fed, fired, evicted,
    flowRec, seenPkts,
    hostClock, tracked, heard, vector,
    dnsLog, lists, queries, doing, aborted, crowded,
    files, windows, wrote, stuck, bench, report

Logs == INSTANCE LogRuleEngine
Flow == INSTANCE FlowFeatures
Host == INSTANCE HostFeatures
Dns == INSTANCE DnsLog
Bench == INSTANCE BaselineBench

Services == {"hub", "gate", "capture", "assets", "intel", "logs", "store", "triage", "models", "baseline", "buffers", "drift", "flow", "host",
             "inspect", "siem", "texts", "scrape", "dns", "trust", "bench"}

(* What a service that does not run starts with is chosen for it. *)
Init ==
    /\ service \in Services
    /\ Models!Init /\ (service # "models" => site = CHOOSE x \in Sites : TRUE)
    /\ Drift!Init /\ (service # "drift" => loaded)
    /\ Hub!Init /\ (service \notin {"hub", "gate"} => mode.jwt /\ mode.key)
    /\ Gate!Init /\ Capture!Init /\ Assets!Init /\ Intel!Init /\ Logs!Init /\ Store!Init
    /\ Triage!Init /\ Baseline!Init /\ Buffers!Init /\ Flow!Init /\ Host!Init
    /\ Inspection!Init /\ Siem!Init /\ Scrape!Init /\ Dns!Init /\ Bench!Init
    /\ IF service = "texts" THEN Texts!Init
       ELSE texts = [f \in Texts!Fields |-> Texts!Absent] /\ shown = Texts!Nothing /\ asked = Texts!Nothing
    /\ Trust!Init /\ (service # "trust" => \A d \in Destinations : names[d])

Unchanged(s) ==
    /\ UNCHANGED service
    /\ IF s = "hub" THEN TRUE ELSE UNCHANGED <<holder, waiters, conn, cred, clients, called, skipped, todo, failed, got, raced>>
    /\ IF s = "gate" THEN TRUE ELSE UNCHANGED <<clock, apiHits, passed, users, held, tokens, served>>
    /\ IF s \in {"hub", "gate"} THEN TRUE ELSE UNCHANGED mode
    /\ IF s = "capture" THEN TRUE ELSE UNCHANGED <<arrived, pktQueue, dropped, worker, hand, handled, capStop, procStop, sniffing, joined, outlived, mainPc, extra>>
    /\ IF s = "assets" THEN TRUE ELSE UNCHANGED <<hosts, profiles, flush, drained, snap, observed, lost, flows, dbReady, assetStop, clashed>>
    /\ IF s = "intel" THEN TRUE ELSE UNCHANGED <<day, store, looker, intelLock, storeLock, stage, badIps, badJa3, badDomains, lastRefresh, abuse, added, misp, leaked>>
    /\ IF s = "logs" THEN TRUE ELSE UNCHANGED <<logTime, logHits, slotOrder, lastAlert, fed, fired, evicted>>
    /\ IF s = "store" THEN TRUE ELSE UNCHANGED <<storeTime, rows, incidents, edit, edits, walk, racedOn>>
    /\ IF s = "triage" THEN TRUE ELSE UNCHANGED <<triageTime, alerts, annotations, agent, explicit>>
    /\ IF s = "models" THEN TRUE ELSE UNCHANGED <<site, process, engines, verdict>>
    /\ IF s = "baseline" THEN TRUE ELSE UNCHANGED <<published, quartet, swapping, reloading, reload, scoring, active>>
    /\ IF s = "buffers" THEN TRUE ELSE UNCHANGED <<buffers, bufOrder, hostRows, since, training>>
    /\ IF s = "drift" THEN TRUE ELSE UNCHANGED <<loaded, baseline, window, lastClosed, lastLevel, observing, closed, notified, counted, overtaken, answer>>
    /\ IF s = "flow" THEN TRUE ELSE UNCHANGED <<flowRec, seenPkts>>
    /\ IF s = "host" THEN TRUE ELSE UNCHANGED <<hostClock, tracked, heard, vector>>
    /\ IF s = "inspect" THEN TRUE ELSE UNCHANGED <<ja3, hits, samples, hello, inspected>>
    /\ IF s = "siem" THEN TRUE ELSE UNCHANGED <<alertSev, committed, batch, polled, lastId, saved, syslog, sentSince, excused, crashes>>
    /\ IF s = "texts" THEN TRUE ELSE UNCHANGED <<texts, shown, asked>>
    /\ IF s = "scrape" THEN TRUE ELSE UNCHANGED <<wall, filling, trainStage, trainee, lostFlows, leftover, trained, windowsTotal, reader, gauges, seenFlows>>
    /\ IF s = "dns" THEN TRUE ELSE UNCHANGED <<dnsLog, lists, queries, doing, aborted, crowded>>
    /\ IF s = "trust" THEN TRUE ELSE UNCHANGED <<dnsTime, names, dnsCache, asking, hung, trustedAt, otherAt, flowVerdict>>
    /\ IF s = "bench" THEN TRUE ELSE UNCHANGED <<files, windows, wrote, stuck, bench, report>>

HubStep == service = "hub" /\ Hub!Next /\ Unchanged("hub")
GateStep == service = "gate" /\ Gate!Next /\ Unchanged("gate")
CaptureStep == service = "capture" /\ Capture!Next /\ Unchanged("capture")
AssetsStep == service = "assets" /\ Assets!Next /\ Unchanged("assets")
IntelStep == service = "intel" /\ Intel!Next /\ Unchanged("intel")
LogsStep == service = "logs" /\ Logs!Next /\ Unchanged("logs")
StoreStep == service = "store" /\ Store!Next /\ Unchanged("store")
TriageStep == service = "triage" /\ Triage!Next /\ Unchanged("triage")
ModelsStep == service = "models" /\ Models!Next /\ Unchanged("models")
BaselineStep == service = "baseline" /\ Baseline!Next /\ Unchanged("baseline")
BuffersStep == service = "buffers" /\ Buffers!Next /\ Unchanged("buffers")
DriftStep == service = "drift" /\ Drift!Next /\ Unchanged("drift")
FlowStep == service = "flow" /\ Flow!Next /\ Unchanged("flow")
HostStep == service = "host" /\ Host!Next /\ Unchanged("host")
InspectionStep == service = "inspect" /\ Inspection!Next /\ Unchanged("inspect")
SiemStep == service = "siem" /\ Siem!Next /\ Unchanged("siem")
TextsStep == service = "texts" /\ Texts!Next /\ Unchanged("texts")
ScrapeStep == service = "scrape" /\ Scrape!Next /\ Unchanged("scrape")
DnsStep == service = "dns" /\ Dns!Next /\ Unchanged("dns")
TrustStep == service = "trust" /\ Trust!Next /\ Unchanged("trust")
BenchStep == service = "bench" /\ Bench!Next /\ Unchanged("bench")

Next ==
    \/ HubStep \/ GateStep \/ CaptureStep \/ AssetsStep \/ IntelStep
    \/ LogsStep \/ StoreStep \/ TriageStep \/ ModelsStep \/ BaselineStep
    \/ BuffersStep \/ DriftStep \/ FlowStep \/ HostStep
    \/ InspectionStep \/ SiemStep \/ TextsStep \/ ScrapeStep \/ DnsStep \/ TrustStep \/ BenchStep

Spec == Init /\ [][Next]_<<service, Hub!hubVars, Gate!gateVars, Capture!procVars, Assets!assetVars, Intel!intelVars, Logs!logVars, Store!storeVars, Triage!triageVars, Models!modelVars, Baseline!baseVars, Buffers!bufferVars, Drift!driftVars, Flow!flowVars, Host!hostVars,
    Inspection!inspectVars, Siem!forwardVars, Texts!textVars, Scrape!scrapeVars, Dns!dnsVars, Trust!trustVars, Bench!benchVars>>

-----------------------------------------------------------------------------

(***************************************************************************)
(* What enters a service is accounted for until it leaves: the alerts of   *)
(* the WebSocket stream, captured packets and the shutdown of their        *)
(* workers, asset counters through flushes that fail, flows of the drift   *)
(* windows, alerts on their way to the SIEM.                               *)
(***************************************************************************)
NothingLostOrDoubled ==
    /\ service = "hub" => Hub!StreamIsGapless
    /\ service = "capture" => Capture!PacketsAddUp /\ Capture!StopIsPrompt
    /\ service = "assets" => Assets!CountsAddUp
    /\ service = "drift" => Drift!WindowsAreTumbling
    /\ service = "siem" => Siem!ForwardedOnce

(***************************************************************************)
(* What a service remembers in bounded memory, or works out when it is     *)
(* asked, answers like the whole history would: the rate limiter, log      *)
(* rules, flow and host features, the sequence buffers of the LSTM, the    *)
(* dumps of training windows and what the bench makes of them, the         *)
(* fingerprint of a flow, names of destinations, the log of DNS queries,   *)
(* what a run of triage knows was spent in a day, the statistics and       *)
(* exports of the stored alerts, and the stored texts as a language model  *)
(* is shown them, neutral where they pass a scrubber.                      *)
(***************************************************************************)
MemoryMatchesHistory ==
    /\ service = "gate" => Gate!QuotaHolds
    /\ service = "logs" => Logs!LogAlertsMatchHistory
    /\ service = "buffers" => Buffers!BuffersAreSequences
    /\ service = "flow" => Flow!FlowFeaturesMatchPackets
    /\ service = "host" => Host!HostFeaturesMatchPackets
    /\ service = "inspect" => Inspection!FingerprintOfHello
    /\ service = "trust" => Trust!TrustIsRecent
    /\ service = "bench" => Bench!DumpsAreNewest /\ Bench!EvaluatedAsServed
    /\ service = "dns" => Dns!LoggedUnlessCrowded
    /\ service = "triage" => Triage!SpendIsBounded
    /\ service = "store" => Store!ReadersAgree
    /\ service = "texts" => Texts!ShownTextIsNeutral

(***************************************************************************)
(* What is checked in one step and used in another.  Clients admitted one  *)
(* at a time never exceed the stream's limit; an alert nobody named is     *)
(* annotated again only by a run that had begun before the annotation it   *)
(* has; and the windows that are notified are those that are worse than    *)
(* the one before, or, when workers overtook each other, as bad as any.    *)
(***************************************************************************)
OnlyRacesBreakLimits ==
    /\ service = "hub" => Hub!LimitExceededOnlyByRace
    /\ service = "triage" => Triage!AnnotatedOnce
    /\ service = "drift" => Drift!WorseIsNotified

(***************************************************************************)
(* No interleaving of writers sets a status, a model version or a full     *)
(* buffer back, with one exception each property names.                    *)
(***************************************************************************)
StateMovesForward == Store!IncidentsMoveForward /\ Baseline!VersionsMoveForward /\ Buffers!FullBuffersStay

(***************************************************************************)
(* Whatever the order of requests, reloads and expiries: handlers, the     *)
(* stream, the advice of triage and the unpickling of models are reached   *)
(* only by what the deployment admits.                                     *)
(***************************************************************************)
OnlyWhatIsAdmitted ==
    /\ service = "gate" => Gate!ServedIsAllowed
    /\ service = "hub" => Hub!StreamIsAuthorized
    /\ service = "triage" => Triage!AdviceIsGuarded
    /\ service = "models" => Models!OnlyListedPickles

(***************************************************************************)
(* Readers that go through several steps, or several readers of one state, *)
(* see it whole: pages of alerts, label and score of a flow, the four      *)
(* artifacts of the baseline, the payloads of a flow, answers about a      *)
(* host, the progress and the drift of the baseline.                       *)
(***************************************************************************)
ReadersSeeOneState ==
    /\ service = "store" => Store!WalksMissNothing
    /\ service = "models" => Models!ScoreFollowsLabel
    /\ service = "baseline" => Baseline!ScoresUseOneVersion
    /\ service = "inspect" => Inspection!ReadersOfPayloadsAgree
    /\ service = "texts" => Texts!NoFalseAllClear
    /\ service = "scrape" => Scrape!ProgressIsTrue /\ Scrape!DriftIsOfEarlierWindow

(* One thread refreshes the threat intelligence at a time, and the addresses *)
(* looked up are those AbuseIPDB last listed and those MISP listed since.    *)
RefreshKeepsIndicators == service = "intel" => Intel!RefreshKeepsIndicators
=============================================================================
