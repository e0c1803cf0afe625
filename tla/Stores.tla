---------------------------- MODULE Stores ----------------------------
(***************************************************************************)
(* Services that keep something several writers replace and readers use:   *)
(* indicators, alerts and incidents, models, sequence buffers, payloads of *)
(* a flow, texts of alerts, the state of the baseline, names in a cache.   *)
(***************************************************************************)
EXTENDS Integers, Sequences, FiniteSets

CONSTANTS
    Lookers, Refreshers, NoThread, Indicators, Configured, RefreshPeriod, IntelMaxTime,   \* ThreatIntel
    Analysts, Readers, NewAlerts, Bodies, MaxPage, Walks, ScanLimit, BucketWidth, StoreMaxTime, MaxStored, MaxIncidents, MaxEdits,   \* AlertsApi
    Sites, ClassScores, Benign, RfThreshold, FtThreshold,   \* ModelLoading
    Reloaders, Scorers, Loadable, MaxVersions,   \* BaselineModels
    ModelHosts, SeqLen, MaxBuffers, TrainPercent, MaxVectors,   \* HostBuffers
    Hellos, Grease, Payloads, EncryptedLen, EncryptedEntropy, MaxPayloads, MaxInspected,   \* PacketInspection
    AlertTexts, AskedTexts, IpForms, HashForms, Canonical, TextBounds,   \* ScrubbedText
    ScrapeHosts, ScrapePorts, FireAt, HardCap, PortBits(_), DriftVectors, DriftWarn, DriftCrit, MaxSeen, ScrapeMaxTime,   \* BaselineScrape
    FlowThreads, Destinations, DnsTtl, DnsTimeout, MaxHung, DnsMaxTime   \* OutboundTrust

VARIABLES
    day, store, looker, intelLock, storeLock, stage, badIps, badJa3, badDomains, lastRefresh, abuse, added, misp, leaked,
    storeTime, rows, incidents, edit, edits, walk, racedOn,
    site, process, engines, verdict,
    published, quartet, swapping, reloading, reload, scoring, active,
    buffers, bufOrder, hostRows, since, training,
    ja3, hits, samples, hello, inspected,
    texts, shown, asked,
    wall, filling, trainStage, trainee, lostFlows, leftover, trained, windowsTotal, reader, gauges, seenFlows,
    dnsTime, names, dnsCache, asking, hung, trustedAt, otherAt, flowVerdict

Intel == INSTANCE ThreatIntel
Store == INSTANCE AlertsApi
Models == INSTANCE ModelLoading
Baseline == INSTANCE BaselineModels
Buffers == INSTANCE HostBuffers
Inspection == INSTANCE PacketInspection
Texts == INSTANCE ScrubbedText
Scrape == INSTANCE BaselineScrape
Trust == INSTANCE OutboundTrust

(* No thread has the name that stands for a free lock, and no client of the *)
(* intelligence store is one of its background threads.                     *)
ASSUME IntelAssumption == NoThread \notin Intel!Threads /\ Lookers \cap Refreshers = {}
ASSUME BaselineAssumption == Baseline!NoThreadHere \notin Reloaders
(* A page has 1 to MAX_ROWS alerts, 200 in the code; a client may send any limit. *)
ASSUME WalksAssumption ==
    /\ MaxPage \in Nat \ {0}
    /\ \A ask \in Walks : ask.limit \in Int /\ ask.via \in {"mcp", "rest"}
(* Percentages: thresholds are set in percent, and no two classes share more than 100. *)
ASSUME ModelsAssumption ==
    /\ RfThreshold \in Int /\ FtThreshold \in Int
    /\ \A p \in ClassScores : /\ \A c \in DOMAIN p : p[c] \in 0..100
                              /\ \A c, d \in DOMAIN p : c # d => p[c] + p[d] <= 100
ASSUME BuffersAssumption == SeqLen \in Nat \ {0} /\ MaxBuffers \in Nat \ {0}   \* 5000 addresses unless it is set
(* A window fires on one vector at least and below the cap; the entropy of what it counts is a number. *)
ASSUME ScrapeAssumption ==
    /\ FireAt.vectors \in Nat \ {0} /\ FireAt.ips \in Int /\ FireAt.time \in Int /\ FireAt.entropy \in Int
    /\ HardCap \in Nat \ {0} /\ \A counts \in [ScrapePorts -> 0..HardCap] : PortBits(counts) \in Nat
(* MAX_PAYLOAD_SAMPLES is a number, 50 unless it is set. *)
ASSUME InspectionAssumption == MaxPayloads \in Nat
(* Lifetimes are numbers, 3600 and 2 seconds in the code. *)
ASSUME TrustAssumption == DnsTtl \in Nat \ {0} /\ DnsTimeout \in Nat

=============================================================================
