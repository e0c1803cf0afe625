---------------------------- MODULE Deliveries ----------------------------
(***************************************************************************)
(* Services that pass on what they take in: alerts to the clients of the   *)
(* stream and to the SIEM, requests to their handlers, packets, asset      *)
(* counters, the flows of drift windows, alerts to the triage agent.       *)
(***************************************************************************)
EXTENDS Integers, Sequences, FiniteSets

CONSTANTS
    Sockets, Nobody, MaxClients, MaxMessages,   \* WebSocketHub
    Addresses, Users, FirstAdmin, Quota, QuotaWindow, TokenLife, GateMaxTime, MaxTokens,   \* ApiGate
    PktWorkers, PktQueueSize, MaxArrivals, NoPkt,   \* PacketProcessor
    Lan, Wan, Ports, IotPorts, MaxHosts, SetCap, MinFlows, MaxObserved,   \* AssetInventory
    Runners, Kinds, NamedLists, Outputs, MinSeverity, BatchSize, MinConfidence, Budget, MaxCall, Lookback, Day, MaxSummary, MaxFact, MaxEvidence, MaxAlerts, MaxAnnotations, TriageMaxTime,   \* TriageRunner
    DriftWorkers, Vectors, TrainMean, TrainStd, WindowFlows, DriftMinFlows, FeatureZ, WarnPercent, CritPercent, MaxWindows,   \* DriftMonitor
    Forwarded, Severities, PollLimit, MaxForwardable, MaxCrashes   \* SiemForwarder

VARIABLES
    mode, holder, waiters, conn, cred, clients, called, skipped, todo, failed, got, raced,
    clock, apiHits, passed, users, held, tokens, served,
    arrived, pktQueue, dropped, worker, hand, handled, capStop, procStop, sniffing, joined, outlived, mainPc, extra,
    hosts, profiles, flush, drained, snap, observed, lost, flows, dbReady, assetStop, clashed,
    triageTime, alerts, annotations, agent, explicit,
    loaded, baseline, window, lastClosed, lastLevel, observing, closed, notified, counted, overtaken, answer,
    alertSev, committed, batch, polled, lastId, saved, syslog, sentSince, excused, crashes

Hub == INSTANCE WebSocketHub
Gate == INSTANCE ApiGate
Capture == INSTANCE PacketProcessor
Assets == INSTANCE AssetInventory
Triage == INSTANCE TriageRunner
Drift == INSTANCE DriftMonitor
Siem == INSTANCE SiemForwarder

(* What the comments at the constants say; connections and pools of threads are finite, *)
(* and a connection is not a broadcast, which is its number.                            *)
ASSUME HubAssumption ==
    /\ IsFiniteSet(Sockets) /\ Sockets \cap Nat = {} /\ Nobody \notin Sockets \cup Nat
    /\ MaxClients \in Nat /\ MaxMessages \in Nat
ASSUME GateAssumption == TokenLife \in Nat
ASSUME CaptureAssumption == IsFiniteSet(PktWorkers) /\ PktQueueSize \in Nat /\ NoPkt \notin Nat
ASSUME AssetAssumption == Lan \cup Wan \cup Ports \subseteq Nat /\ SetCap \in Nat
ASSUME TriageAssumption ==
    /\ IsFiniteSet(Runners) /\ Runners # {} /\ NamedLists \subseteq Seq(Nat) /\ MinConfidence \in Nat
    /\ Kinds \subseteq [severity : STRING, whitelisted : BOOLEAN]
ASSUME DriftAssumption == WindowFlows \in Nat \ {0}   \* 5000 unless it is set

=============================================================================
