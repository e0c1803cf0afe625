--------------------------- MODULE BaselineScrape ---------------------------
(***************************************************************************)
(* How the baseline is observed: a thread that copies the state of the     *)
(* collector, the trainer and the engine into gauges every few seconds     *)
(* (src/src/api/metrics.py), and GET /api/baseline/status.  Both read them *)
(* one after the other, while windows fill, are trained on and are         *)
(* promoted.                                                               *)
(***************************************************************************)
EXTENDS Integers, FiniteSets, FiniteSetsExt

CONSTANTS
    ScrapeHosts, ScrapePorts,   \* sources and destination ports of flows
    FireAt,       \* CompositeTrigger: vectors, ips, time, entropy (centibits)
    HardCap,      \* HARD_CAP
    PortBits(_),  \* _shannon_entropy_bits of a count by port, in centibits
    DriftVectors, DriftWarn, DriftCrit,   \* _MIN_VECTORS_FOR_DRIFT, BASELINE_DRIFT_WARN and _CRIT
    MaxSeen, ScrapeMaxTime   \* bounds: flows, ticks

VARIABLES
    wall,        \* time.time()
    filling,     \* the collector's window
    trainStage,       \* what the trainer thread is doing
    trainee,     \* provenance of the window it trains on
    lostFlows,   \* _dropped_while_training
    leftover,    \* some were dropped after the trainer had reset the number (history)
    trained,     \* the last entry of the rolling history
    windowsTotal,    \* _windows_trained_total
    reader,      \* what the reader that is under way has read
    gauges,      \* what was published last
    seenFlows    \* flows so far

scrapeVars == <<wall, filling, trainStage, trainee, lostFlows, leftover, trained, windowsTotal, reader, gauges, seenFlows>>

(* The one thread that scrapes, started by the lifespan of the API or by main without --api, and *)
(* requests for the status.  They do not touch what the others read: one at a time is enough.     *)
Observers == {"scrape", "status"}

NewWindow(id, start) == [id |-> id, n |-> 0, hosts |-> {}, counts |-> [p \in ScrapePorts |-> 0], start |-> start, last |-> start]
NoWindow == [id |-> 0, bits |-> 0, ips |-> 0, ports |-> {}]
NotReading == [at |-> "idle"]

Init ==
    /\ wall = 0 /\ filling = NewWindow(1, 0) /\ trainStage = "idle" /\ trainee = NoWindow
    /\ lostFlows = 0 /\ leftover = FALSE /\ trained = NoWindow /\ windowsTotal = 0
    /\ reader = NotReading /\ gauges = [windows |-> 0, drift |-> -1] /\ seenFlows = 0

InFlight == trainStage # "idle"
PortsSeen(w) == {p \in ScrapePorts : w.counts[p] > 0}
Elapsed(w, now) == Max({0, now - w.start})

(* should_fire *)
ShouldFire(w) ==
    /\ w.n >= FireAt.vectors /\ Cardinality(w.hosts) >= FireAt.ips
    /\ Elapsed(w, w.last) >= FireAt.time /\ PortBits(w.counts) >= FireAt.entropy

-----------------------------------------------------------------------------
(* The collector and its trainer.                                            *)

(* observe: the time of a flow is that of its last packet. *)
Flow(h, p, at) ==
    LET w == [filling EXCEPT !.n = @ + 1, !.hosts = @ \cup {h}, !.counts[p] = @ + 1, !.last = at]
        fire == w.n >= HardCap \/ ShouldFire(w)
    IN  /\ seenFlows < MaxSeen /\ seenFlows' = seenFlows + 1
        /\ IF InFlight THEN lostFlows' = lostFlows + 1 /\ UNCHANGED <<filling, trainStage, trainee>>
           ELSE /\ filling' = IF fire THEN NewWindow(w.id + 1, at) ELSE w
                /\ trainStage' = IF fire THEN "starting" ELSE "idle"
                /\ trainee' = IF fire THEN [id |-> w.id, bits |-> PortBits(w.counts), ips |-> Cardinality(w.hosts), ports |-> PortsSeen(w)]
                              ELSE trainee
                /\ UNCHANGED lostFlows
        /\ UNCHANGED <<wall, leftover, trained, windowsTotal, reader, gauges>>

(* No provenance, or no thread: the number of dropped flows is not reset. *)
StartFails ==
    /\ trainStage = "starting" /\ trainStage' = "idle" /\ leftover' = (leftover \/ lostFlows > 0)
    /\ UNCHANGED <<wall, filling, trainee, lostFlows, trained, windowsTotal, reader, gauges, seenFlows>>

(* The window is skipped, its threshold rejected, or the training fails. *)
NotPromoted ==
    /\ trainStage = "starting" /\ trainStage' = "ending"
    /\ UNCHANGED <<wall, filling, trainee, lostFlows, leftover, trained, windowsTotal, reader, gauges, seenFlows>>

(* MLflow and the reload of the engine come after the history: what the engine tells is left out. *)
Promoted ==
    /\ trainStage = "starting" /\ trainStage' = "ending" /\ trained' = trainee /\ windowsTotal' = windowsTotal + 1
    /\ reader' = IF reader = NotReading THEN NotReading ELSE [reader EXCEPT !.overtaken = TRUE]
    /\ UNCHANGED <<wall, filling, trainee, lostFlows, leftover, gauges, seenFlows>>

(* _run_training ends in two lock sections. *)
Report ==
    /\ trainStage = "ending" /\ trainStage' = "reported" /\ lostFlows' = 0 /\ leftover' = FALSE
    /\ UNCHANGED <<wall, filling, trainee, trained, windowsTotal, reader, gauges, seenFlows>>

Release ==
    /\ trainStage = "reported" /\ trainStage' = "idle" /\ leftover' = (lostFlows > 0)
    /\ UNCHANGED <<wall, filling, trainee, lostFlows, trained, windowsTotal, reader, gauges, seenFlows>>

Tick ==
    /\ wall < ScrapeMaxTime /\ wall' = wall + 1
    /\ UNCHANGED <<filling, trainStage, trainee, lostFlows, leftover, trained, windowsTotal, reader, gauges, seenFlows>>

-----------------------------------------------------------------------------
(* The readers.                                                              *)

Ratio(current, threshold) == IF threshold <= 0 THEN 100 ELSE Min({(100 * current) \div threshold, 100})

(* collector.snapshot() *)
Snapshot ==
    [id |-> filling.id, n |-> filling.n, ips |-> Cardinality(filling.hosts), bits |-> PortBits(filling.counts), ports |-> PortsSeen(filling),
     inFlight |-> InFlight, dropped |-> lostFlows,
     progress |-> {<<"vectors", Ratio(filling.n, FireAt.vectors)>>, <<"ips", Ratio(Cardinality(filling.hosts), FireAt.ips)>>,
                   <<"time", Ratio(Elapsed(filling, wall), FireAt.time)>>, <<"entropy", Ratio(PortBits(filling.counts), FireAt.entropy)>>}]

ReadCollector(r) ==
    /\ reader = NotReading
    /\ reader' = [at |-> "history", who |-> r, snap |-> Snapshot, overtaken |-> FALSE,
                  late |-> Elapsed(filling, filling.last) < FireAt.time, excused |-> leftover, last |-> NoWindow, windows |-> 0]
    /\ UNCHANGED <<wall, filling, trainStage, trainee, lostFlows, leftover, trained, windowsTotal, gauges, seenFlows>>

ReadHistory ==
    /\ reader.at = "history"
    /\ reader' = [reader EXCEPT !.at = IF reader.who = "status" THEN "answer" ELSE "total", !.last = trained]
    /\ UNCHANGED <<wall, filling, trainStage, trainee, lostFlows, leftover, trained, windowsTotal, gauges, seenFlows>>

ReadTotal ==
    /\ reader.at = "total"
    /\ reader' = [reader EXCEPT !.at = "answer", !.windows = windowsTotal]
    /\ UNCHANGED <<wall, filling, trainStage, trainee, lostFlows, leftover, trained, windowsTotal, gauges, seenFlows>>

Magnitude(x) == IF x < 0 THEN -x ELSE x

(* compute_drift: in percent; none without a trained window or with too few flows. *)
NoDrift == -1
Drift(now, before) ==
    LET ips     == Max({before.ips, 1})
        entropy == Min({Magnitude(now.bits - before.bits) \div 2, 100})
        sources == Min({(100 * Magnitude(now.ips - ips)) \div ips, 100})
        all     == now.ports \cup before.ports
        ports   == IF all = {} THEN 0 ELSE 100 - (100 * Cardinality(now.ports \cap before.ports)) \div Cardinality(all)
    IN  IF before = NoWindow \/ now.n < DriftVectors THEN NoDrift ELSE (4 * entropy + 3 * sources + 3 * ports) \div 10

Verdict(drift) == CASE drift = NoDrift -> "none" [] drift >= DriftCrit -> "critical" [] drift >= DriftWarn /\ drift < DriftCrit -> "warning" [] OTHER -> "nominal"

(* eta_estimate_sec: none while a window is trained on or a condition is at 0. *)
NoEta == -1
Eta(now, elapsed) ==
    LET worst == Min({c[2] : c \in now.progress})
    IN  IF worst = 0 \/ now.inFlight THEN NoEta ELSE (elapsed * (100 - worst)) \div worst

(* update_baseline_metrics: a drift that is not known leaves its gauge as it is. *)
Publish ==
    LET drift == Drift(reader.snap, reader.last)
    IN  /\ reader.at = "answer" /\ reader' = NotReading
        /\ gauges' = IF reader.who = "status" THEN gauges
                     ELSE [windows |-> reader.windows, drift |-> IF drift = NoDrift THEN gauges.drift ELSE drift]
        /\ UNCHANGED <<wall, filling, trainStage, trainee, lostFlows, leftover, trained, windowsTotal, seenFlows>>

Next ==
    \/ \E h \in ScrapeHosts, p \in ScrapePorts, at \in {wall - 1, wall} : at >= 0 /\ Flow(h, p, at)
    \/ StartFails \/ NotPromoted \/ Promoted \/ Report \/ Release \/ Tick
    \/ (\E r \in Observers : ReadCollector(r)) \/ ReadHistory \/ ReadTotal \/ Publish

Spec == Init /\ [][Next]_scrapeVars

-----------------------------------------------------------------------------

(***************************************************************************)
(* Progress is told as the trigger sees it: a window whose conditions all  *)
(* hold is not waiting, unless its last flow came before the time was up;  *)
(* while a window is trained on the next one is empty, and flows shown as  *)
(* dropped belong to a training that runs, unless they fell between the    *)
(* two steps in which the last one ended.                                  *)
(***************************************************************************)
ProgressIsTrue ==
    reader # NotReading =>
        LET snap == reader.snap
        IN  /\ snap.inFlight => snap.n = 0 /\ Eta(snap, wall) = NoEta
            /\ (\A c \in snap.progress : c[2] = 100) /\ ~snap.inFlight => reader.late
            /\ snap.dropped > 0 => snap.inFlight \/ reader.excused

(***************************************************************************)
(* A drift compares the window being collected with an earlier one: with   *)
(* itself only if it was promoted between the two reads.  And a drift is   *)
(* published only beside a count of windows that is not 0.                 *)
(***************************************************************************)
DriftIsOfEarlierWindow ==
    /\ reader.at \in {"total", "answer"} =>
           \/ Verdict(Drift(reader.snap, reader.last)) = "none"
           \/ reader.last.id < reader.snap.id \/ reader.overtaken
    /\ gauges.windows <= windowsTotal /\ (gauges.drift # NoDrift => gauges.windows > 0)
=============================================================================
