---------------------------- MODULE DriftMonitor ----------------------------
(***************************************************************************)
(* Feature drift (src/src/monitoring/feature_drift.py): the capture        *)
(* workers add each flow's features to a window; a full window is compared *)
(* with the training statistics, and a verdict worse than the last one is  *)
(* notified.                                                               *)
(***************************************************************************)
EXTENDS Integers, Sequences, FiniteSets

CONSTANTS
    DriftWorkers, \* capture workers that call observe
    Vectors,      \* flow vectors: feature -> value
    TrainMean,    \* training mean per feature
    TrainStd,     \* training deviation per feature; scale_ of the scaler
    WindowFlows,  \* DRIFT_WINDOW_FLOWS
    DriftMinFlows,     \* DRIFT_MIN_FLOWS
    FeatureZ,     \* DRIFT_FEATURE_Z
    WarnPercent,  \* DRIFT_WARN_FRACTION
    CritPercent,  \* DRIFT_CRIT_FRACTION
    MaxWindows    \* bound: windows closed

Features == DOMAIN TrainMean

VARIABLES
    loaded,     \* whether the supervised engine has a scaler (_drift_baseline)
    baseline,   \* _mean and _std are set
    window,     \* _n and _sum
    lastClosed, \* _last_closed: verdict of the last closed window, -1 if none
    lastLevel,  \* _last_level
    observing,  \* per worker: stage, vector or verdict
    closed,     \* verdicts of the closed windows (history)
    notified,   \* the windows whose verdict was notified (history)
    counted,    \* vectors that were added to some window (history)
    overtaken,  \* two workers had a closed window in hand at once (history)
    answer      \* what the last status request was told

driftVars == <<loaded, baseline, window, lastClosed, lastLevel, observing, closed, notified,
               counted, overtaken, answer>>

EmptyWindow == [n |-> 0, sum |-> [f \in Features |-> 0]]
Waiting == [stage |-> "idle", vector |-> <<>>, index |-> 0, worse |-> FALSE]

Init ==
    /\ loaded \in BOOLEAN /\ baseline = FALSE /\ window = EmptyWindow
    /\ lastClosed = -1 /\ lastLevel = 0
    /\ observing = [w \in DriftWorkers |-> Waiting]
    /\ closed = <<>> /\ notified = {} /\ counted = 0 /\ overtaken = FALSE /\ answer = "none"

Magnitude(x) == IF x < 0 THEN -x ELSE x

(* A deviation that is not positive counts as 1. *)
Std(f) == IF TrainStd[f] > 0 THEN TrainStd[f] ELSE 1

(* |live mean - training mean| / deviation >= z, multiplied out. *)
Drifted(win, f) ==
    Magnitude(win.sum[f] - win.n * TrainMean[f]) >= FeatureZ * Std(f) * win.n

(* _report_locked: 0 nominal, 1 warning, 2 critical *)
Verdict(win) ==
    LET percent == 100 * Cardinality({f \in Features : Drifted(win, f)})
    IN  IF percent >= CritPercent * Cardinality(Features) THEN 2
        ELSE IF percent >= WarnPercent * Cardinality(Features) THEN 1 ELSE 0

-----------------------------------------------------------------------------

(* The engine may get its model after the monitor was first asked. *)
EngineLoads ==
    /\ ~loaded /\ loaded' = TRUE
    /\ UNCHANGED <<baseline, window, lastClosed, lastLevel, observing, closed, notified, counted, overtaken, answer>>

(* observe, outside of the lock: a vector of another length, or no baseline, is left out. *)
Observe(w, v) ==
    /\ observing[w].stage = "idle" /\ Len(closed) < MaxWindows
    /\ baseline' = (baseline \/ loaded)
    /\ observing' = IF baseline' /\ DOMAIN v = Features
                    THEN [observing EXCEPT ![w] = [Waiting EXCEPT !.stage = "add", !.vector = v]]
                    ELSE observing
    /\ UNCHANGED <<loaded, window, lastClosed, lastLevel, closed, notified, counted, overtaken, answer>>

InHand == {w \in DriftWorkers : observing[w].stage \in {"compare", "record"}}

Reset(win) == EmptyWindow

(* observe, in the lock *)
Add(w) ==
    LET v   == observing[w].vector
        win == [n |-> window.n + 1, sum |-> [f \in Features |-> window.sum[f] + v[f]]]
        full == win.n >= WindowFlows
    IN  /\ observing[w].stage = "add"
        /\ window' = IF full THEN Reset(win) ELSE win
        /\ closed' = IF full THEN Append(closed, Verdict(win)) ELSE closed
        /\ lastClosed' = IF full THEN Verdict(win) ELSE lastClosed
        /\ observing' = [observing EXCEPT ![w] =
                IF full THEN [Waiting EXCEPT !.stage = "compare", !.index = Len(closed) + 1] ELSE Waiting]
        /\ counted' = counted + 1
        /\ overtaken' = (overtaken \/ (full /\ InHand # {}))
        /\ UNCHANGED <<loaded, baseline, lastLevel, notified, answer>>

(* _maybe_notify: outside of the lock, _last_level is read, then written. *)
Compare(w) ==
    /\ observing[w].stage = "compare"
    /\ observing' = [observing EXCEPT ![w].stage = "record",
                                      ![w].worse = closed[observing[w].index] > lastLevel]
    /\ UNCHANGED <<loaded, baseline, window, lastClosed, lastLevel, closed, notified, counted, overtaken, answer>>

Record(w) ==
    /\ observing[w].stage = "record"
    /\ lastLevel' = closed[observing[w].index]
    /\ notified' = IF observing[w].worse THEN notified \cup {observing[w].index} ELSE notified
    /\ observing' = [observing EXCEPT ![w] = Waiting]
    /\ UNCHANGED <<loaded, baseline, window, lastClosed, closed, counted, overtaken, answer>>

(* status(), for GET /api/drift-status *)
Names == <<"nominal", "warning", "critical">>
Status ==
    /\ baseline' = (baseline \/ loaded)
    /\ answer' = IF ~baseline' THEN "no_baseline"
                 ELSE IF window.n >= DriftMinFlows THEN Names[Verdict(window) + 1]
                 ELSE IF lastClosed # -1 THEN Names[lastClosed + 1] ELSE "warming_up"
    /\ UNCHANGED <<loaded, window, lastClosed, lastLevel, observing, closed, notified, counted, overtaken>>

WorkerNext == \E w \in DriftWorkers :
    \/ \E v \in Vectors : Observe(w, v)
    \/ Add(w) \/ Compare(w) \/ Record(w)

Next == EngineLoads \/ WorkerNext \/ Status

Spec == Init /\ [][Next]_driftVars

-----------------------------------------------------------------------------

(***************************************************************************)
(* Every flow counts in exactly one window, and a window closes exactly    *)
(* when it is full.                                                        *)
(***************************************************************************)
WindowsAreTumbling ==
    /\ counted = WindowFlows * Len(closed) + window.n /\ window.n < WindowFlows
    /\ \A f \in Features : window.n = 0 => window.sum[f] = 0

(***************************************************************************)
(* A notification is sent for the windows whose verdict is worse than the  *)
(* one before, and no others, unless two windows closed so close together  *)
(* that their workers overtook each other.  However they did, no nominal   *)
(* window is notified, and a warning or a critical window is, itself or    *)
(* through another that was as bad.                                        *)
(***************************************************************************)
Worsened == {i \in DOMAIN closed : closed[i] > (IF i = 1 THEN 0 ELSE closed[i - 1])}
AsBadNotified(level) == level > 0 => \E k \in notified : closed[k] >= level
WorseIsNotified ==
    /\ \A i \in notified : closed[i] > 0
    /\ ~overtaken /\ InHand = {} => notified = Worsened
    /\ InHand = {} => \A i \in DOMAIN closed : AsBadNotified(closed[i])
=============================================================================
