------------------------------ MODULE Baseline ------------------------------
(***************************************************************************)
(* Unsupervised baseline training (src/src/unsupervised): the collector    *)
(* that fills a window from the flow pipeline, the trainer thread with its *)
(* stability gate, the MLflow registry it registers models in, and the     *)
(* BaselineEngine (src/src/engines/baseline_engine.py) that reloads them.  *)
(*                                                                         *)
(* A step is a lock section of the collector or a stage of a training run. *)
(* Of a sample only its source host matters; that the elapsed-time and     *)
(* entropy conditions of the trigger hold is a free choice (`diverse`).    *)
(* A fitted model is its LSTM threshold.                                   *)
(***************************************************************************)
EXTENDS Integers, Sequences, FiniteSets, TLC

CONSTANTS
    Callers,       \* threads that run on_flow_complete
    Hosts,         \* source addresses
    HardCap,       \* HARD_CAP
    MinVectors,    \* BASELINE_MIN_VECTORS
    MinHosts,      \* BASELINE_MIN_SRC_IPS
    Thresholds,    \* LSTM thresholds a training run may end with
    MaxRatio,      \* BASELINE_THRESHOLD_MAX_RATIO
    RefWindows,    \* BASELINE_THRESHOLD_REF_WINDOWS
    MaxRejects,    \* BASELINE_MAX_CONSECUTIVE_REJECTS
    Faults,        \* whether training, registration and reload may fail
    MaxSamples,    \* bound: samples observed
    MaxRestarts    \* bound: restarts of the detector

ASSUME BaselineAssumption ==
    /\ {HardCap, MinVectors, MinHosts, RefWindows} \subseteq Nat \ {0}
    /\ {MaxRatio, MaxRejects, MaxSamples, MaxRestarts} \subseteq Nat
    /\ Thresholds \subseteq Nat /\ Thresholds # {}
    /\ Faults \in BOOLEAN

VARIABLES
    seen,       \* samples observed so far: a sample is its number (history)
    live,       \* _buffer and _src_ips of the window being collected
    inFlight,   \* _training_in_flight
    dropped,    \* _dropped_while_training
    cwin,       \* the window a caller has closed and not handed over yet, or 0
    windows,    \* every closed window: its samples, stage, threshold, verdict
    refs,       \* _accepted_thresholds, as the windows they come from
    rejects,    \* _consecutive_rejects
    registry,   \* the registered model versions, as windows; outlives restarts
    engine,     \* the version BaselineEngine serves, 0 for none
    lost,       \* samples dropped so far (history)
    reported,   \* sum of the drop counts logged so far (history)
    verdicts,   \* what the gate has said since the start (history)
    restarts

collectorVars == <<seen, live, inFlight, dropped, cwin, lost, reported>>
gateVars == <<refs, rejects, verdicts>>
modelVars == <<registry, engine>>
vars == <<collectorVars, windows, gateVars, modelVars, restarts>>

EmptyWindow == [samples |-> {}, hosts |-> {}]

Init ==
    /\ seen = 0 /\ live = EmptyWindow /\ inFlight = FALSE /\ dropped = 0
    /\ cwin = [c \in Callers |-> 0]
    /\ windows = <<>>
    /\ refs = <<>> /\ rejects = 0
    /\ registry = <<>> /\ engine = 0
    /\ lost = 0 /\ reported = 0 /\ verdicts = <<>> /\ restarts = 0

(***************************************************************************)
(* BaselineCollector.observe                                               *)
(***************************************************************************)

(* Mutant of Blocked: the flag is raised by the thread, not in the lock section. *)
BlockedOnceStarted ==
    inFlight /\ \A w \in DOMAIN windows : windows[w].stage # "handoff"

Blocked == inFlight

Observing(c) == cwin[c] = 0 /\ seen < MaxSamples

DropSample(c) ==
    /\ Observing(c) /\ Blocked
    /\ seen' = seen + 1 /\ dropped' = dropped + 1 /\ lost' = lost + 1
    /\ UNCHANGED <<live, inFlight, cwin, reported, windows, gateVars, modelVars, restarts>>

(* The live window with this sample in it. *)
WithSample(h) == [samples |-> live.samples \cup {seen + 1}, hosts |-> live.hosts \cup {h}]

(* hit_hard_cap or CompositeTrigger.should_fire *)
ShouldFire(win, diverse) ==
    \/ Cardinality(win.samples) >= HardCap
    \/ /\ Cardinality(win.samples) >= MinVectors
       /\ Cardinality(win.hosts) >= MinHosts
       /\ diverse

Collect(c) ==
    /\ Observing(c) /\ ~Blocked
    /\ \E h \in Hosts, diverse \in BOOLEAN :
        /\ ~ShouldFire(WithSample(h), diverse)
        /\ live' = WithSample(h)
    /\ seen' = seen + 1
    /\ UNCHANGED <<inFlight, dropped, cwin, lost, reported, windows, gateVars, modelVars, restarts>>

(* Mutant of NextWindow: the list of samples is not replaced. *)
NextWindowSameList(win) == [samples |-> win.samples, hosts |-> {}]

(* Mutant of NextWindow: the set of hosts is not replaced. *)
NextWindowSameHosts(win) == [samples |-> {}, hosts |-> win.hosts]

NextWindow(win) == EmptyWindow

Fire(c) ==
    /\ Observing(c) /\ ~Blocked
    /\ \E h \in Hosts, diverse \in BOOLEAN :
        /\ ShouldFire(WithSample(h), diverse)
        /\ windows' = Append(windows, [samples |-> WithSample(h).samples, stage |-> "handoff",
                                       threshold |-> 0, verdict |-> "none"])
        /\ live' = NextWindow(WithSample(h))
    /\ inFlight' = TRUE
    /\ cwin' = [cwin EXCEPT ![c] = Len(windows) + 1]
    /\ seen' = seen + 1
    /\ UNCHANGED <<dropped, lost, reported, gateVars, modelVars, restarts>>

Stage(w, stage) == windows' = [windows EXCEPT ![w].stage = stage]

HandOff(c) ==
    /\ cwin[c] # 0
    /\ Stage(cwin[c], "training")
    /\ cwin' = [cwin EXCEPT ![c] = 0]
    /\ UNCHANGED <<seen, live, inFlight, dropped, lost, reported, gateVars, modelVars, restarts>>

(* Mutant of HandOffFails: the flag stays up. *)
HandOffFailsFrozen(c) ==
    /\ Faults /\ cwin[c] # 0
    /\ Stage(cwin[c], "done")
    /\ cwin' = [cwin EXCEPT ![c] = 0]
    /\ UNCHANGED <<seen, live, inFlight, dropped, lost, reported, gateVars, modelVars, restarts>>

(* ProvenanceMetadata.from_window or Thread.start raises. *)
HandOffFails(c) ==
    /\ Faults /\ cwin[c] # 0
    /\ Stage(cwin[c], "done")
    /\ cwin' = [cwin EXCEPT ![c] = 0]
    /\ inFlight' = FALSE
    /\ UNCHANGED <<seen, live, dropped, lost, reported, gateVars, modelVars, restarts>>

(***************************************************************************)
(* WindowTrainer.train_window                                              *)
(***************************************************************************)
At(w, stage) == w \in DOMAIN windows /\ windows[w].stage = stage

Fit(w) ==
    /\ At(w, "training")
    /\ \E t \in Thresholds :
        windows' = [windows EXCEPT ![w].stage = "fitted", ![w].threshold = t]
    /\ UNCHANGED <<collectorVars, gateVars, modelVars, restarts>>

(* Too few samples or sequences, or an exception: nothing is trained. *)
FitFails(w) ==
    /\ Faults /\ At(w, "training")
    /\ Stage(w, "finishing")
    /\ UNCHANGED <<collectorVars, gateVars, modelVars, restarts>>

(* Twice the median, so that it is an integer. *)
Median2(s) ==
    LET sorted == SortSeq(s, <)
    IN  sorted[(Len(s) + 1) \div 2] + sorted[(Len(s) + 2) \div 2]

(* _threshold_is_stable: within a factor MaxRatio of the median. *)
Stable(t, reference) ==
    LET median == Median2(reference)
    IN  MaxRatio > 0 /\ reference # <<>> /\ median > 0 =>
            median <= 2 * t * MaxRatio /\ 2 * t <= median * MaxRatio

Reference == [i \in DOMAIN refs |-> windows[refs[i]].threshold]
WithinGate(w) == Stable(windows[w].threshold, Reference)

(* A deque of at most RefWindows entries. *)
Remember(s, w) == LET t == Append(s, w) IN IF Len(t) > RefWindows THEN Tail(t) ELSE t

(* Mutant of Accept: rejects are not forgotten when a window is accepted. *)
AcceptKeepsRejects(w, verdict, reference) ==
    /\ windows' = [windows EXCEPT ![w].stage = "accepted", ![w].verdict = verdict]
    /\ refs' = Remember(reference, w)
    /\ UNCHANGED rejects

Accept(w, verdict, reference) ==
    /\ windows' = [windows EXCEPT ![w].stage = "accepted", ![w].verdict = verdict]
    /\ refs' = Remember(reference, w)
    /\ rejects' = 0

(* Mutant of AfterReject: a rejected window is logged and registered all the same. *)
AfterRejectGoesOn == "accepted"

AfterReject == "finishing"

(* _accept_threshold *)
GateStable(w) ==
    /\ At(w, "fitted") /\ WithinGate(w)
    /\ Accept(w, "stable", refs)
    /\ verdicts' = Append(verdicts, "stable")
    /\ UNCHANGED <<collectorVars, modelVars, restarts>>

GateReject(w) ==
    /\ At(w, "fitted") /\ ~WithinGate(w) /\ rejects < MaxRejects
    /\ windows' = [windows EXCEPT ![w].stage = AfterReject, ![w].verdict = "rejected"]
    /\ rejects' = rejects + 1
    /\ verdicts' = Append(verdicts, "rejected")
    /\ UNCHANGED <<collectorVars, refs, modelVars, restarts>>

GateRegimeChange(w) ==
    /\ At(w, "fitted") /\ ~WithinGate(w) /\ rejects >= MaxRejects
    /\ Accept(w, "regime", <<>>)
    /\ verdicts' = Append(verdicts, "regime")
    /\ UNCHANGED <<collectorVars, modelVars, restarts>>

Register(w) ==
    /\ At(w, "accepted")
    /\ registry' = Append(registry, w)
    /\ Stage(w, "registered")
    /\ UNCHANGED <<collectorVars, gateVars, engine, restarts>>

(* MLflow is not enabled, or logging or registration raises. *)
RegisterFails(w) ==
    /\ Faults /\ At(w, "accepted")
    /\ Stage(w, "finishing")
    /\ UNCHANGED <<collectorVars, gateVars, modelVars, restarts>>

(* on_trained: reload_from_mlflow_baseline swaps in the highest version. *)
Reload(w) ==
    /\ At(w, "registered")
    /\ engine' = Len(registry)
    /\ Stage(w, "finishing")
    /\ UNCHANGED <<collectorVars, gateVars, registry, restarts>>

(* A query, download or load fails: the previous model remains active. *)
ReloadFails(w) ==
    /\ Faults /\ At(w, "registered")
    /\ Stage(w, "finishing")
    /\ UNCHANGED <<collectorVars, gateVars, modelVars, restarts>>

(***************************************************************************)
(* The finally block of _run_training: two lock sections.                  *)
(***************************************************************************)
Report(w) ==
    /\ At(w, "finishing")
    /\ reported' = reported + dropped /\ dropped' = 0
    /\ Stage(w, "reported")
    /\ UNCHANGED <<seen, live, inFlight, cwin, lost, gateVars, modelVars, restarts>>

(* Mutant of Resume: the counter is reset together with the flag. *)
ResumeResetting(w) ==
    /\ At(w, "reported")
    /\ inFlight' = FALSE /\ dropped' = 0
    /\ Stage(w, "done")
    /\ UNCHANGED <<seen, live, cwin, lost, reported, gateVars, modelVars, restarts>>

Resume(w) ==
    /\ At(w, "reported")
    /\ inFlight' = FALSE
    /\ Stage(w, "done")
    /\ UNCHANGED <<seen, live, dropped, cwin, lost, reported, gateVars, modelVars, restarts>>

(* The detector restarts: BaselineEngine loads the highest version, if it can;  *)
(* the gate starts with an empty reference.                                     *)
Restart ==
    /\ restarts < MaxRestarts
    /\ restarts' = restarts + 1
    /\ live' = EmptyWindow /\ inFlight' = FALSE /\ dropped' = 0
    /\ cwin' = [c \in Callers |-> 0]
    /\ windows' = [w \in DOMAIN windows |-> [windows[w] EXCEPT !.stage = "done"]]
    /\ refs' = <<>> /\ rejects' = 0 /\ verdicts' = <<>>
    /\ engine' \in {Len(registry)} \cup (IF Faults THEN {0} ELSE {})
    /\ lost' = 0 /\ reported' = 0
    /\ UNCHANGED <<seen, registry>>

CallerStep(c) == HandOff(c) \/ HandOffFails(c)
TrainerStep(w) ==
    \/ Fit(w) \/ FitFails(w)
    \/ GateStable(w) \/ GateReject(w) \/ GateRegimeChange(w)
    \/ Register(w) \/ RegisterFails(w) \/ Reload(w) \/ ReloadFails(w)
    \/ Report(w) \/ Resume(w)

Next ==
    \/ \E c \in Callers : DropSample(c) \/ Collect(c) \/ Fire(c) \/ CallerStep(c)
    \/ \E w \in DOMAIN windows : TrainerStep(w)
    \/ Restart

Spec == Init /\ [][Next]_vars

(* Threads are scheduled and training terminates; flows may stop coming. *)
FairSpec ==
    /\ Spec
    /\ \A c \in Callers : WF_vars(CallerStep(c))
    /\ \A w \in 1..MaxSamples : WF_vars(TrainerStep(w))
-----------------------------------------------------------------------------

Running == {w \in DOMAIN windows : windows[w].stage # "done"}

Stages   == {"handoff", "training", "fitted", "accepted", "registered", "finishing",
             "reported", "done"}
Accepted == {"stable", "regime"}
Window   == [samples : SUBSET (1..seen), stage : Stages, threshold : Thresholds \cup {0},
             verdict : Accepted \cup {"none", "rejected"}]

CollectorOK ==
    /\ seen \in 0..MaxSamples /\ dropped \in 0..seen /\ {lost, reported} \subseteq Nat
    /\ live.samples \subseteq 1..seen /\ live.hosts \subseteq Hosts
    /\ Cardinality(live.samples) < HardCap
    /\ Cardinality(live.hosts) <= Cardinality(live.samples)
    /\ inFlight \in BOOLEAN
    /\ cwin \in [Callers -> 0..Len(windows)]

TrainerOK ==
    /\ windows \in Seq(Window)
    /\ refs \in Seq(DOMAIN windows) /\ Len(refs) <= RefWindows
    /\ rejects \in 0..MaxRejects
    /\ registry \in Seq(DOMAIN windows) /\ engine \in 0..Len(registry)
    /\ restarts \in 0..MaxRestarts

(* Every variable has its type; a window under collection is below the hard    *)
(* cap, and its hosts are hosts of its samples.                                *)
TypeOK == CollectorOK /\ TrainerOK

(* doc/unsupervised.md: "Only one training run can be in flight at a time":    *)
(* the gate's reference and counter, which no lock protects, depend on it.     *)
OneTraining ==
    /\ Cardinality(Running) <= 1
    /\ Running # {} => inFlight

(* Windows are disjoint, and no sample of a closed window counts towards the   *)
(* next one, with two threads observing.                                       *)
NoSampleTwice ==
    /\ \A v, w \in DOMAIN windows : v # w => windows[v].samples \cap windows[w].samples = {}
    /\ \A w \in DOMAIN windows : windows[w].samples \cap live.samples = {}

(* Every dropped sample is reported once: by the run that drops it or, between *)
(* its two lock sections and after a hand-over that failed, by a later one.    *)
DroppedAreReported == reported + dropped = lost

(* The engine never serves a window the gate has rejected. *)
ServedIsAccepted ==
    engine # 0 => windows[registry[engine]].verdict \in Accepted

(* A window outside the gate's range is promoted only after MaxRejects         *)
(* rejections in a row, and no further rejection follows those.                *)
GateVerdicts ==
    LET RejectedBefore(i) == {j \in 1..(i - 1) : \A k \in j..(i - 1) : verdicts[k] = "rejected"}
    IN  \A i \in DOMAIN verdicts :
            /\ verdicts[i] = "regime" => Cardinality(RejectedBefore(i)) = MaxRejects
            /\ verdicts[i] = "rejected" => Cardinality(RejectedBefore(i)) < MaxRejects

(* Whatever fails between closing a window and the end of its training,        *)
(* collection goes on afterwards: the flag is always cleared.                  *)
CollectionResumes == inFlight ~> ~inFlight
=============================================================================
