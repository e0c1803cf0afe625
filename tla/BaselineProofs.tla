--------------------------- MODULE BaselineProofs ---------------------------
(* Proofs about Baseline, for every value of its constants. *)
EXTENDS Baseline, SequenceTheorems, FiniteSetTheorems, TLAPS

(* TypeOK counts the hosts of the live window, so it needs them to be finite. *)
TypeInv == TypeOK /\ IsFiniteSet(live.hosts)

-----------------------------------------------------------------------------
(* Facts about the windows.                                                *)

LEMMA WindowFacts ==
    ASSUME TypeOK
    PROVE  /\ Len(windows) \in Nat /\ DOMAIN windows = 1..Len(windows)
           /\ \A w \in DOMAIN windows : windows[w] \in Window
           /\ Len(registry) \in Nat /\ DOMAIN registry = 1..Len(registry)
           /\ \A i \in 1..Len(registry) : registry[i] \in DOMAIN windows
BY LenProperties, ElementOfSeq DEF TypeOK, TrainerOK

(* A training run rewrites its own window, and never the samples in it. *)
LEMMA WindowUpdate ==
    ASSUME TypeOK, NEW w \in DOMAIN windows, NEW new \in Window,
           windows' = [windows EXCEPT ![w] = new]
    PROVE  /\ windows' \in Seq(Window) /\ Len(windows') = Len(windows)
           /\ DOMAIN windows' = DOMAIN windows
           /\ \A v \in DOMAIN windows : windows'[v] = IF v = w THEN new ELSE windows[v]
<1>1. windows \in Seq(Window) /\ w \in 1..Len(windows)
  BY WindowFacts DEF TypeOK, TrainerOK
<1>2. /\ [windows EXCEPT ![w] = new] \in Seq(Window)
      /\ Len([windows EXCEPT ![w] = new]) = Len(windows)
      /\ \A v \in 1..Len(windows) :
            [windows EXCEPT ![w] = new][v] = IF v = w THEN new ELSE windows[v]
  BY <1>1, ExceptSeq
<1>3. DOMAIN windows' = 1..Len(windows')
  BY <1>2, LenProperties
<1> QED
  BY <1>2, <1>3, WindowFacts

(* What a step of the run of window w makes of that window. *)
Moved(w, from, to) ==
    /\ windows[w].stage = from /\ windows'[w].stage = to
    /\ windows'[w].samples = windows[w].samples
    /\ windows'[w].verdict = windows[w].verdict

Judged(w) ==
    /\ windows[w].stage = "fitted"
    /\ windows'[w].samples = windows[w].samples
    /\ \/ windows'[w].stage = "accepted" /\ windows'[w].verdict \in Accepted
       \/ windows'[w].stage = "finishing" /\ windows'[w].verdict = "rejected"

OnlyWindow(w) ==
    /\ windows' \in Seq(Window) /\ Len(windows') = Len(windows)
    /\ DOMAIN windows' = DOMAIN windows
    /\ \A v \in DOMAIN windows : v # w => windows'[v] = windows[v]

LEMMA StageMoves ==
    ASSUME TypeOK, NEW w \in DOMAIN windows, NEW from, NEW to \in Stages,
           windows[w].stage = from, Stage(w, to)
    PROVE  OnlyWindow(w) /\ Moved(w, from, to)
<1> DEFINE new == [windows[w] EXCEPT !.stage = to]
<1>1. new \in Window /\ new.samples = windows[w].samples /\ new.verdict = windows[w].verdict
      /\ new.stage = to
  BY WindowFacts DEF Window
<1>2. windows' = [windows EXCEPT ![w] = new]
  BY DEF Stage
<1> HIDE DEF new
<1> QED
  BY <1>1, <1>2, WindowUpdate DEF OnlyWindow, Moved

LEMMA FitMoves ==
    ASSUME TypeOK, NEW w, Fit(w)
    PROVE  OnlyWindow(w) /\ Moved(w, "training", "fitted")
<1>1. PICK t \in Thresholds :
         windows' = [windows EXCEPT ![w].stage = "fitted", ![w].threshold = t]
  BY DEF Fit
<1> DEFINE new == [windows[w] EXCEPT !.stage = "fitted", !.threshold = t]
<1>2. w \in DOMAIN windows /\ windows[w].stage = "training"
  BY DEF Fit, At
<1>3. new \in Window /\ new.samples = windows[w].samples /\ new.verdict = windows[w].verdict
      /\ new.stage = "fitted"
  BY <1>2, WindowFacts DEF Window, Stages
<1>4. windows' = [windows EXCEPT ![w] = new]
  BY <1>1
<1> HIDE DEF new
<1> QED
  BY <1>2, <1>3, <1>4, WindowUpdate DEF OnlyWindow, Moved

LEMMA VerdictMoves ==
    ASSUME TypeOK, NEW w \in DOMAIN windows, windows[w].stage = "fitted",
           NEW stage \in Stages, NEW verdict \in Accepted \cup {"rejected"},
           windows' = [windows EXCEPT ![w].stage = stage, ![w].verdict = verdict],
           \/ stage = "accepted" /\ verdict \in Accepted
           \/ stage = "finishing" /\ verdict = "rejected"
    PROVE  OnlyWindow(w) /\ Judged(w)
<1> DEFINE new == [windows[w] EXCEPT !.stage = stage, !.verdict = verdict]
<1>1. new \in Window /\ new.samples = windows[w].samples /\ new.verdict = verdict
      /\ new.stage = stage
  BY WindowFacts DEF Window
<1>2. windows' = [windows EXCEPT ![w] = new]
  OBVIOUS
<1> HIDE DEF new
<1> QED
  BY <1>1, <1>2, WindowUpdate DEF OnlyWindow, Judged

Gate(w) == GateStable(w) \/ GateReject(w) \/ GateRegimeChange(w)

LEMMA GateMoves ==
    ASSUME TypeOK, NEW w, Gate(w)
    PROVE  OnlyWindow(w) /\ Judged(w)
<1>1. w \in DOMAIN windows /\ windows[w].stage = "fitted"
  BY DEF Gate, GateStable, GateReject, GateRegimeChange, At
<1>2. PICK stage \in {"accepted", "finishing"}, verdict \in Accepted \cup {"rejected"} :
         /\ windows' = [windows EXCEPT ![w].stage = stage, ![w].verdict = verdict]
         /\ \/ stage = "accepted" /\ verdict \in Accepted
            \/ stage = "finishing" /\ verdict = "rejected"
  BY DEF Gate, GateStable, GateReject, GateRegimeChange, Accept, AfterReject, Accepted
<1> QED
  BY <1>1, <1>2, VerdictMoves DEF Stages

(* Every step of a training run: which window it rewrites and how, and what it *)
(* leaves alone.                                                               *)
Moves(w) ==
    \/ Moved(w, "training", "fitted") \/ Moved(w, "training", "finishing")
    \/ Judged(w)
    \/ Moved(w, "accepted", "registered") \/ Moved(w, "accepted", "finishing")
    \/ Moved(w, "registered", "finishing")
    \/ Moved(w, "finishing", "reported") \/ Moved(w, "reported", "done")

LEMMA TrainerMoves ==
    ASSUME TypeOK, NEW w, TrainerStep(w)
    PROVE  /\ w \in DOMAIN windows /\ OnlyWindow(w) /\ Moves(w)
           /\ UNCHANGED <<seen, live, cwin, lost, restarts>>
           /\ inFlight' = IF windows'[w].stage = "done" THEN FALSE ELSE inFlight
<1>1. CASE Fit(w)
  BY <1>1, FitMoves DEF Fit, At, Moves, Moved, collectorVars
<1>2. CASE Gate(w)
  BY <1>2, GateMoves
  DEF Gate, GateStable, GateReject, GateRegimeChange, At, Moves, Judged, collectorVars
<1>3. CASE FitFails(w)
  BY <1>3, StageMoves DEF FitFails, At, Moves, Moved, collectorVars, Stages
<1>4. CASE Register(w)
  BY <1>4, StageMoves DEF Register, At, Moves, Moved, collectorVars, Stages
<1>5. CASE RegisterFails(w)
  BY <1>5, StageMoves DEF RegisterFails, At, Moves, Moved, collectorVars, Stages
<1>6. CASE Reload(w)
  BY <1>6, StageMoves DEF Reload, At, Moves, Moved, collectorVars, Stages
<1>7. CASE ReloadFails(w)
  BY <1>7, StageMoves DEF ReloadFails, At, Moves, Moved, collectorVars, Stages
<1>8. CASE Report(w)
  BY <1>8, StageMoves DEF Report, At, Moves, Moved, Stages
<1>9. CASE Resume(w)
  BY <1>9, StageMoves DEF Resume, At, Moves, Moved, Stages
<1> QED
  BY <1>1, <1>2, <1>3, <1>4, <1>5, <1>6, <1>7, <1>8, <1>9 DEF TrainerStep, Gate

(* A caller hands its window over, or gives it up. *)
LEMMA CallerMoves ==
    ASSUME TypeOK, NEW c \in Callers, CallerStep(c),
           windows[cwin[c]].stage = "handoff"
    PROVE  LET w == cwin[c]
           IN  /\ w \in DOMAIN windows /\ OnlyWindow(w)
               /\ \/ Moved(w, "handoff", "training") /\ inFlight' = inFlight
                  \/ Moved(w, "handoff", "done") /\ inFlight' = FALSE
               /\ cwin' = [cwin EXCEPT ![c] = 0]
               /\ UNCHANGED <<seen, live, dropped, lost, reported, gateVars, modelVars, restarts>>
<1>1. cwin[c] \in 0..Len(windows) /\ cwin[c] # 0
  BY DEF TypeOK, CollectorOK, CallerStep, HandOff, HandOffFails
<1>2. cwin[c] \in DOMAIN windows
  BY <1>1, WindowFacts
<1> QED
  BY <1>2, StageMoves DEF CallerStep, HandOff, HandOffFails, Stages

(* A caller closes the live window, with its sample in it. *)
NewWindow(h) == [samples |-> WithSample(h).samples, stage |-> "handoff", threshold |-> 0,
                 verdict |-> "none"]

LEMMA FireAppends ==
    ASSUME TypeOK, NEW c \in Callers, NEW h, windows' = Append(windows, NewWindow(h)),
           seen' = seen + 1
    PROVE  /\ windows' \in Seq(Window') /\ Len(windows') = Len(windows) + 1
           /\ DOMAIN windows' = DOMAIN windows \cup {Len(windows) + 1}
           /\ Len(windows) + 1 \notin DOMAIN windows
           /\ \A v \in DOMAIN windows : windows'[v] = windows[v]
           /\ windows'[Len(windows) + 1] = NewWindow(h)
<1>1. Window \subseteq Window' /\ NewWindow(h) \in Window'
  BY DEF TypeOK, CollectorOK, Window, NewWindow, WithSample, Stages, Accepted
<1>2. windows \in Seq(Window') /\ Len(windows) \in Nat
  BY <1>1, SeqMonotonic, WindowFacts DEF TypeOK, TrainerOK
<1>3. /\ Append(windows, NewWindow(h)) \in Seq(Window')
      /\ Len(Append(windows, NewWindow(h))) = Len(windows) + 1
      /\ \A v \in 1..Len(windows) : Append(windows, NewWindow(h))[v] = windows[v]
      /\ Append(windows, NewWindow(h))[Len(windows) + 1] = NewWindow(h)
  BY <1>1, <1>2, AppendProperties
<1>4. DOMAIN windows' = 1..(Len(windows) + 1)
  BY <1>3, LenProperties
<1> QED
  BY <1>2, <1>3, <1>4, WindowFacts

-----------------------------------------------------------------------------
(* Type correctness.                                                       *)

LEMMA LiveFinite ==
    ASSUME TypeInv
    PROVE  /\ IsFiniteSet(live.samples) /\ Cardinality(live.samples) \in Nat
           /\ Cardinality(live.hosts) \in Nat
<1>1. seen \in Int /\ live.samples \in SUBSET (1..seen)
  BY DEF TypeInv, TypeOK, CollectorOK
<1>2. IsFiniteSet(1..seen)
  BY <1>1, FS_Interval
<1>3. IsFiniteSet(live.samples)
  BY <1>1, <1>2, FS_Subset
<1>4. IsFiniteSet(live.hosts)
  BY DEF TypeInv
<1> QED
  BY <1>3, <1>4, FS_CardinalityType

(* One more sample: the cardinalities that the trigger compares. *)
LEMMA OneMore ==
    ASSUME TypeInv, NEW h \in Hosts
    PROVE  /\ WithSample(h).samples \subseteq 1..(seen + 1) /\ WithSample(h).hosts \subseteq Hosts
           /\ IsFiniteSet(WithSample(h).hosts)
           /\ Cardinality(WithSample(h).samples) \in Nat
           /\ Cardinality(WithSample(h).hosts) <= Cardinality(WithSample(h).samples)
<1>1. seen \in Nat /\ live.samples \subseteq 1..seen /\ live.hosts \subseteq Hosts
      /\ Cardinality(live.hosts) <= Cardinality(live.samples)
  BY DEF TypeInv, TypeOK, CollectorOK
<1>2. seen + 1 \notin live.samples
  BY <1>1
<1>3. Cardinality(live.samples \cup {seen + 1}) = Cardinality(live.samples) + 1
  BY <1>2, LiveFinite, FS_AddElement
<1>4. /\ IsFiniteSet(live.hosts \cup {h})
      /\ Cardinality(live.hosts \cup {h}) \in {Cardinality(live.hosts), Cardinality(live.hosts) + 1}
  BY FS_AddElement DEF TypeInv
<1> QED
  BY <1>1, <1>3, <1>4, LiveFinite DEF WithSample

(* The collector's part when a window ends or moves on. *)
LEMMA CollectorFrame ==
    ASSUME TypeOK, UNCHANGED <<seen, live>>, Len(windows') = Len(windows),
           dropped' \in 0..dropped, lost' \in Nat, reported' \in Nat, inFlight' \in BOOLEAN,
           cwin' \in [Callers -> 0..Len(windows)]
    PROVE  CollectorOK'
BY DEF TypeOK, CollectorOK

(* The collector's part when a sample is observed. *)
LEMMA ObserveFrame ==
    ASSUME TypeOK, NEW c \in Callers, Observing(c), seen' = seen + 1,
           dropped' \in {dropped, dropped + 1}, lost' \in {lost, lost + 1}, reported' = reported,
           live'.samples \subseteq 1..(seen + 1), live'.hosts \subseteq Hosts,
           Cardinality(live'.samples) < HardCap,
           Cardinality(live'.hosts) <= Cardinality(live'.samples),
           inFlight' \in BOOLEAN, cwin' \in [Callers -> 0..Len(windows')]
    PROVE  CollectorOK'
<1>1. /\ seen \in Nat /\ seen < MaxSamples /\ MaxSamples \in Nat
      /\ dropped \in 0..seen /\ lost \in Nat /\ reported \in Nat
  BY BaselineAssumption DEF BaselineAssumption, TypeOK, CollectorOK, Observing
<1>2. seen' \in 0..MaxSamples /\ dropped' \in 0..seen'
  BY <1>1
<1>3. lost' \in Nat /\ reported' \in Nat
  BY <1>1
<1>4. live'.samples \subseteq 1..seen'
  OBVIOUS
<1> QED
  BY <1>2, <1>3, <1>4 DEF CollectorOK

LEMMA TrainerFrame ==
    ASSUME TypeOK, windows' \in Seq(Window'), DOMAIN windows \subseteq DOMAIN windows',
           UNCHANGED <<gateVars, modelVars, restarts>>
    PROVE  TrainerOK'
<1>1. refs \in Seq(DOMAIN windows') /\ registry \in Seq(DOMAIN windows')
  BY SeqMonotonic DEF TypeOK, TrainerOK
<1> QED
  BY <1>1 DEF TypeOK, TrainerOK, gateVars, modelVars

LEMMA TypeInit == Init => TypeInv
<1> SUFFICES ASSUME Init PROVE TypeInv
  OBVIOUS
<1>1. \A S : <<>> \in Seq(S) /\ Len(<<>>) = 0
  BY EmptySeq
<1>2. IsFiniteSet({}) /\ Cardinality({}) = 0
  BY FS_EmptySet
<1>3. CollectorOK /\ IsFiniteSet(live.hosts)
  <2>1. live.samples = {} /\ live.hosts = {}
    BY DEF Init, EmptyWindow
  <2>2. 0 < HardCap /\ MaxSamples \in Nat
    BY BaselineAssumption DEF BaselineAssumption
  <2>3. Len(windows) = 0
    BY <1>1 DEF Init
  <2>4. cwin \in [Callers -> 0..Len(windows)]
    <3>1. 0 \in 0..Len(windows)
      BY <2>3
    <3> QED
      BY <3>1 DEF Init
  <2>5. seen \in 0..MaxSamples /\ dropped \in 0..seen /\ {lost, reported} \subseteq Nat
    BY <2>2 DEF Init
  <2>6. inFlight \in BOOLEAN
    BY Zenon DEF Init
  <2> QED
    BY <1>2, <2>1, <2>2, <2>4, <2>5, <2>6 DEF CollectorOK
<1>4. TrainerOK
  BY <1>1, BaselineAssumption DEF BaselineAssumption, Init, TrainerOK
<1> QED
  BY <1>3, <1>4 DEF TypeInv, TypeOK

LEMMA TypeCaller ==
    ASSUME TypeInv, NEW c \in Callers,
           DropSample(c) \/ Collect(c) \/ Fire(c) \/ CallerStep(c)
    PROVE  TypeInv'
<1> USE DEF TypeInv
<1>1. CASE DropSample(c)
  <2>1. windows \in Seq(Window')
    <3>1. Window \subseteq Window'
      BY <1>1 DEF TypeOK, CollectorOK, DropSample, Window
    <3> QED
      BY <3>1, SeqMonotonic DEF TypeOK, TrainerOK
  <2>2. TrainerOK'
    BY <1>1, <2>1, TrainerFrame DEF DropSample
  <2>3. /\ seen \in Nat /\ live.samples \subseteq 1..(seen + 1) /\ live.hosts \subseteq Hosts
        /\ Cardinality(live.samples) < HardCap
        /\ Cardinality(live.hosts) <= Cardinality(live.samples)
        /\ cwin \in [Callers -> 0..Len(windows)]
    BY DEF TypeOK, CollectorOK
  <2>4. inFlight \in BOOLEAN
    BY DEF TypeOK, CollectorOK
  <2>5. /\ Observing(c) /\ seen' = seen + 1 /\ dropped' = dropped + 1 /\ lost' = lost + 1
        /\ UNCHANGED <<live, inFlight, cwin, reported, windows>>
    BY <1>1 DEF DropSample
  <2>6. CollectorOK'
    BY <2>3, <2>4, <2>5, ObserveFrame
  <2> QED
    BY <2>2, <2>5, <2>6 DEF TypeOK
<1>2. CASE Collect(c)
  <2>1. PICK h \in Hosts, diverse \in BOOLEAN :
           ~ShouldFire(WithSample(h), diverse) /\ live' = WithSample(h)
    BY <1>2 DEF Collect
  <2>2. windows \in Seq(Window')
    <3>1. Window \subseteq Window'
      BY <1>2 DEF TypeOK, CollectorOK, Collect, Window
    <3> QED
      BY <3>1, SeqMonotonic DEF TypeOK, TrainerOK
  <2>3. TrainerOK'
    BY <1>2, <2>2, TrainerFrame DEF Collect
  <2>4. Cardinality(live'.samples) < HardCap
    BY <2>1, OneMore, BaselineAssumption DEF BaselineAssumption, ShouldFire
  <2>5. /\ live'.samples \subseteq 1..(seen + 1) /\ live'.hosts \subseteq Hosts
        /\ Cardinality(live'.hosts) <= Cardinality(live'.samples) /\ IsFiniteSet(live'.hosts)
    BY <2>1, OneMore
  <2>6. /\ Observing(c) /\ seen' = seen + 1
        /\ UNCHANGED <<inFlight, dropped, cwin, lost, reported, windows>>
    BY <1>2 DEF Collect
  <2>7. cwin' \in [Callers -> 0..Len(windows')]
    BY <2>6 DEF TypeOK, CollectorOK
  <2>8. inFlight' \in BOOLEAN
    BY <2>6 DEF TypeOK, CollectorOK
  <2>9. CollectorOK'
    BY <2>4, <2>5, <2>6, <2>7, <2>8, ObserveFrame
  <2> QED
    BY <2>3, <2>5, <2>9 DEF TypeOK
<1>3. CASE Fire(c)
  <2>1. PICK h \in Hosts : /\ windows' = Append(windows, NewWindow(h)) /\ seen' = seen + 1
                           /\ live' = EmptyWindow
    BY <1>3 DEF Fire, NewWindow, NextWindow
  <2>2. /\ windows' \in Seq(Window') /\ Len(windows') = Len(windows) + 1
        /\ DOMAIN windows \subseteq DOMAIN windows'
    BY <2>1, FireAppends
  <2>3. TrainerOK'
    BY <1>3, <2>2, TrainerFrame DEF Fire
  <2>4. IsFiniteSet({}) /\ Cardinality({}) = 0
    BY FS_EmptySet
  <2>5. /\ live'.samples = {} /\ live'.hosts = {} /\ Cardinality(live'.samples) < HardCap
        /\ Cardinality(live'.hosts) <= Cardinality(live'.samples) /\ IsFiniteSet(live'.hosts)
    BY <2>1, <2>4, BaselineAssumption DEF BaselineAssumption, EmptyWindow
  <2>6. /\ Observing(c) /\ cwin' = [cwin EXCEPT ![c] = Len(windows) + 1] /\ inFlight' = TRUE
        /\ UNCHANGED <<dropped, lost, reported>>
    BY <1>3 DEF Fire
  <2>7. cwin \in [Callers -> 0..Len(windows)] /\ Len(windows) \in Nat
    BY WindowFacts DEF TypeOK, CollectorOK
  <2>8. cwin' \in [Callers -> 0..Len(windows')]
    BY <2>2, <2>6, <2>7
  <2>9. CollectorOK'
    BY <2>1, <2>5, <2>6, <2>8, ObserveFrame
  <2> QED
    BY <2>3, <2>5, <2>9 DEF TypeOK
<1>4. CASE CallerStep(c)
  <2>1. cwin[c] \in DOMAIN windows /\ cwin[c] \in Nat
    BY <1>4, WindowFacts DEF CallerStep, HandOff, HandOffFails, TypeOK, CollectorOK
  <2>2. OnlyWindow(cwin[c])
    BY <1>4, <2>1, StageMoves DEF CallerStep, HandOff, HandOffFails, Stages
  <2>3. UNCHANGED <<seen, live, dropped, lost, reported, gateVars, modelVars, restarts>>
        /\ cwin' = [cwin EXCEPT ![c] = 0] /\ inFlight' \in BOOLEAN
    BY <1>4 DEF CallerStep, HandOff, HandOffFails, TypeOK, CollectorOK
  <2>4. CollectorOK'
    BY <2>2, <2>3, WindowFacts, CollectorFrame DEF OnlyWindow, TypeOK, CollectorOK
  <2>5. Window' = Window
    BY <2>3 DEF Window
  <2>6. TrainerOK'
    BY <2>2, <2>3, <2>5, TrainerFrame DEF OnlyWindow
  <2> QED
    BY <2>3, <2>4, <2>6 DEF TypeOK
<1> QED
  BY <1>1, <1>2, <1>3, <1>4

(* The gate's deque, whatever it is rebuilt from. *)
LEMMA RememberType ==
    ASSUME NEW S, NEW s \in Seq(S), Len(s) <= RefWindows, NEW w \in S
    PROVE  Remember(s, w) \in Seq(S) /\ Len(Remember(s, w)) <= RefWindows
<1> DEFINE t == Append(s, w)
<1>1. t \in Seq(S) /\ Len(t) = Len(s) + 1 /\ Len(s) \in Nat /\ RefWindows \in Nat
  BY AppendProperties, LenProperties, BaselineAssumption DEF BaselineAssumption
<1>2. t # <<>>
  BY <1>1, EmptySeq
<1>3. Tail(t) \in Seq(S) /\ Len(Tail(t)) = Len(t) - 1
  BY <1>1, <1>2, HeadTailProperties
<1> QED
  BY <1>1, <1>3 DEF Remember

LEMMA TypeTrainer ==
    ASSUME TypeInv, NEW w, TrainerStep(w)
    PROVE  TypeInv'
<1> USE DEF TypeInv
<1>1. w \in DOMAIN windows /\ OnlyWindow(w) /\ UNCHANGED <<seen, live, cwin, lost, restarts>>
  BY TrainerMoves
<1>2. inFlight' \in BOOLEAN
  <2>1. inFlight \in BOOLEAN
    BY DEF TypeOK, CollectorOK
  <2> QED
    BY <2>1, TrainerMoves
<1>3. dropped' \in 0..dropped /\ reported' \in Nat
  <2>1. dropped \in Nat /\ reported \in Nat
    BY DEF TypeOK, CollectorOK
  <2>2. CASE Report(w)
    BY <2>1, <2>2 DEF Report
  <2>3. CASE UNCHANGED <<dropped, reported>>
    BY <2>1, <2>3
  <2> QED
    BY <2>2, <2>3
    DEF TrainerStep, Fit, FitFails, GateStable, GateReject, GateRegimeChange, Register,
        RegisterFails, Reload, ReloadFails, Resume, collectorVars
<1>4. CollectorOK'
  BY <1>1, <1>2, <1>3, CollectorFrame DEF OnlyWindow, TypeOK, CollectorOK
<1>5. /\ windows' \in Seq(Window') /\ DOMAIN windows' = DOMAIN windows
      /\ refs \in Seq(DOMAIN windows') /\ Len(refs) <= RefWindows
      /\ registry \in Seq(DOMAIN windows') /\ engine \in 0..Len(registry)
      /\ rejects \in 0..MaxRejects /\ restarts' \in 0..MaxRestarts
  BY <1>1 DEF OnlyWindow, Window, TypeOK, TrainerOK
<1>6. refs' \in Seq(DOMAIN windows') /\ Len(refs') <= RefWindows /\ rejects' \in 0..MaxRejects
  <2>1. CASE UNCHANGED <<refs, rejects>>
    BY <1>5, <2>1
  <2>2. CASE GateReject(w)
    <3>1. refs' = refs /\ rejects' = rejects + 1 /\ rejects < MaxRejects
      BY <2>2 DEF GateReject
    <3>2. rejects \in Nat /\ MaxRejects \in Nat
      BY BaselineAssumption DEF BaselineAssumption, TypeOK, TrainerOK
    <3>3. rejects' \in 0..MaxRejects
      BY <3>1, <3>2
    <3> QED
      BY <1>5, <3>1, <3>3
  <2>3. CASE GateStable(w) \/ GateRegimeChange(w)
    <3>1. PICK reference \in {refs, <<>>} : refs' = Remember(reference, w) /\ rejects' = 0
      BY <2>3 DEF GateStable, GateRegimeChange, Accept
    <3>2. <<>> \in Seq(DOMAIN windows') /\ Len(<<>>) <= RefWindows
      BY EmptySeq, BaselineAssumption DEF BaselineAssumption
    <3>3. reference \in Seq(DOMAIN windows') /\ Len(reference) <= RefWindows
      BY <1>5, <3>1, <3>2
    <3>4. refs' \in Seq(DOMAIN windows') /\ Len(refs') <= RefWindows
      BY <1>1, <1>5, <3>1, <3>3, RememberType
    <3> QED
      BY <3>1, <3>4, BaselineAssumption DEF BaselineAssumption
  <2> QED
    BY <2>1, <2>2, <2>3
    DEF TrainerStep, Fit, FitFails, Register, RegisterFails, Reload, ReloadFails, Report, Resume,
        gateVars
<1>7. registry' \in Seq(DOMAIN windows') /\ engine' \in 0..Len(registry')
  <2>1. CASE Register(w)
    <3>1. /\ Append(registry, w) \in Seq(DOMAIN windows')
          /\ Len(Append(registry, w)) = Len(registry) + 1 /\ Len(registry) \in Nat
      BY <1>1, <1>5, AppendProperties, WindowFacts
    <3> QED
      BY <1>5, <2>1, <3>1 DEF Register
  <2>2. CASE Reload(w)
    BY <1>5, <2>2, WindowFacts DEF Reload
  <2>3. CASE UNCHANGED modelVars
    BY <1>5, <2>3 DEF modelVars
  <2> QED
    BY <2>1, <2>2, <2>3
    DEF TrainerStep, Fit, FitFails, GateStable, GateReject, GateRegimeChange, RegisterFails,
        ReloadFails, Report, Resume
<1> QED
  BY <1>1, <1>4, <1>5, <1>6, <1>7 DEF TypeOK, TrainerOK

(* A restart leaves every window as it was, but for the stage. *)
LEMMA RestartWindows ==
    ASSUME TypeOK, Restart
    PROVE  /\ windows' \in Seq(Window) /\ Len(windows') = Len(windows)
           /\ DOMAIN windows' = DOMAIN windows
           /\ \A w \in DOMAIN windows : /\ windows'[w].stage = "done"
                                         /\ windows'[w].samples = windows[w].samples
                                         /\ windows'[w].verdict = windows[w].verdict
<1> DEFINE new(w) == [windows[w] EXCEPT !.stage = "done"]
<1>1. \A w \in DOMAIN windows : /\ new(w) \in Window /\ new(w).stage = "done"
                                /\ new(w).samples = windows[w].samples
                                /\ new(w).verdict = windows[w].verdict
  BY WindowFacts DEF Window, Stages
<1>2. windows' = [w \in DOMAIN windows |-> new(w)]
  BY DEF Restart
<1> HIDE DEF new
<1>3. windows' \in [1..Len(windows) -> Window] /\ Len(windows) \in Nat
  BY <1>1, <1>2, WindowFacts
<1>4. windows' \in Seq(Window) /\ Len(windows') = Len(windows)
  BY <1>3
<1> QED
  BY <1>1, <1>2, <1>4

LEMMA TypeRestart == ASSUME TypeInv, Restart PROVE TypeInv'
<1> USE DEF TypeInv
<1>1. /\ windows' \in Seq(Window') /\ Len(windows') = Len(windows)
      /\ DOMAIN windows' = DOMAIN windows /\ seen' = seen /\ Len(windows) \in Nat
  BY RestartWindows, WindowFacts DEF Restart, Window
<1>2. live'.samples = {} /\ live'.hosts = {} /\ IsFiniteSet({}) /\ Cardinality({}) = 0
  BY FS_EmptySet DEF Restart, EmptyWindow
<1>3. dropped' = 0 /\ lost' = 0 /\ reported' = 0
  BY DEF Restart
<1>4. inFlight' \in BOOLEAN
  BY Zenon DEF Restart
<1>5. cwin' \in [Callers -> 0..Len(windows')]
  BY <1>1 DEF Restart
<1>6. 0 < HardCap /\ seen \in 0..MaxSamples
  BY BaselineAssumption DEF BaselineAssumption, TypeOK, CollectorOK
<1>7. CollectorOK'
  BY <1>1, <1>2, <1>3, <1>4, <1>5, <1>6 DEF CollectorOK
<1>8. /\ refs' \in Seq(DOMAIN windows') /\ Len(refs') = 0
      /\ registry' \in Seq(DOMAIN windows') /\ engine' \in 0..Len(registry')
  <2>1. refs' = <<>> /\ registry' = registry /\ engine' \in {0, Len(registry)}
    BY DEF Restart
  <2>2. registry \in Seq(DOMAIN windows) /\ Len(registry) \in Nat
    BY WindowFacts DEF TypeOK, TrainerOK
  <2>3. <<>> \in Seq(DOMAIN windows) /\ Len(<<>>) = 0
    BY EmptySeq
  <2> QED
    BY <1>1, <2>1, <2>2, <2>3
<1>9. TrainerOK'
  <2>1. restarts' = restarts + 1 /\ restarts < MaxRestarts /\ rejects' = 0
    BY DEF Restart
  <2>2. restarts \in Nat /\ MaxRestarts \in Nat /\ MaxRejects \in Nat /\ RefWindows \in Nat
    BY BaselineAssumption DEF BaselineAssumption, TypeOK, TrainerOK
  <2>3. restarts' \in 0..MaxRestarts /\ rejects' \in 0..MaxRejects /\ 0 <= RefWindows
    BY <2>1, <2>2
  <2> QED
    BY <1>1, <1>8, <2>3 DEF TrainerOK
<1> QED
  BY <1>2, <1>7, <1>9 DEF TypeOK

LEMMA TypeStep == TypeInv /\ [Next]_vars => TypeInv'
<1> SUFFICES ASSUME TypeInv, [Next]_vars PROVE TypeInv'
  OBVIOUS
<1>1. CASE UNCHANGED vars
  BY <1>1
  DEF TypeInv, TypeOK, CollectorOK, TrainerOK, Window, vars, collectorVars, gateVars, modelVars
<1> QED
  BY <1>1, TypeCaller, TypeTrainer, TypeRestart DEF Next

LEMMA TypeInvariant == Spec => []TypeInv
BY TypeInit, TypeStep, PTL DEF Spec

(* Collector, trainer, registry and engine keep their types; the window that   *)
(* is being collected never reaches the hard cap.                              *)
THEOREM BaselineTypes == Spec => []TypeOK
<1>1. TypeInv => TypeOK
  BY DEF TypeInv
<1> QED
  BY <1>1, TypeInvariant, PTL

-----------------------------------------------------------------------------
(* One training run.  The strengthening: the flag is up as long as a window is  *)
(* under way, and a window on its way to the trainer is in one caller's hand.  *)

RunInv ==
    /\ \A v, w \in Running : v = w
    /\ Running # {} => inFlight = TRUE
    /\ \A c \in Callers : cwin[c] # 0 => windows[cwin[c]].stage = "handoff"
    /\ \A c, d \in Callers : cwin[c] # 0 /\ cwin[d] # 0 => c = d

(* The flag is down: nobody holds a window. *)
LEMMA EmptyHands ==
    ASSUME TypeOK, RunInv, inFlight # TRUE
    PROVE  Running = {} /\ \A c \in Callers : cwin[c] = 0
<1>1. Running = {}
  BY DEF RunInv
<1>2. \A c \in Callers : cwin[c] # 0 => cwin[c] \in Running
  BY WindowFacts DEF TypeOK, CollectorOK, RunInv, Running
<1> QED
  BY <1>1, <1>2

LEMMA RunStep ==
    ASSUME TypeOK, RunInv, [Next]_vars
    PROVE  RunInv'
<1>1. CASE \E c \in Callers : Fire(c)
  <2>1. PICK c \in Callers, h \in Hosts :
           /\ windows' = Append(windows, NewWindow(h)) /\ seen' = seen + 1
           /\ cwin' = [cwin EXCEPT ![c] = Len(windows) + 1] /\ inFlight' = TRUE /\ inFlight # TRUE
    BY <1>1 DEF Fire, NewWindow, Blocked
  <2>2. Running = {} /\ \A d \in Callers : cwin[d] = 0
    BY <2>1, EmptyHands
  <2>3. /\ DOMAIN windows' = DOMAIN windows \cup {Len(windows) + 1}
        /\ \A v \in DOMAIN windows : windows'[v] = windows[v]
        /\ windows'[Len(windows) + 1].stage = "handoff"
    BY <2>1, FireAppends DEF NewWindow
  <2>4. Running' = {Len(windows) + 1}
    BY <2>2, <2>3 DEF Running
  <2>5. \A d \in Callers : cwin'[d] = IF d = c THEN Len(windows) + 1 ELSE 0
    BY <2>1, <2>2 DEF TypeOK, CollectorOK
  <2> QED
    BY <2>1, <2>3, <2>4, <2>5 DEF RunInv
<1>2. CASE \E c \in Callers : CallerStep(c)
  <2>1. PICK c \in Callers : CallerStep(c)
    BY <1>2
  <2>2. cwin[c] # 0
    BY <2>1 DEF CallerStep, HandOff, HandOffFails
  <2> DEFINE w == cwin[c]
  <2>3. /\ w \in DOMAIN windows /\ OnlyWindow(w)
        /\ \/ Moved(w, "handoff", "training") /\ inFlight' = inFlight
           \/ Moved(w, "handoff", "done") /\ inFlight' = FALSE
        /\ cwin' = [cwin EXCEPT ![c] = 0]
    BY <2>1, <2>2, CallerMoves DEF RunInv
  <2>4. \A d \in Callers : cwin'[d] = 0
    BY <2>2, <2>3 DEF RunInv, TypeOK, CollectorOK
  <2>5. Running = {w} /\ inFlight = TRUE
    BY <2>3 DEF RunInv, Running, Moved
  <2>6. Running' = IF windows'[w].stage = "done" THEN {} ELSE {w}
    BY <2>3, <2>5 DEF Running, OnlyWindow
  <2> QED
    BY <2>3, <2>4, <2>5, <2>6 DEF RunInv, Moved
<1>3. CASE \E w \in DOMAIN windows : TrainerStep(w)
  <2>1. PICK w \in DOMAIN windows : TrainerStep(w)
    BY <1>3
  <2>2. /\ OnlyWindow(w) /\ Moves(w) /\ cwin' = cwin
        /\ inFlight' = IF windows'[w].stage = "done" THEN FALSE ELSE inFlight
    BY <2>1, TrainerMoves
  <2>3. windows[w].stage \notin {"handoff", "done"}
    BY <2>2 DEF Moves, Moved, Judged
  <2>4. Running = {w} /\ inFlight = TRUE
    BY <2>3 DEF RunInv, Running
  <2>5. Running' = IF windows'[w].stage = "done" THEN {} ELSE {w}
    BY <2>2, <2>4 DEF Running, OnlyWindow
  <2>6. \A c \in Callers : cwin[c] # 0 => cwin[c] \in DOMAIN windows /\ cwin[c] # w
    BY <2>3, WindowFacts DEF RunInv, TypeOK, CollectorOK
  <2> QED
    BY <2>2, <2>4, <2>5, <2>6 DEF RunInv, OnlyWindow
<1>4. CASE Restart
  <2>1. Running' = {}
    BY <1>4, RestartWindows DEF Running
  <2> QED
    BY <1>4, <2>1 DEF RunInv, Restart
<1>5. CASE UNCHANGED <<windows, cwin, inFlight>>
  BY <1>5 DEF RunInv, Running
<1> QED
  BY <1>1, <1>2, <1>3, <1>4, <1>5 DEF Next, vars, collectorVars, DropSample, Collect

LEMMA RunInvariant == Spec => []RunInv
<1>1. Init => RunInv
  BY DEF Init, RunInv, Running
<1>2. TypeInv /\ RunInv /\ [Next]_vars => RunInv'
  BY RunStep DEF TypeInv
<1> QED
  BY <1>1, <1>2, TypeInvariant, PTL DEF Spec

(* Whatever the callers, failures and restarts, at most one training run is in *)
(* flight, so that the gate's state, which no lock protects, has one writer.   *)
THEOREM OneTrainingHolds == Spec => []OneTraining
<1>1. RunInv => OneTraining
  <2> SUFFICES ASSUME RunInv PROVE OneTraining
    OBVIOUS
  <2>1. CASE Running = {}
    BY <2>1, FS_EmptySet DEF OneTraining
  <2>2. CASE Running # {}
    <3>1. PICK w : w \in Running
      BY <2>2
    <3>2. Running = {w}
      BY <3>1 DEF RunInv
    <3>3. Cardinality({w}) = 1
      BY FS_Singleton, Zenon
    <3>4. Cardinality(Running) = 1
      BY <3>2, <3>3
    <3> QED
      BY <3>4 DEF RunInv, OneTraining
  <2> QED
    BY <2>1, <2>2
<1> QED
  BY <1>1, RunInvariant, PTL

-----------------------------------------------------------------------------
(* No sample twice.  NoSampleTwice is inductive with the types: an observed     *)
(* sample is a new number, and only Fire hands a set of samples to a window.    *)

LEMMA SamplesFrame ==
    ASSUME NoSampleTwice, DOMAIN windows' = DOMAIN windows,
           \A w \in DOMAIN windows : windows'[w].samples = windows[w].samples,
           live'.samples \subseteq live.samples
    PROVE  NoSampleTwice'
BY DEF NoSampleTwice

LEMMA SamplesStep ==
    ASSUME TypeOK, RunInv, NoSampleTwice, [Next]_vars
    PROVE  NoSampleTwice'
<1>1. \A w \in DOMAIN windows : windows[w].samples \subseteq 1..seen
  BY WindowFacts DEF Window
<1>2. seen \in Nat /\ live.samples \subseteq 1..seen
  BY DEF TypeOK, CollectorOK
<1>3. seen + 1 \notin 1..seen
  BY <1>2
<1>4. CASE \E c \in Callers : Collect(c)
  <2>1. PICK h \in Hosts : live' = WithSample(h)
    BY <1>4 DEF Collect
  <2>2. live'.samples = live.samples \cup {seen + 1} /\ windows' = windows
    BY <1>4, <2>1 DEF Collect, WithSample
  <2> QED
    BY <1>1, <1>3, <2>2 DEF NoSampleTwice
<1>5. CASE \E c \in Callers : Fire(c)
  <2>1. PICK c \in Callers, h \in Hosts :
           windows' = Append(windows, NewWindow(h)) /\ seen' = seen + 1
           /\ live' = NextWindow(WithSample(h))
    BY <1>5 DEF Fire, NewWindow
  <2>2. live'.samples = {}
    BY <2>1 DEF NextWindow, EmptyWindow
  <2>3. /\ DOMAIN windows' = DOMAIN windows \cup {Len(windows) + 1}
        /\ Len(windows) + 1 \notin DOMAIN windows
        /\ \A v \in DOMAIN windows : windows'[v] = windows[v]
        /\ windows'[Len(windows) + 1].samples = live.samples \cup {seen + 1}
    BY <2>1, FireAppends DEF NewWindow, WithSample
  <2> QED
    BY <1>1, <1>3, <2>2, <2>3 DEF NoSampleTwice
<1>6. CASE \E c \in Callers : CallerStep(c)
  <2>1. PICK c \in Callers : CallerStep(c)
    BY <1>6
  <2>2. windows[cwin[c]].stage = "handoff"
    BY <2>1 DEF RunInv, CallerStep, HandOff, HandOffFails
  <2> QED
    BY <2>1, <2>2, CallerMoves, SamplesFrame DEF OnlyWindow, Moved
<1>7. CASE \E w \in DOMAIN windows : TrainerStep(w)
  <2>1. PICK w \in DOMAIN windows : TrainerStep(w)
    BY <1>7
  <2>2. OnlyWindow(w) /\ Moves(w) /\ live' = live
    BY <2>1, TrainerMoves
  <2>3. windows'[w].samples = windows[w].samples
    BY <2>2 DEF Moves, Moved, Judged
  <2> QED
    BY <2>2, <2>3, SamplesFrame DEF OnlyWindow
<1>8. CASE Restart
  <2>1. DOMAIN windows' = DOMAIN windows
        /\ \A w \in DOMAIN windows : windows'[w].samples = windows[w].samples
    BY <1>8, RestartWindows
  <2>2. live'.samples = {}
    BY <1>8 DEF Restart, EmptyWindow
  <2> QED
    BY <2>1, <2>2, SamplesFrame
<1>9. CASE UNCHANGED <<windows, live>>
  BY <1>9 DEF NoSampleTwice
<1> QED
  BY <1>4, <1>5, <1>6, <1>7, <1>8, <1>9 DEF Next, vars, collectorVars, DropSample

(* The windows that are trained on are disjoint, and the window being collected *)
(* holds no sample of an earlier one, whichever threads observe.                *)
THEOREM NoSampleTwiceHolds == Spec => []NoSampleTwice
<1>1. Init => NoSampleTwice
  BY DEF Init, NoSampleTwice
<1>2. TypeInv /\ RunInv /\ NoSampleTwice /\ [Next]_vars => NoSampleTwice'
  BY SamplesStep DEF TypeInv
<1> QED
  BY <1>1, <1>2, TypeInvariant, RunInvariant, PTL DEF Spec

-----------------------------------------------------------------------------
(* What is dropped is reported, and what is served was accepted.           *)

LEMMA ReportedStep ==
    ASSUME TypeOK, DroppedAreReported, [Next]_vars
    PROVE  DroppedAreReported'
<1>1. dropped \in Nat /\ lost \in Nat /\ reported \in Nat
  BY DEF TypeOK, CollectorOK
<1>2. CASE \E c \in Callers : DropSample(c)
  BY <1>1, <1>2 DEF DropSample, DroppedAreReported
<1>3. CASE \E w \in DOMAIN windows : Report(w)
  BY <1>1, <1>3 DEF Report, DroppedAreReported
<1>4. CASE Restart
  BY <1>4 DEF Restart, DroppedAreReported
<1>5. CASE UNCHANGED <<dropped, lost, reported>>
  BY <1>5 DEF DroppedAreReported
<1> QED
  BY <1>2, <1>3, <1>4, <1>5
  DEF Next, vars, collectorVars, Collect, Fire, CallerStep, HandOff, HandOffFails, TrainerStep,
      Fit, FitFails, GateStable, GateReject, GateRegimeChange, Register, RegisterFails, Reload,
      ReloadFails, Resume

(* Every sample dropped since the start is in the sum of the logged counts, or  *)
(* still in the counter, whatever fails in the two-step end of a training run.  *)
THEOREM DroppedAreReportedHolds == Spec => []DroppedAreReported
<1>1. Init => DroppedAreReported
  BY DEF Init, DroppedAreReported
<1>2. TypeInv /\ DroppedAreReported /\ [Next]_vars => DroppedAreReported'
  BY ReportedStep DEF TypeInv
<1> QED
  BY <1>1, <1>2, TypeInvariant, PTL DEF Spec

(* The strengthening: the gate has accepted every window past it, and so every  *)
(* registered version, whichever of them a reload or a restart picks.           *)
GateInv ==
    /\ \A w \in DOMAIN windows :
          windows[w].stage \in {"accepted", "registered"} => windows[w].verdict \in Accepted
    /\ \A w \in DOMAIN windows : windows[w].stage \in {"handoff", "training", "fitted"} =>
          windows[w].verdict = "none"
    /\ \A i \in 1..Len(registry) : windows[registry[i]].verdict \in Accepted

(* A step of window w that keeps its verdict, once it has one. *)
LEMMA GateFrame ==
    ASSUME TypeOK, GateInv, NEW w \in DOMAIN windows, OnlyWindow(w), registry' = registry,
           Moves(w) \/ Moved(w, "handoff", "training") \/ Moved(w, "handoff", "done")
    PROVE  GateInv'
<1>1. windows[w].verdict \in Accepted => windows'[w].verdict \in Accepted
  BY DEF GateInv, Moves, Moved, Judged, Accepted
<1>2. \A v \in DOMAIN windows :
         windows[v].verdict \in Accepted => windows'[v].verdict \in Accepted
  BY <1>1 DEF OnlyWindow
<1>3. \A i \in 1..Len(registry') : windows'[registry'[i]].verdict \in Accepted
  BY <1>2, WindowFacts DEF GateInv
<1>4. /\ windows'[w].stage \in {"accepted", "registered"} => windows'[w].verdict \in Accepted
      /\ windows'[w].stage \in {"handoff", "training", "fitted"} => windows'[w].verdict = "none"
  BY DEF GateInv, Moves, Moved, Judged
<1> QED
  BY <1>3, <1>4 DEF GateInv, OnlyWindow

LEMMA GateStep ==
    ASSUME TypeOK, RunInv, GateInv, [Next]_vars
    PROVE  GateInv'
<1>1. CASE \E c \in Callers : Fire(c)
  <2>1. PICK c \in Callers, h \in Hosts :
           windows' = Append(windows, NewWindow(h)) /\ seen' = seen + 1 /\ registry' = registry
    BY <1>1 DEF Fire, NewWindow, modelVars
  <2>2. /\ DOMAIN windows' = DOMAIN windows \cup {Len(windows) + 1}
        /\ \A v \in DOMAIN windows : windows'[v] = windows[v]
        /\ windows'[Len(windows) + 1].stage = "handoff"
        /\ windows'[Len(windows) + 1].verdict = "none"
    BY <2>1, FireAppends DEF NewWindow
  <2> QED
    BY <2>1, <2>2, WindowFacts DEF GateInv
<1>2. CASE \E c \in Callers : CallerStep(c)
  <2>1. PICK c \in Callers : CallerStep(c)
    BY <1>2
  <2>2. windows[cwin[c]].stage = "handoff"
    BY <2>1 DEF RunInv, CallerStep, HandOff, HandOffFails
  <2> QED
    BY <2>1, <2>2, CallerMoves, GateFrame DEF modelVars
<1>3. CASE \E w \in DOMAIN windows : TrainerStep(w) /\ ~Register(w)
  <2>1. PICK w \in DOMAIN windows : TrainerStep(w) /\ ~Register(w)
    BY <1>3
  <2>2. registry' = registry
    BY <2>1 DEF TrainerStep, modelVars, Fit, FitFails, GateStable, GateReject, GateRegimeChange,
               RegisterFails, Reload, ReloadFails, Report, Resume
  <2> QED
    BY <2>1, <2>2, TrainerMoves, GateFrame
<1>4. CASE \E w \in DOMAIN windows : Register(w)
  <2>1. PICK w \in DOMAIN windows : Register(w)
    BY <1>4
  <2>2. OnlyWindow(w) /\ Moved(w, "accepted", "registered")
    BY <2>1, StageMoves DEF Register, At, Stages
  <2>3. windows'[w].verdict \in Accepted /\ windows'[w].stage = "registered"
    BY <2>2 DEF GateInv, Moved
  <2>4. \A v \in DOMAIN windows : windows'[v].verdict = windows[v].verdict
    BY <2>2 DEF OnlyWindow, Moved
  <2>5. registry' = Append(registry, w) /\ registry \in Seq(DOMAIN windows)
    BY <2>1 DEF Register, TypeOK, TrainerOK
  <2>6. /\ Len(registry') = Len(registry) + 1
        /\ \A i \in 1..Len(registry) : registry'[i] = registry[i]
        /\ registry'[Len(registry) + 1] = w
    BY <2>5, AppendProperties
  <2>7. \A i \in 1..Len(registry') : windows'[registry'[i]].verdict \in Accepted
    BY <2>3, <2>4, <2>6, WindowFacts DEF GateInv
  <2> QED
    BY <2>2, <2>3, <2>7 DEF GateInv, OnlyWindow
<1>5. CASE Restart
  <2>1. registry' = registry
    BY <1>5 DEF Restart
  <2>2. /\ DOMAIN windows' = DOMAIN windows
        /\ \A w \in DOMAIN windows : /\ windows'[w].stage = "done"
                                     /\ windows'[w].verdict = windows[w].verdict
    BY <1>5, RestartWindows
  <2>3. \A i \in 1..Len(registry') : windows'[registry'[i]].verdict \in Accepted
    BY <2>1, <2>2, WindowFacts DEF GateInv
  <2> QED
    BY <2>2, <2>3 DEF GateInv
<1>6. CASE UNCHANGED <<windows, registry>>
  BY <1>6 DEF GateInv
<1> QED
  BY <1>1, <1>2, <1>3, <1>4, <1>5, <1>6 DEF Next, vars, modelVars, DropSample, Collect

(* The version that the engine serves is one that the gate accepted, across     *)
(* registrations and reloads that fail and restarts that load an old version.   *)
THEOREM ServedIsAcceptedHolds == Spec => []ServedIsAccepted
<1>1. Init => GateInv
  BY DEF Init, GateInv
<1>2. TypeInv /\ RunInv /\ GateInv /\ [Next]_vars => GateInv'
  BY GateStep DEF TypeInv
<1>3. TypeInv /\ GateInv => ServedIsAccepted
  <2> SUFFICES ASSUME TypeInv, GateInv, engine # 0
                PROVE  windows[registry[engine]].verdict \in Accepted
    BY DEF ServedIsAccepted
  <2>1. engine \in 1..Len(registry)
    BY WindowFacts DEF TypeInv, TypeOK, TrainerOK
  <2> QED
    BY <2>1 DEF GateInv
<1> QED
  BY <1>1, <1>2, <1>3, TypeInvariant, RunInvariant, PTL DEF Spec

-----------------------------------------------------------------------------
(* The verdicts of the gate.                                               *)

(* GateVerdicts counts the rejections just before position i of a sequence. *)
RejectedBefore(s, i) == {j \in 1..(i - 1) : \A k \in j..(i - 1) : s[k] = "rejected"}

(* The strengthening: the counter of the gate is the length of the run of      *)
(* rejections that the verdicts end with.                                      *)
VerdictsInv ==
    /\ verdicts \in Seq(Accepted \cup {"rejected"})
    /\ rejects \in 0..Len(verdicts)
    /\ \A k \in (Len(verdicts) - rejects + 1)..Len(verdicts) : verdicts[k] = "rejected"
    /\ rejects < Len(verdicts) => verdicts[Len(verdicts) - rejects] # "rejected"

(* The gate speaks: it promotes or it rejects, in the way that its counter says. *)
Says(v) ==
    /\ v \in Accepted \cup {"rejected"}
    /\ verdicts' = Append(verdicts, v)
    /\ v = "regime" => rejects = MaxRejects
    /\ v = "rejected" => rejects < MaxRejects
    /\ rejects' = IF v = "rejected" THEN rejects + 1 ELSE 0

LEMMA GateSays ==
    ASSUME TypeOK, NEW w, Gate(w)
    PROVE  \E v : Says(v)
<1>1. rejects \in Nat /\ MaxRejects \in Nat /\ rejects <= MaxRejects
  BY BaselineAssumption DEF BaselineAssumption, TypeOK, TrainerOK
<1>2. CASE GateStable(w)
  BY <1>2 DEF GateStable, Accept, Says, Accepted
<1>3. CASE GateReject(w)
  BY <1>3 DEF GateReject, Says
<1>4. CASE GateRegimeChange(w)
  BY <1>1, <1>4 DEF GateRegimeChange, Accept, Says, Accepted
<1> QED
  BY <1>2, <1>3, <1>4 DEF Gate

(* The counter counts what GateVerdicts counts. *)
LEMMA CounterCounts ==
    ASSUME VerdictsInv
    PROVE  Cardinality(RejectedBefore(verdicts, Len(verdicts) + 1)) = rejects
<1>1. Len(verdicts) \in Nat /\ rejects \in Nat /\ rejects <= Len(verdicts)
  BY LenProperties DEF VerdictsInv
<1>2. RejectedBefore(verdicts, Len(verdicts) + 1) = (Len(verdicts) - rejects + 1)..Len(verdicts)
  <2>1. ASSUME NEW j \in 1..Len(verdicts),
               \A k \in j..Len(verdicts) : verdicts[k] = "rejected"
        PROVE  j \in (Len(verdicts) - rejects + 1)..Len(verdicts)
    <3> SUFFICES ASSUME j <= Len(verdicts) - rejects
                  PROVE  FALSE
      BY <1>1
    <3> QED
      BY <1>1, <2>1 DEF VerdictsInv
  <2>2. ASSUME NEW j \in (Len(verdicts) - rejects + 1)..Len(verdicts)
        PROVE  j \in 1..Len(verdicts) /\ \A k \in j..Len(verdicts) : verdicts[k] = "rejected"
    BY <1>1 DEF VerdictsInv
  <2> QED
    BY <1>1, <2>1, <2>2 DEF RejectedBefore
<1>3. Cardinality((Len(verdicts) - rejects + 1)..Len(verdicts)) = rejects
  BY <1>1, FS_Interval
<1> QED
  BY <1>2, <1>3

LEMMA VerdictsGrow ==
    ASSUME VerdictsInv, NEW v, Says(v)
    PROVE  /\ verdicts' \in Seq(Accepted \cup {"rejected"})
           /\ Len(verdicts) \in Nat /\ Len(verdicts') = Len(verdicts) + 1
           /\ DOMAIN verdicts = 1..Len(verdicts) /\ DOMAIN verdicts' = 1..(Len(verdicts) + 1)
           /\ \A i \in 1..Len(verdicts) : verdicts'[i] = verdicts[i]
           /\ verdicts'[Len(verdicts) + 1] = v
<1>1. verdicts \in Seq(Accepted \cup {"rejected"}) /\ v \in Accepted \cup {"rejected"}
      /\ verdicts' = Append(verdicts, v)
  BY DEF VerdictsInv, Says
<1>2. /\ verdicts' \in Seq(Accepted \cup {"rejected"})
      /\ Len(verdicts') = Len(verdicts) + 1
      /\ \A i \in 1..Len(verdicts) : verdicts'[i] = verdicts[i]
      /\ verdicts'[Len(verdicts) + 1] = v
  BY <1>1, AppendProperties
<1> QED
  BY <1>1, <1>2, LenProperties

(* The positions before a verdict keep theirs when another one is appended. *)
LEMMA EarlierRuns ==
    ASSUME VerdictsInv, NEW v, Says(v), NEW i \in 1..(Len(verdicts) + 1)
    PROVE  RejectedBefore(verdicts', i) = RejectedBefore(verdicts, i)
<1>1. Len(verdicts) \in Nat /\ \A k \in 1..Len(verdicts) : verdicts'[k] = verdicts[k]
  BY VerdictsGrow
<1>2. \A k \in 1..(i - 1) : verdicts'[k] = verdicts[k]
  BY <1>1
<1>3. \A j \in 1..(i - 1) : \A k \in j..(i - 1) : verdicts'[k] = verdicts[k]
  BY <1>2
<1> QED
  BY <1>3 DEF RejectedBefore

LEMMA VerdictsSaid ==
    ASSUME VerdictsInv, GateVerdicts, NEW v, Says(v)
    PROVE  VerdictsInv' /\ GateVerdicts'
<1>1. /\ verdicts' \in Seq(Accepted \cup {"rejected"})
      /\ Len(verdicts) \in Nat /\ Len(verdicts') = Len(verdicts) + 1
      /\ DOMAIN verdicts = 1..Len(verdicts) /\ DOMAIN verdicts' = 1..(Len(verdicts) + 1)
      /\ \A i \in 1..Len(verdicts) : verdicts'[i] = verdicts[i]
      /\ verdicts'[Len(verdicts) + 1] = v
  BY VerdictsGrow
<1>2. VerdictsInv'
  <2>1. CASE v = "rejected"
    <3>1. rejects' = rejects + 1 /\ rejects \in 0..Len(verdicts)
      BY <2>1 DEF Says, VerdictsInv
    <3>2. \A k \in (Len(verdicts') - rejects' + 1)..Len(verdicts') : verdicts'[k] = "rejected"
      BY <1>1, <2>1, <3>1 DEF VerdictsInv
    <3>3. rejects' < Len(verdicts') => verdicts'[Len(verdicts') - rejects'] # "rejected"
      BY <1>1, <3>1 DEF VerdictsInv
    <3> QED
      BY <1>1, <3>1, <3>2, <3>3 DEF VerdictsInv
  <2>2. CASE v # "rejected"
    <3>1. rejects' = 0
      BY <2>2 DEF Says
    <3> QED
      BY <1>1, <2>2, <3>1 DEF VerdictsInv
  <2> QED
    BY <2>1, <2>2
<1>3. ASSUME NEW i \in DOMAIN verdicts'
      PROVE  /\ verdicts'[i] = "regime" => Cardinality(RejectedBefore(verdicts', i)) = MaxRejects
             /\ verdicts'[i] = "rejected" => Cardinality(RejectedBefore(verdicts', i)) < MaxRejects
  <2>1. i \in 1..(Len(verdicts) + 1)
    BY <1>1
  <2>2. RejectedBefore(verdicts', i) = RejectedBefore(verdicts, i)
    BY <2>1, EarlierRuns
  <2>3. CASE i = Len(verdicts) + 1
    BY <1>1, <2>2, <2>3, CounterCounts DEF Says
  <2>4. CASE i \in DOMAIN verdicts
    BY <1>1, <2>2, <2>4 DEF GateVerdicts, RejectedBefore
  <2> QED
    BY <1>1, <2>1, <2>3, <2>4
<1>4. GateVerdicts'
  BY <1>3 DEF GateVerdicts, RejectedBefore
<1> QED
  BY <1>2, <1>4

LEMMA VerdictsStep ==
    ASSUME TypeOK, VerdictsInv, GateVerdicts, [Next]_vars
    PROVE  VerdictsInv' /\ GateVerdicts'
<1>1. CASE \E w \in DOMAIN windows : Gate(w)
  BY <1>1, GateSays, VerdictsSaid
<1>2. CASE Restart
  <2>1. verdicts' = <<>> /\ rejects' = 0
    BY <1>2 DEF Restart
  <2>2. <<>> \in Seq(Accepted \cup {"rejected"}) /\ Len(<<>>) = 0 /\ DOMAIN <<>> = 1..0
    BY EmptySeq, LenProperties
  <2>3. DOMAIN verdicts' = {}
    BY <2>1, <2>2
  <2>4. GateVerdicts'
    BY <2>3 DEF GateVerdicts
  <2> QED
    BY <2>1, <2>2, <2>4 DEF VerdictsInv
<1>3. CASE UNCHANGED <<verdicts, rejects>>
  BY <1>3 DEF VerdictsInv, GateVerdicts
<1> QED
  BY <1>1, <1>2, <1>3
  DEF Next, vars, gateVars, DropSample, Collect, Fire, CallerStep, HandOff, HandOffFails,
      TrainerStep, Gate, Fit, FitFails, Register, RegisterFails, Reload, ReloadFails, Report,
      Resume

(* A window outside the range of the gate is promoted after exactly MaxRejects  *)
(* rejections in a row, and no rejection follows those: however the verdicts    *)
(* fall, no change of regime is ignored for longer and no outlier gets in sooner. *)
THEOREM GateVerdictsHold == Spec => []GateVerdicts
<1>1. Init => VerdictsInv /\ GateVerdicts
  <2> SUFFICES ASSUME Init PROVE VerdictsInv /\ GateVerdicts
    OBVIOUS
  <2>1. verdicts = <<>> /\ rejects = 0
    BY DEF Init
  <2>2. <<>> \in Seq(Accepted \cup {"rejected"}) /\ Len(<<>>) = 0 /\ DOMAIN <<>> = 1..0
    BY EmptySeq, LenProperties
  <2>3. DOMAIN verdicts = {}
    BY <2>1, <2>2
  <2>4. GateVerdicts
    BY <2>3 DEF GateVerdicts
  <2> QED
    BY <2>1, <2>2, <2>4 DEF VerdictsInv
<1>2. TypeInv /\ VerdictsInv /\ GateVerdicts /\ [Next]_vars => VerdictsInv' /\ GateVerdicts'
  BY VerdictsStep DEF TypeInv
<1> QED
  BY <1>1, <1>2, TypeInvariant, PTL DEF Spec
=============================================================================
