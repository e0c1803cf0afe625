------------------------- MODULE StoresProofs -------------------------
(* Proofs about the services of Stores, for any constants. *)
EXTENDS Stores, Functions, FiniteSetTheorems, SequenceTheorems, WellFoundedInduction, TLAPS

-----------------------------------------------------------------------------
(* Intel: one thread refreshes the threat intelligence.                      *)

LEMMA IntelCardinality == ASSUME NEW S PROVE Intel!Cardinality(S) = Cardinality(S)
BY DEF Intel!Cardinality, Cardinality, Intel!IsFiniteSet, IsFiniteSet

RefreshTypes ==
    /\ looker \in [Lookers -> {"idle", "refreshing", "lookup"}]
    /\ stage \in [Intel!Threads -> {"none", "abuse", "ja3", "misp", "end"}]
    /\ storeLock \in Intel!Threads \cup {NoThread} /\ intelLock \in Lookers \cup {NoThread}
    /\ store \in BOOLEAN /\ leaked \in BOOLEAN

(* Before there is a store nobody is in it. *)
Before ==
    store = FALSE => /\ storeLock = NoThread /\ leaked = FALSE
                     /\ \A t \in Intel!Threads : stage[t] = "none"
                     /\ \A c \in Lookers : looker[c] = "idle"

(* The lock names the thread that refreshes; when a thread failed to start, nobody *)
(* refreshes and the lock stays taken.                                              *)
LockInv ==
    /\ \A t \in Intel!Threads : stage[t] # "none" => storeLock = t /\ leaked = FALSE
    /\ storeLock # NoThread /\ leaked = FALSE => stage[storeLock] # "none"
    /\ leaked = TRUE => storeLock # NoThread

(* The first refresh runs under _intel_lock, before anybody has looked anything up. *)
FirstInv ==
    \A t \in Lookers : stage[t] # "none" => /\ intelLock = t /\ looker[t] = "refreshing"
                                            /\ \A c \in Lookers : looker[c] # "lookup"

RefreshInv == RefreshTypes /\ Before /\ LockInv /\ FirstInv

LEMMA StagesAre ==
    /\ Intel!After("abuse") = "ja3" /\ Intel!After("ja3") = "misp" /\ Intel!After("misp") = "end"
BY DEF Intel!After

LEMMA RefreshInit == Intel!Init => RefreshInv
<1> SUFFICES ASSUME Intel!Init PROVE RefreshInv
  OBVIOUS
<1>1. /\ store = FALSE /\ leaked = FALSE /\ storeLock = NoThread /\ intelLock = NoThread
      /\ looker = [c \in Lookers |-> "idle"] /\ stage = [t \in Intel!Threads |-> "none"]
  BY DEF Intel!Init
<1>2. RefreshTypes
  BY <1>1 DEF RefreshTypes
<1>3. Before /\ LockInv /\ FirstInv
  <2>1. /\ \A c \in Lookers : c \in Intel!Threads /\ looker[c] = "idle"
        /\ \A t \in Intel!Threads : stage[t] = "none"
    BY <1>1 DEF Intel!Threads
  <2> QED
    BY <1>1, <2>1 DEF Before, LockInv, FirstInv
<1> QED
  BY <1>2, <1>3 DEF RefreshInv

(* A thread that has a feed to fetch goes on to the next one. *)
Fetches(t) ==
    /\ stage[t] \in {"abuse", "ja3", "misp"}
    /\ \E next \in {"ja3", "misp", "end"} : stage' = [stage EXCEPT ![t] = next]
    /\ UNCHANGED <<store, looker, intelLock, storeLock, leaked>>

LEMMA FetchSteps ==
    ASSUME NEW t \in Intel!Threads, Intel!FetchAbuse(t) \/ Intel!FetchJa3(t) \/ Intel!FetchMisp(t)
    PROVE  Fetches(t)
BY StagesAre DEF Intel!FetchAbuse, Intel!FetchJa3, Intel!FetchMisp, Fetches

LEMMA RefreshStep ==
    ASSUME RefreshInv, [Intel!Next]_(Intel!intelVars)
    PROVE  RefreshInv'
<1> USE DEF RefreshInv
<1>0. /\ Lookers \subseteq Intel!Threads /\ Refreshers \subseteq Intel!Threads
      /\ \A t \in Intel!Threads : t # NoThread
  BY IntelAssumption DEF Intel!Threads
<1>1. CASE UNCHANGED <<store, looker, intelLock, storeLock, stage, leaked>>
  BY <1>1 DEF RefreshTypes, Before, LockInv, FirstInv
<1>2. ASSUME NEW c \in Lookers, Intel!CreateStore(c)
      PROVE  RefreshInv'
  <2>1. /\ store' = TRUE /\ intelLock' = c /\ storeLock' = c /\ leaked' = leaked
        /\ looker' = [looker EXCEPT ![c] = "refreshing"] /\ stage' = [stage EXCEPT ![c] = "abuse"]
        /\ store = FALSE
    BY <1>2 DEF Intel!CreateStore, RefreshTypes
  <2>2. /\ leaked = FALSE /\ \A t \in Intel!Threads : stage[t] = "none"
        /\ \A d \in Lookers : looker[d] = "idle"
    BY <2>1 DEF Before
  <2>3. /\ \A t \in Intel!Threads : stage'[t] = IF t = c THEN "abuse" ELSE "none"
        /\ \A d \in Lookers : looker'[d] = IF d = c THEN "refreshing" ELSE "idle"
    BY <1>0, <2>1, <2>2 DEF RefreshTypes
  <2>4. RefreshTypes'
    BY <1>0, <2>1 DEF RefreshTypes
  <2> QED
    BY <1>0, <2>1, <2>2, <2>3, <2>4 DEF Before, LockInv, FirstInv
<1>3. ASSUME NEW c \in Lookers, Intel!UseStore(c)
      PROVE  RefreshInv'
  <2>1. /\ looker' = [looker EXCEPT ![c] = "lookup"] /\ intelLock = NoThread /\ store = TRUE
        /\ UNCHANGED <<store, intelLock, storeLock, stage, leaked>>
    BY <1>3 DEF Intel!UseStore, Intel!Found, RefreshTypes
  <2>2. \A t \in Lookers : stage[t] = "none"
    BY <1>0, <2>1 DEF FirstInv
  <2>3. RefreshTypes'
    BY <2>1 DEF RefreshTypes
  <2> QED
    BY <2>1, <2>2, <2>3 DEF Before, LockInv, FirstInv
<1>4. ASSUME NEW c \in Lookers, NEW t \in Refreshers, Intel!Spawn(c, t)
      PROVE  RefreshInv'
  <2>1. /\ looker' = [looker EXCEPT ![c] = "lookup"] /\ intelLock = NoThread /\ store = TRUE
        /\ storeLock = NoThread /\ storeLock' = t /\ stage' = [stage EXCEPT ![t] = "abuse"]
        /\ UNCHANGED <<store, intelLock, leaked>>
    BY <1>4 DEF Intel!Spawn, Intel!Found, Intel!MaySpawn, RefreshTypes
  <2>2. /\ \A u \in Intel!Threads : stage[u] = "none"
        /\ leaked = FALSE
    BY <1>0, <2>1 DEF LockInv, RefreshTypes
  <2>3. \A u \in Intel!Threads : stage'[u] = IF u = t THEN "abuse" ELSE "none"
    BY <1>0, <2>1, <2>2 DEF RefreshTypes
  <2>4. RefreshTypes' /\ t \notin Lookers
    BY <1>0, <2>1, IntelAssumption DEF RefreshTypes
  <2> QED
    BY <1>0, <2>1, <2>2, <2>3, <2>4 DEF Before, LockInv, FirstInv
<1>5. ASSUME NEW c \in Lookers, Intel!SpawnFails(c)
      PROVE  RefreshInv'
  <2>1. /\ storeLock = NoThread /\ storeLock' = c /\ leaked' = TRUE /\ store = TRUE
        /\ UNCHANGED <<store, looker, intelLock, stage>>
    BY <1>5 DEF Intel!SpawnFails, Intel!Found, Intel!MaySpawn, RefreshTypes
  <2>2. \A u \in Intel!Threads : stage[u] = "none"
    BY <1>0, <2>1 DEF LockInv
  <2>3. RefreshTypes'
    BY <1>0, <2>1 DEF RefreshTypes
  <2> QED
    BY <1>0, <2>1, <2>2, <2>3 DEF Before, LockInv, FirstInv
<1>6. ASSUME NEW c \in Lookers, Intel!Lookup(c)
      PROVE  RefreshInv'
  <2>1. /\ looker' = [looker EXCEPT ![c] = "idle"] /\ looker[c] = "lookup"
        /\ UNCHANGED <<store, intelLock, storeLock, stage, leaked>>
    BY <1>6 DEF Intel!Lookup
  <2>2. RefreshTypes' /\ \A d \in Lookers : looker'[d] = IF d = c THEN "idle" ELSE looker[d]
    BY <2>1 DEF RefreshTypes
  <2> QED
    BY <2>1, <2>2 DEF Before, LockInv, FirstInv
<1>7. ASSUME NEW t \in Intel!Threads, Fetches(t)
      PROVE  RefreshInv'
  <2>1. PICK next \in {"ja3", "misp", "end"} : stage' = [stage EXCEPT ![t] = next]
    BY <1>7 DEF Fetches
  <2>2. /\ \A u \in Intel!Threads : stage'[u] = IF u = t THEN next ELSE stage[u]
        /\ stage[t] # "none" /\ UNCHANGED <<store, looker, intelLock, storeLock, leaked>>
    BY <1>7, <2>1 DEF Fetches, RefreshTypes
  <2>3. RefreshTypes'
    BY <2>1, <2>2 DEF RefreshTypes
  <2> QED
    BY <1>0, <2>2, <2>3 DEF Before, LockInv, FirstInv, RefreshTypes
<1>8. ASSUME NEW t \in Intel!Threads, Intel!EndRefresh(t)
      PROVE  RefreshInv'
  <2>1. /\ stage[t] = "end" /\ stage' = [stage EXCEPT ![t] = "none"] /\ storeLock' = NoThread
        /\ UNCHANGED <<store, leaked>>
        /\ t \in Lookers => intelLock' = NoThread /\ looker' = [looker EXCEPT ![t] = "lookup"]
        /\ t \notin Lookers => UNCHANGED <<intelLock, looker>>
    BY <1>8 DEF Intel!EndRefresh
  <2>2. /\ \A u \in Intel!Threads : u # t => stage[u] = "none"
        /\ leaked = FALSE /\ store = TRUE
    BY <2>1 DEF LockInv, Before, RefreshTypes
  <2>3. \A u \in Intel!Threads : stage'[u] = "none"
    BY <2>1, <2>2 DEF RefreshTypes
  <2>4. RefreshTypes'
    BY <1>0, <2>1 DEF RefreshTypes
  <2> QED
    BY <1>0, <2>1, <2>2, <2>3, <2>4 DEF Before, LockInv, FirstInv
<1>9. CASE Intel!PassTime \/ UNCHANGED Intel!intelVars
  BY <1>1, <1>9 DEF Intel!PassTime, Intel!intelVars
<1> QED
  BY <1>2, <1>3, <1>4, <1>5, <1>6, <1>7, <1>8, <1>9, FetchSteps DEF Intel!Next, Intel!Refresh

(* However many threads look indicators up while the store is created or stale,   *)
(* at most one refreshes it, the lock is held just as long, and nobody looks        *)
(* anything up before the first refresh is over.                                    *)
THEOREM OneRefreshHolds == Intel!Spec => []Intel!OneRefresh
<1>1. RefreshInv /\ [Intel!Next]_(Intel!intelVars) => RefreshInv'
  BY RefreshStep
<1>2. RefreshInv => Intel!OneRefresh
  <2> SUFFICES ASSUME RefreshInv PROVE Intel!OneRefresh
    OBVIOUS
  <2> USE DEF RefreshInv
  <2> DEFINE refreshing == {t \in Intel!Threads : stage[t] # "none"}
  <2>1. refreshing = {} \/ refreshing = {storeLock}
    BY DEF LockInv
  <2>2. Cardinality(refreshing) <= 1
    <3>1. CASE refreshing = {}
      BY <3>1, FS_EmptySet
    <3>2. CASE refreshing = {storeLock}
      <4>1. Cardinality({storeLock}) = 1
        BY FS_Singleton
      <4> HIDE DEF refreshing
      <4> QED
        BY <3>2, <4>1
    <3> QED
      BY <2>1, <3>1, <3>2
  <2>3. leaked = TRUE => refreshing = {}
    BY DEF LockInv
  <2>4. leaked = FALSE => (storeLock # NoThread <=> refreshing # {})
    BY IntelAssumption DEF LockInv, RefreshTypes
  <2>5. (\E t \in refreshing : t \in Lookers) => \A c \in Lookers : looker[c] # "lookup"
    BY DEF FirstInv
  <2> QED
    BY <2>2, <2>3, <2>4, <2>5, IntelCardinality DEF Intel!OneRefresh, RefreshTypes
<1> QED
  BY <1>1, <1>2, RefreshInit, PTL DEF Intel!Spec

(* Only the fetches of AbuseIPDB and MISP touch the set, and each keeps it what the *)
(* feeds last said: it is inductive by itself.                                      *)
LEMMA IndicatorsStep ==
    ASSUME Intel!IndicatorsKept, [Intel!Next]_(Intel!intelVars)
    PROVE  Intel!IndicatorsKept'
<1> USE DEF Intel!IndicatorsKept
<1>1. ASSUME NEW t \in Intel!Threads, Intel!FetchAbuse(t)
      PROVE  Intel!IndicatorsKept'
  BY <1>1 DEF Intel!FetchAbuse
<1>2. ASSUME NEW t \in Intel!Threads, Intel!FetchMisp(t)
      PROVE  Intel!IndicatorsKept'
  BY <1>2 DEF Intel!FetchMisp
<1>3. ASSUME NEW t \in Intel!Threads, Intel!FetchJa3(t) \/ Intel!EndRefresh(t)
      PROVE  Intel!IndicatorsKept'
  BY <1>3 DEF Intel!FetchJa3, Intel!EndRefresh
<1>4. ASSUME NEW c \in Lookers,
             \/ Intel!CreateStore(c) \/ Intel!UseStore(c) \/ Intel!SpawnFails(c) \/ Intel!Lookup(c)
             \/ \E t \in Refreshers : Intel!Spawn(c, t)
      PROVE  Intel!IndicatorsKept'
  BY <1>4 DEF Intel!CreateStore, Intel!UseStore, Intel!SpawnFails, Intel!Lookup, Intel!Spawn, Intel!setVars
<1>5. CASE Intel!PassTime \/ UNCHANGED Intel!intelVars
  BY <1>5 DEF Intel!PassTime, Intel!intelVars, Intel!setVars
<1> QED
  BY <1>1, <1>2, <1>3, <1>4, <1>5 DEF Intel!Next, Intel!Refresh

(* Whichever feeds answer, the set is at every step what AbuseIPDB last listed and *)
(* what MISP listed since.                                                         *)
THEOREM IndicatorsKeptHolds == Intel!Spec => []Intel!IndicatorsKept
<1>1. Intel!Init => Intel!IndicatorsKept
  BY DEF Intel!Init, Intel!IndicatorsKept
<1> QED
  BY <1>1, IndicatorsStep, PTL DEF Intel!Spec

(* Together: whatever fails and whoever looks, one thread refreshes the store at a *)
(* time, and the set is what the feeds last said.                                  *)
THEOREM RefreshKeepsIndicatorsHolds == Intel!Spec => []Intel!RefreshKeepsIndicators
BY OneRefreshHolds, IndicatorsKeptHolds, PTL DEF Intel!RefreshKeepsIndicators

-----------------------------------------------------------------------------
(* Baseline: the four artifacts of the unsupervised model.                   *)

(* An instance has operators of its own under the names of the libraries. *)
LEMMA BaselineCardinality == ASSUME NEW S PROVE Baseline!Cardinality(S) = Cardinality(S) /\ Baseline!Range(S) = Range(S)
BY DEF Baseline!Cardinality, Cardinality, Baseline!IsFiniteSet, IsFiniteSet, Baseline!Range, Range

PartNames == {"scaler", "iforest", "lstm", "threshold"}

(* What a reload has still to assign. *)
Remaining == {Baseline!Parts, <<"iforest", "lstm", "threshold">>, <<"lstm", "threshold">>, <<"threshold">>, <<>>}

ReloadTypes ==
    /\ published \in Nat /\ active \in Nat /\ quartet \in [PartNames -> Nat]
    /\ swapping \in Reloaders \cup {Baseline!NoThreadHere} /\ reloading \in Reloaders \cup {Baseline!NoThreadHere}
    /\ reload \in [Reloaders -> [stage : {"idle", "loading", "swapping"}, version : Nat, left : Remaining]]
    /\ scoring \in [Scorers -> [stage : {"idle", "available", "read"}, read : {<<>>} \cup [PartNames -> Nat]]]

(* A reload under way is the only one, and is of a version as new as the active one. *)
ReloadInv ==
    /\ \A r \in Reloaders : reload[r].stage # "idle" =>
          reloading = r /\ active <= reload[r].version /\ reload[r].version <= published
    /\ \A r \in Reloaders : reload[r].stage = "swapping" <=> swapping = r
    /\ \A r \in Reloaders : reload[r].stage = "loading" => reload[r].left = Baseline!Parts
    /\ active <= published

Of(v) == [p \in PartNames |-> v]

(* The engine's artifacts are of one version whenever the lock is free; while it is *)
(* held, those that were assigned are of the new version.                           *)
QuartetInv ==
    /\ swapping = Baseline!NoThreadHere => \E v \in Nat : quartet = Of(v)
    /\ \A r \in Reloaders : reload[r].stage = "swapping" =>
          \E v \in Nat : \A p \in PartNames :
              quartet[p] = IF p \in Range(reload[r].left) THEN v ELSE reload[r].version

(* So is what a score has read. *)
ReadInv == \A s \in Scorers : scoring[s].stage = "read" => \E v \in Nat : scoring[s].read = Of(v)

ModelsInv == ReloadTypes /\ ReloadInv /\ QuartetInv /\ ReadInv

LEMMA PartsInOrder ==
    /\ Range(Baseline!Parts) = PartNames /\ Range(<<>>) = {}
    /\ \A left \in Remaining : left # <<>> =>
          /\ Head(left) \in PartNames /\ Tail(left) \in Remaining
          /\ Range(Tail(left)) = Range(left) \ {Head(left)}
<1>1. /\ Range(Baseline!Parts) = PartNames /\ Range(<<>>) = {}
      /\ Range(<<"iforest", "lstm", "threshold">>) = {"iforest", "lstm", "threshold"}
      /\ Range(<<"lstm", "threshold">>) = {"lstm", "threshold"} /\ Range(<<"threshold">>) = {"threshold"}
  BY DEF Range, Baseline!Parts, PartNames
<1>2. /\ Head(Baseline!Parts) = "scaler" /\ Tail(Baseline!Parts) = <<"iforest", "lstm", "threshold">>
      /\ Head(<<"iforest", "lstm", "threshold">>) = "iforest"
      /\ Tail(<<"iforest", "lstm", "threshold">>) = <<"lstm", "threshold">>
      /\ Head(<<"lstm", "threshold">>) = "lstm" /\ Tail(<<"lstm", "threshold">>) = <<"threshold">>
      /\ Head(<<"threshold">>) = "threshold" /\ Tail(<<"threshold">>) = <<>>
  BY DEF Baseline!Parts
<1>3. \A left \in Remaining : left # <<>> =>
          /\ Head(left) \in PartNames /\ Tail(left) \in Remaining
          /\ Range(Tail(left)) = Range(left) \ {Head(left)}
  <2> SUFFICES ASSUME NEW left \in Remaining, left # <<>>
               PROVE  /\ Head(left) \in PartNames /\ Tail(left) \in Remaining
                      /\ Range(Tail(left)) = Range(left) \ {Head(left)}
    OBVIOUS
  <2>1. CASE left = Baseline!Parts
    BY <1>1, <1>2, <2>1 DEF PartNames, Remaining
  <2>2. CASE left = <<"iforest", "lstm", "threshold">>
    BY <1>1, <1>2, <2>2 DEF PartNames, Remaining
  <2>3. CASE left = <<"lstm", "threshold">>
    BY <1>1, <1>2, <2>3 DEF PartNames, Remaining
  <2>4. CASE left = <<"threshold">>
    BY <1>1, <1>2, <2>4 DEF PartNames, Remaining
  <2> QED
    BY <2>1, <2>2, <2>3, <2>4 DEF Remaining
<1> QED
  BY <1>1, <1>3

LEMMA ModelsInit == Baseline!Init => ModelsInv
<1> SUFFICES ASSUME Baseline!Init PROVE ModelsInv
  OBVIOUS
<1>1. /\ published = 0 /\ active = 0 /\ quartet = Of(0)
      /\ swapping = Baseline!NoThreadHere /\ reloading = Baseline!NoThreadHere
      /\ reload = [r \in Reloaders |-> [stage |-> "idle", version |-> 0, left |-> <<>>]]
      /\ scoring = [s \in Scorers |-> [stage |-> "idle", read |-> <<>>]]
  BY PartsInOrder, BaselineCardinality DEF Baseline!Init, Of, Baseline!Resting, Baseline!Nothing
<1>2. ReloadTypes
  BY <1>1 DEF ReloadTypes, Of, Remaining
<1>3. ReloadInv /\ QuartetInv /\ ReadInv
  BY <1>1, BaselineAssumption DEF ReloadInv, QuartetInv, ReadInv
<1> QED
  BY <1>2, <1>3 DEF ModelsInv

-----------------------------------------------------------------------------

LEMMA BeginStep ==
    ASSUME ModelsInv, NEW r \in Reloaders, Baseline!BeginReload(r)
    PROVE  ModelsInv' /\ active' >= active
<1> USE DEF ModelsInv
<1>1. /\ reload' = [reload EXCEPT ![r] = [stage |-> "loading", version |-> published, left |-> Baseline!Parts]]
      /\ reloading' = r /\ reload[r].stage = "idle"
      /\ \A q \in Reloaders : reload[q].stage = "idle"
      /\ UNCHANGED <<published, quartet, swapping, scoring, active>>
  BY BaselineAssumption DEF Baseline!BeginReload, Baseline!MayReload, ReloadInv
<1>2. ReloadTypes'
  BY <1>1 DEF ReloadTypes, Remaining
<1>3. ReloadInv' /\ active' >= active
  BY <1>1 DEF ReloadTypes, ReloadInv
<1>4. QuartetInv' /\ ReadInv'
  BY <1>1 DEF ReloadTypes, QuartetInv, ReadInv
<1> QED
  BY <1>2, <1>3, <1>4

LEMMA FailStep ==
    ASSUME ModelsInv, NEW r \in Reloaders, Baseline!LoadFails(r)
    PROVE  ModelsInv' /\ active' >= active
<1> USE DEF ModelsInv
<1>1. /\ reload' = [reload EXCEPT ![r] = Baseline!Resting] /\ reload[r].stage = "loading"
      /\ reloading = r /\ reloading' = Baseline!NoThreadHere
      /\ UNCHANGED <<published, quartet, swapping, scoring, active>>
  BY DEF Baseline!LoadFails, Baseline!EndReload, ReloadInv
<1>2. ReloadTypes'
  BY <1>1 DEF ReloadTypes, Baseline!Resting, Remaining
<1>3. ReloadInv' /\ active' >= active
  BY <1>1 DEF ReloadTypes, ReloadInv, Baseline!Resting
<1>4. QuartetInv' /\ ReadInv'
  BY <1>1 DEF ReloadTypes, QuartetInv, ReadInv, Baseline!Resting
<1> QED
  BY <1>2, <1>3, <1>4

LEMMA LockStep ==
    ASSUME ModelsInv, NEW r \in Reloaders, Baseline!LockQuartet(r)
    PROVE  ModelsInv' /\ active' >= active
<1> USE DEF ModelsInv
<1>1. /\ reload' = [reload EXCEPT ![r].stage = "swapping"] /\ reload[r].stage = "loading"
      /\ swapping = Baseline!NoThreadHere /\ swapping' = r /\ reloading = r
      /\ UNCHANGED <<published, quartet, reloading, scoring, active>>
  BY DEF Baseline!LockQuartet, ReloadInv
<1>2. ReloadTypes'
  BY <1>1 DEF ReloadTypes
<1>3. ReloadInv' /\ active' >= active
  BY <1>1, BaselineAssumption DEF ReloadTypes, ReloadInv
<1>4. QuartetInv'
  <2>1. \A q \in Reloaders : reload'[q].stage = "swapping" => q = r
    BY <1>1, <1>3 DEF ReloadInv
  <2>2. PICK v \in Nat : quartet = Of(v)
    BY <1>1 DEF QuartetInv
  <2>3. r # Baseline!NoThreadHere
    BY BaselineAssumption
  <2>4. \A p \in PartNames : quartet'[p] = v /\ p \in Range(reload'[r].left)
    BY <1>1, <2>2, PartsInOrder DEF ReloadTypes, ReloadInv, Of
  <2> QED
    BY <1>1, <2>1, <2>3, <2>4 DEF QuartetInv
<1>5. ReadInv'
  BY <1>1 DEF ReadInv
<1> QED
  BY <1>2, <1>3, <1>4, <1>5

LEMMA SwapStep ==
    ASSUME ModelsInv, NEW r \in Reloaders, Baseline!SwapPart(r)
    PROVE  ModelsInv' /\ active' >= active
<1> USE DEF ModelsInv
<1> DEFINE left == reload[r].left
           part == Head(left)
<1>1. /\ reload[r].stage = "swapping" /\ left # <<>>
      /\ quartet' = [quartet EXCEPT ![part] = reload[r].version]
      /\ reload' = [reload EXCEPT ![r].left = Tail(left)]
      /\ UNCHANGED <<published, swapping, reloading, scoring, active>>
  BY DEF Baseline!SwapPart
<1>2. left \in Remaining /\ reload[r].version \in Nat
  BY DEF ReloadTypes
<1>3. /\ part \in PartNames /\ Tail(left) \in Remaining /\ Range(Tail(left)) = Range(left) \ {part}
  BY <1>1, <1>2, PartsInOrder
<1> HIDE DEF left, part
<1>4. ReloadTypes'
  <2>1. reload[r] \in [stage : {"idle", "loading", "swapping"}, version : Nat, left : Remaining]
    BY DEF ReloadTypes
  <2>2. [reload[r] EXCEPT !.left = Tail(left)]
            \in [stage : {"idle", "loading", "swapping"}, version : Nat, left : Remaining]
    BY <1>3, <2>1
  <2>3. quartet' \in [PartNames -> Nat]
    BY <1>1, <1>2, <1>3 DEF ReloadTypes
  <2>4. reload' \in [Reloaders -> [stage : {"idle", "loading", "swapping"}, version : Nat, left : Remaining]]
    BY <1>1, <2>2 DEF ReloadTypes
  <2> QED
    BY <1>1, <2>3, <2>4 DEF ReloadTypes
<1>5. ReloadInv' /\ active' >= active
  BY <1>1 DEF ReloadTypes, ReloadInv
<1>6. QuartetInv'
  <2>1. swapping = r /\ r # Baseline!NoThreadHere
    BY <1>1, BaselineAssumption DEF ReloadInv
  <2>2. \A q \in Reloaders : reload'[q].stage = "swapping" => q = r
    BY <1>1, <1>5, <2>1 DEF ReloadInv
  <2>3. PICK v \in Nat : \A p \in PartNames :
            quartet[p] = IF p \in Range(left) THEN v ELSE reload[r].version
    BY <1>1 DEF QuartetInv, left
  <2>4. reload'[r].left = Tail(left) /\ reload'[r].version = reload[r].version
    BY <1>1 DEF ReloadTypes
  <2>5. \A p \in PartNames : quartet'[p] = IF p = part THEN reload[r].version ELSE quartet[p]
    BY <1>1, <1>3 DEF ReloadTypes
  <2>6. \A p \in PartNames : quartet'[p] = IF p \in Range(Tail(left)) THEN v ELSE reload[r].version
    BY <1>3, <2>3, <2>5
  <2>7. \E u \in Nat : \A p \in PartNames :
            quartet'[p] = IF p \in Range(reload'[r].left) THEN u ELSE reload'[r].version
    BY <2>4, <2>6
  <2> QED
    BY <1>1, <2>1, <2>2, <2>7 DEF QuartetInv
<1>7. ReadInv'
  BY <1>1 DEF ReadInv
<1> QED
  BY <1>4, <1>5, <1>6, <1>7

LEMMA UnlockStep ==
    ASSUME ModelsInv, NEW r \in Reloaders, Baseline!UnlockQuartet(r)
    PROVE  ModelsInv' /\ active' >= active
<1> USE DEF ModelsInv
<1>1. /\ reload[r].stage = "swapping" /\ reload[r].left = <<>>
      /\ swapping' = Baseline!NoThreadHere /\ active' = reload[r].version /\ reloading' = Baseline!NoThreadHere
      /\ reload' = [reload EXCEPT ![r] = Baseline!Resting]
      /\ UNCHANGED <<published, quartet, scoring>>
  BY DEF Baseline!UnlockQuartet, Baseline!EndReload
<1>2. /\ reload[r].version \in Nat /\ active <= reload[r].version /\ reload[r].version <= published
      /\ swapping = r /\ reloading = r
  BY <1>1 DEF ReloadTypes, ReloadInv
<1>3. ReloadTypes'
  BY <1>1, <1>2 DEF ReloadTypes, Baseline!Resting, Remaining
<1>4. ReloadInv' /\ active' >= active
  BY <1>1, <1>2, BaselineAssumption DEF ReloadTypes, ReloadInv, Baseline!Resting
<1>5. QuartetInv'
  <2>1. \A p \in PartNames : quartet[p] = reload[r].version
    BY <1>1, PartsInOrder DEF QuartetInv
  <2>2. quartet = Of(reload[r].version)
    BY <2>1 DEF ReloadTypes, Of
  <2>3. \A q \in Reloaders : reload'[q].stage # "swapping"
    BY <1>1, <1>2 DEF ReloadTypes, ReloadInv, Baseline!Resting
  <2> QED
    BY <1>1, <1>2, <2>2, <2>3 DEF QuartetInv
<1>6. ReadInv'
  BY <1>1 DEF ReadInv
<1> QED
  BY <1>3, <1>4, <1>5, <1>6

LEMMA ScoreSteps ==
    ASSUME ModelsInv, NEW s \in Scorers, Baseline!AskAvailable(s) \/ Baseline!ReadQuartet(s) \/ Baseline!Score(s)
    PROVE  ModelsInv' /\ active' >= active
<1> USE DEF ModelsInv
<1>1. UNCHANGED <<published, quartet, swapping, reloading, reload, active>>
  BY DEF Baseline!AskAvailable, Baseline!ReadQuartet, Baseline!Score
<1>2. /\ scoring' \in [Scorers -> [stage : {"idle", "available", "read"}, read : {<<>>} \cup [PartNames -> Nat]]]
      /\ ReadInv'
  <2>1. CASE Baseline!AskAvailable(s) \/ Baseline!Score(s)
    <3>1. \E st \in {"idle", "available"} : scoring' = [scoring EXCEPT ![s] = [stage |-> st, read |-> <<>>]]
      BY <2>1 DEF Baseline!AskAvailable, Baseline!Score, Baseline!Nothing
    <3> QED
      BY <3>1 DEF ReloadTypes, ReadInv
  <2>2. CASE Baseline!ReadQuartet(s)
    <3>1. /\ swapping = Baseline!NoThreadHere
          /\ scoring' = [scoring EXCEPT ![s] = [stage |-> "read", read |-> quartet]]
      BY <2>2 DEF Baseline!ReadQuartet, Baseline!QuartetReadable
    <3> QED
      BY <3>1 DEF ReloadTypes, QuartetInv, ReadInv
  <2> QED
    BY <2>1, <2>2
<1>3. ReloadTypes' /\ active' >= active
  BY <1>1, <1>2 DEF ReloadTypes
<1>4. ReloadInv' /\ QuartetInv'
  BY <1>1 DEF ReloadInv, QuartetInv
<1> QED
  BY <1>2, <1>3, <1>4

LEMMA ModelsKeep ==
    ASSUME ModelsInv, [Baseline!Next]_(Baseline!baseVars)
    PROVE  ModelsInv' /\ active' >= active
<1>1. CASE UNCHANGED Baseline!baseVars
  BY <1>1 DEF Baseline!baseVars, ModelsInv, ReloadTypes, ReloadInv, QuartetInv, ReadInv
<1>2. CASE Baseline!Publish
  <2>1. published' = published + 1 /\ UNCHANGED <<quartet, swapping, reloading, reload, scoring, active>>
    BY <1>2 DEF Baseline!Publish
  <2>2. ReloadTypes' /\ ReloadInv' /\ active' >= active
    BY <2>1 DEF ModelsInv, ReloadTypes, ReloadInv
  <2>3. QuartetInv' /\ ReadInv'
    BY <2>1 DEF ModelsInv, QuartetInv, ReadInv
  <2> QED
    BY <2>2, <2>3 DEF ModelsInv
<1>3. CASE Baseline!ReloadNext
  BY <1>3, BeginStep, FailStep, LockStep, SwapStep, UnlockStep DEF Baseline!ReloadNext
<1>4. CASE Baseline!ScoreNext
  BY <1>4, ScoreSteps DEF Baseline!ScoreNext
<1> QED
  BY <1>1, <1>2, <1>3, <1>4 DEF Baseline!Next

LEMMA ModelsInvariant == Baseline!Spec => []ModelsInv
<1>1. ModelsInv /\ [Baseline!Next]_(Baseline!baseVars) => ModelsInv'
  BY ModelsKeep
<1> QED
  BY <1>1, ModelsInit, PTL DEF Baseline!Spec

-----------------------------------------------------------------------------

(* For any number of reloads and scores at the same time, a score is taken with the *)
(* artifacts of one version.                                                         *)
THEOREM ScoresUseOneVersionHolds == Baseline!Spec => []Baseline!ScoresUseOneVersion
<1>1. ModelsInv => Baseline!ScoresUseOneVersion
  <2> SUFFICES ASSUME ReadInv, NEW s \in Scorers, scoring[s].stage = "read"
               PROVE  Cardinality(Range(scoring[s].read)) = 1
    BY BaselineCardinality DEF ModelsInv, Baseline!ScoresUseOneVersion
  <2>1. PICK v \in Nat : scoring[s].read = Of(v)
    BY DEF ReadInv
  <2>2. Range(Of(v)) = {v}
    BY DEF Range, Of, PartNames
  <2>3. Cardinality({v}) = 1
    BY FS_Singleton
  <2> QED
    BY <2>1, <2>2, <2>3
<1> QED
  BY <1>1, ModelsInvariant, PTL

(* However reloads overlap with each other and with what is registered meanwhile, *)
(* no reload puts an older version back.                                           *)
THEOREM VersionsMoveForwardHolds == Baseline!Spec => Baseline!VersionsMoveForward
<1>1. ModelsInv /\ [Baseline!Next]_(Baseline!baseVars) => [active' >= active]_(Baseline!baseVars)
  BY ModelsKeep
<1> QED
  BY <1>1, ModelsInvariant, PTL DEF Baseline!Spec, Baseline!VersionsMoveForward

-----------------------------------------------------------------------------
(* Models: which pickles the engines serve.                                  *)

(* Every pickle in use was verified when it was loaded.                      *)
PicklesVerified ==
    /\ DOMAIN engines = {"supervised", "iforest", "scaler", "lstm"}
    /\ process = "starting" => \A e \in DOMAIN engines : engines[e] = "none"
    /\ \A e \in DOMAIN engines : engines[e] \in Models!Pickles => Models!Verified(engines[e])
    /\ \A e \in DOMAIN engines : engines[e] # "ftScaler"
    /\ engines.supervised = "ft" => Models!Verified("ftScaler")

LEMMA PicklesVerifiedStep ==
    ASSUME PicklesVerified, [Models!Next]_(Models!modelVars)
    PROVE  PicklesVerified'
<1>0. site' = site
  BY DEF Models!Next, Models!modelVars, Models!Start, Models!ReloadNext, Models!Reload, Models!ReloadFromMlflow,
         Models!Classify, Models!ClassifyFails
<1>1. \A f : Models!Verified(f)' <=> Models!Verified(f)
  BY <1>0 DEF Models!Verified, Models!Listed
<1>2. ASSUME UNCHANGED <<process, engines>>
      PROVE  PicklesVerified'
  BY <1>1, <1>2 DEF PicklesVerified, Models!Pickles
<1>3. CASE Models!Start
  <2>1. CASE ~Models!FtStarts
    <3>1. engines' = engines /\ process' = "down"
      BY <1>3, <2>1 DEF Models!Start
    <3> QED
      BY <1>1, <3>1 DEF PicklesVerified, Models!Pickles
  <2>2. CASE Models!FtStarts
    <3> DEFINE sup == IF Models!FtAvailable THEN "ft" ELSE Models!RandomForest
               sca == IF Models!LoadsPickle("ifScaler") THEN "ifScaler" ELSE "none"
    <3>1. engines' = [supervised |-> sup, iforest |-> Models!IForest, scaler |-> sca, lstm |-> Models!Lstm] /\ process' = "up"
      BY <1>3, <2>2 DEF Models!Start, Models!NoModel
    <3>2. sup # "ftScaler" /\ (sup \in Models!Pickles => Models!Verified(sup)) /\ (sup = "ft" => Models!Verified("ftScaler"))
      BY DEF Models!FtAvailable, Models!RandomForest, Models!LoadsPickle, Models!NoModel, Models!Pickles
    <3>3. sca # "ftScaler" /\ (sca \in Models!Pickles => Models!Verified(sca))
      BY DEF Models!LoadsPickle, Models!Pickles
    <3>4. Models!IForest # "ftScaler" /\ (Models!IForest \in Models!Pickles => Models!Verified(Models!IForest))
      BY DEF Models!LoadsPickle, Models!IForest, Models!NoModel, Models!Pickles
    <3>5. Models!Lstm \notin Models!Pickles /\ Models!Lstm # "ftScaler"
      BY DEF Models!Lstm, Models!NoModel, Models!Pickles
    <3> HIDE DEF sup, sca
    <3>6. /\ DOMAIN engines' = {"supervised", "iforest", "scaler", "lstm"} /\ engines'.supervised = sup
          /\ engines'.iforest = Models!IForest /\ engines'.scaler = sca /\ engines'.lstm = Models!Lstm
      BY <3>1
    <3>7. \A e \in DOMAIN engines' : engines'[e] # "ftScaler" /\ (engines'[e] \in Models!Pickles => Models!Verified(engines'[e]))
      BY <3>2, <3>3, <3>4, <3>5, <3>6
    <3> QED
      BY <1>1, <3>1, <3>2, <3>6, <3>7 DEF PicklesVerified, Models!Pickles
  <2> QED
    BY <2>1, <2>2
<1>4. ASSUME process' = process, process = "up", NEW model, NEW scaler, model # "ftScaler", scaler # "ftScaler",
             model \in Models!Pickles => Models!Verified(model), scaler \in Models!Pickles => Models!Verified(scaler),
             engines' = [engines EXCEPT !.iforest = model, !.scaler = scaler]
      PROVE  PicklesVerified'
  <2>1. /\ DOMAIN engines' = DOMAIN engines /\ engines'.supervised = engines.supervised /\ engines'.lstm = engines.lstm
        /\ engines'.iforest = model /\ engines'.scaler = scaler
    BY <1>4 DEF PicklesVerified
  <2>2. \A e \in DOMAIN engines' : engines'[e] # "ftScaler" /\ (engines'[e] \in Models!Pickles => Models!Verified(engines'[e]))
    BY <1>4, <2>1 DEF PicklesVerified
  <2> QED
    BY <1>1, <1>4, <2>1, <2>2 DEF PicklesVerified, Models!Pickles
<1>5. ASSUME NEW s \in {"ifScaler", Models!NoModel}, Models!Reload("if", s)
      PROVE  PicklesVerified'
  <2> DEFINE sca == IF s # Models!NoModel /\ Models!OnDisk(s) THEN s ELSE Models!NoModel
  <2>1. /\ process = "up" /\ process' = process /\ Models!Verified("if")
        /\ engines' = [engines EXCEPT !.iforest = "if", !.scaler = sca]
    BY <1>5 DEF Models!Reload, Models!LoadsPickle
  <2>2. sca # "ftScaler" /\ (sca \in Models!Pickles => Models!Verified(sca))
    BY <1>5 DEF Models!Reload, Models!LoadsPickle, Models!NoModel, Models!Pickles
  <2> HIDE DEF sca
  <2> QED
    BY <1>4, <2>1, <2>2
<1>6. CASE Models!ReloadFromMlflow
  BY <1>4, <1>6 DEF Models!ReloadFromMlflow, Models!NoModel, Models!Pickles
<1> QED
  BY <1>2, <1>3, <1>5, <1>6 DEF Models!Next, Models!modelVars, Models!ReloadNext, Models!Classify, Models!ClassifyFails

(* Where a manifest governs, only listed pickles are in use, whatever is on the disk and *)
(* whichever fall-back or reload brought a model in.                                     *)
THEOREM OnlyListedPicklesHolds == Models!Spec => []Models!OnlyListedPickles
<1>1. Models!Init => PicklesVerified
  BY DEF Models!Init, PicklesVerified, Models!NoModel, Models!Pickles
<1>2. PicklesVerified /\ [Models!Next]_(Models!modelVars) => PicklesVerified'
  BY PicklesVerifiedStep
<1>3. PicklesVerified => Models!OnlyListedPickles
  <2> SUFFICES ASSUME PicklesVerified, (site.manifest /\ site.mode # "off") \/ site.mode = "enforce",
                      NEW f \in Models!InUse \cap (Models!Pickles \cup {"ftScaler"})
               PROVE  f \in Models!Listed /\ site.disk[f] # "changed"
    BY DEF Models!OnlyListedPickles
  <2>1. Models!Verified(f)
    BY DEF PicklesVerified, Models!InUse, Models!Pickles
  <2> QED
    BY <2>1 DEF Models!Verified
<1> QED
  BY <1>1, <1>2, <1>3, PTL DEF Models!Spec

(* No flow is classified before the engines are chosen, and none changes the choice of the supervised one. *)
LabelsScored == (process = "starting" => verdict = Models!NoVerdict) /\ Models!ScoreFollowsLabel

LEMMA LabelsScoredStep ==
    ASSUME PicklesVerified, LabelsScored, [Models!Next]_(Models!modelVars)
    PROVE  LabelsScored'
<1>1. CASE UNCHANGED Models!modelVars
  BY <1>1 DEF Models!modelVars, LabelsScored, Models!ScoreFollowsLabel, Models!Threshold
<1>2. CASE Models!Start
  <2>1. verdict' = Models!NoVerdict
    BY <1>2 DEF Models!Start, LabelsScored
  <2> QED
    BY <2>1 DEF LabelsScored, Models!ScoreFollowsLabel, Models!NoVerdict
<1>3. ASSUME process' = process, verdict' = verdict, NEW model, NEW scaler,
             engines' = [engines EXCEPT !.iforest = model, !.scaler = scaler]
      PROVE  LabelsScored'
  <2>1. engines'.supervised = engines.supervised
    BY <1>3 DEF PicklesVerified
  <2> QED
    BY <1>3, <2>1 DEF LabelsScored, Models!ScoreFollowsLabel, Models!Threshold
<1>4. CASE Models!ReloadNext
  BY <1>3, <1>4 DEF Models!ReloadNext, Models!Reload, Models!ReloadFromMlflow
<1>5. ASSUME NEW p \in ClassScores, Models!Classify(p)
      PROVE  LabelsScored'
  <2>1. PICK c \in DOMAIN p : /\ p[c] = Models!Probability(p)
                              /\ verdict' = [label |-> c, confidence |-> p[c], score |-> Models!Score(p)]
    BY <1>5 DEF Models!Classify
  <2>2. process = "up" /\ process' = process /\ engines' = engines
    BY <1>5 DEF Models!Classify
  <2>3. Models!Threshold' = Models!Threshold /\ Models!Threshold \in Int
    BY <2>2, ModelsAssumption DEF Models!Threshold
  <2>4. p[c] \in 0..100 /\ (c # Benign /\ Benign \in DOMAIN p => p[Benign] \in 0..100 /\ p[c] + p[Benign] <= 100)
    BY ModelsAssumption
  <2>5. CASE c # Benign
    <3>1. Models!RawScore(p) \in Int /\ Models!RawScore(p) >= p[c]
      BY <2>1, <2>4, <2>5 DEF Models!RawScore
    <3>2. p[c] >= Models!Threshold => Models!Score(p) >= p[c]
      BY <2>3, <2>4, <3>1 DEF Models!Score
    <3> QED
      BY <2>1, <2>2, <2>3, <2>5, <3>2 DEF LabelsScored, Models!ScoreFollowsLabel
  <2>6. CASE c = Benign
    <3>1. Models!RawScore(p) = 100 - p[c]
      BY <2>6 DEF Models!RawScore
    <3>2. 100 - p[c] < Models!Threshold => Models!Score(p) = 0
      BY <2>3, <2>4, <3>1 DEF Models!Score
    <3> QED
      BY <2>1, <2>2, <2>3, <2>6, <3>2 DEF LabelsScored, Models!ScoreFollowsLabel
  <2> QED
    BY <2>5, <2>6
<1>6. CASE Models!ClassifyFails
  BY <1>6 DEF Models!ClassifyFails, LabelsScored, Models!ScoreFollowsLabel
<1> QED
  BY <1>1, <1>2, <1>4, <1>5, <1>6 DEF Models!Next

(* The label and the score of a flow agree, whichever models and fall-backs the engines serve. *)
THEOREM ScoreFollowsLabelHolds == Models!Spec => []Models!ScoreFollowsLabel
<1>1. Models!Init => PicklesVerified /\ LabelsScored
  BY DEF Models!Init, PicklesVerified, LabelsScored, Models!NoModel, Models!Pickles, Models!ScoreFollowsLabel
<1>2. PicklesVerified /\ LabelsScored /\ [Models!Next]_(Models!modelVars) => PicklesVerified' /\ LabelsScored'
  BY PicklesVerifiedStep, LabelsScoredStep
<1>3. LabelsScored => Models!ScoreFollowsLabel
  BY DEF LabelsScored
<1> QED
  BY <1>1, <1>2, <1>3, PTL DEF Models!Spec

-----------------------------------------------------------------------------
(* Buffers: the sequences of the hosts.                                      *)

BufferTypes ==
    /\ bufOrder \in Seq(ModelHosts) /\ DOMAIN buffers = ModelHosts
    /\ \A h \in ModelHosts : buffers[h] \in Seq(Nat) /\ Len(buffers[h]) <= SeqLen
    /\ Len(hostRows) \in Nat

LEMMA SmallestOf ==
    ASSUME NEW T, T \subseteq Nat, T # {}
    PROVE  \E x \in T : \A y \in T : x <= y
<1> DEFINE R == OpToRel(<, Nat)
<1>1. IsWellFoundedOn(R, Nat)
  BY NatLessThanWellFounded
<1>2. \A x, y \in Nat : y < x => <<y, x>> \in R
  BY DEF OpToRel
<1> HIDE DEF R
<1>3. PICK x \in T : \A y \in T : ~ (<<y, x>> \in R)
  BY <1>1, WFMin
<1>4. \A y \in T : x <= y
  <2> SUFFICES ASSUME NEW y \in T PROVE x <= y
    OBVIOUS
  <2>1. x \in Nat /\ y \in Nat
    OBVIOUS
  <2>2. ~(y < x)
    BY <1>2, <1>3, <2>1
  <2> QED
    BY <2>1, <2>2
<1> QED
  BY <1>4

(* min() of the code: there is a shortest buffer, and a first one of that length.      *)
LEMMA ShortestIs ==
    ASSUME BufferTypes, Len(bufOrder) >= 1
    PROVE  LET i == Buffers!Shortest(bufOrder)
           IN  i \in 1..Len(bufOrder) /\ \A j \in 1..Len(bufOrder) : Len(buffers[bufOrder[i]]) <= Len(buffers[bufOrder[j]])
<1> DEFINE D       == DOMAIN bufOrder
           size(j) == Len(buffers[bufOrder[j]])
           Good(i) == /\ \A j \in DOMAIN bufOrder : Len(buffers[bufOrder[i]]) <= Len(buffers[bufOrder[j]])
                      /\ \A j \in 1..(i - 1) : Len(buffers[bufOrder[j]]) > Len(buffers[bufOrder[i]])
<1>1. D = 1..Len(bufOrder) /\ Len(bufOrder) \in Nat /\ D # {} /\ D \subseteq Nat
  <2>1. DOMAIN bufOrder = 1..Len(bufOrder) /\ Len(bufOrder) \in Nat
    BY DEF BufferTypes
  <2> QED
    BY <2>1
<1>2. \A j \in D : size(j) \in Nat
  <2> SUFFICES ASSUME NEW j \in D PROVE size(j) \in Nat
    OBVIOUS
  <2>1. bufOrder[j] \in ModelHosts
    BY DEF BufferTypes
  <2>2. buffers[bufOrder[j]] \in Seq(Nat)
    BY <2>1 DEF BufferTypes
  <2> QED
    BY <2>2
<1>3. PICK n \in {size(j) : j \in D} : \A m \in {size(j) : j \in D} : n <= m
  <2>1. {size(j) : j \in D} \subseteq Nat /\ {size(j) : j \in D} # {}
    BY <1>1, <1>2
  <2> QED
    BY <2>1, SmallestOf
<1>4. PICK i \in {j \in D : size(j) = n} : \A k \in {j \in D : size(j) = n} : i <= k
  <2>1. {j \in D : size(j) = n} \subseteq Nat /\ {j \in D : size(j) = n} # {}
    BY <1>1, <1>3
  <2> QED
    BY <2>1, SmallestOf
<1>5. \A j \in D : size(i) <= size(j)
  BY <1>3, <1>4
<1>6. \A j \in 1..(i - 1) : size(j) > size(i)
  <2> SUFFICES ASSUME NEW j \in 1..(i - 1) PROVE size(j) > size(i)
    OBVIOUS
  <2>1. j \in D /\ ~(i <= j) /\ i \in D
    BY <1>1, <1>4
  <2>2. size(j) # n /\ size(i) = n
    BY <1>4, <2>1
  <2> HIDE DEF D, size
  <2> QED
    BY <1>2, <1>5, <2>1, <2>2
<1>7. Good(i) /\ i \in D
  BY <1>4, <1>5, <1>6
<1>8. Buffers!Shortest(bufOrder) = CHOOSE k \in D : Good(k)
  BY DEF Buffers!Shortest
<1> HIDE DEF Good
<1>9. Buffers!Shortest(bufOrder) \in D /\ Good(Buffers!Shortest(bufOrder))
  <2> HIDE DEF D
  <2> QED
    BY <1>7, <1>8
<1> QED
  BY <1>1, <1>9 DEF Good

(* What a vector of a host makes of its buffer, and of the others.                      *)
LEMMA UpdateDoes ==
    ASSUME BufferTypes, NEW h \in ModelHosts, Buffers!Update(h)
    PROVE  /\ DOMAIN buffers' = ModelHosts /\ buffers'[h] \in Seq(Nat) /\ Len(buffers'[h]) \in 1..SeqLen
           /\ \A x \in ModelHosts \ {h} :
                IF x \in Buffers!Victims(h) THEN buffers'[x] = <<>> ELSE buffers'[x] = buffers[x]
<1> DEFINE v == Len(hostRows) + 1
           longer == Append(buffers[h], v)
<1>1. /\ DOMAIN buffers' = ModelHosts /\ buffers'[h] = Buffers!Ring(longer)
      /\ \A x \in ModelHosts \ {h} :
            IF x \in Buffers!Victims(h) THEN buffers'[x] = <<>> ELSE buffers'[x] = buffers[x]
  BY DEF Buffers!Update
<1>2. buffers[h] \in Seq(Nat) /\ Len(buffers[h]) <= SeqLen /\ v \in Nat /\ SeqLen \in Nat \ {0}
  BY BuffersAssumption DEF BufferTypes
<1> HIDE DEF v
<1>3. longer \in Seq(Nat) /\ Len(longer) = Len(buffers[h]) + 1 /\ Len(buffers[h]) \in Nat /\ longer # <<>>
  <2>1. longer \in Seq(Nat)
    BY <1>2
  <2>2. Len(longer) = Len(buffers[h]) + 1 /\ Len(buffers[h]) \in Nat
    BY <1>2
  <2> HIDE DEF longer
  <2>3. longer # <<>>
    BY <2>1, <2>2
  <2> QED
    BY <2>1, <2>2, <2>3
<1> HIDE DEF longer
<1>4. Buffers!Ring(longer) = IF Len(longer) > SeqLen THEN Tail(longer) ELSE longer
  BY DEF Buffers!Ring
<1>5. Tail(longer) \in Seq(Nat) /\ Len(Tail(longer)) = Len(longer) - 1
  BY <1>3
<1> QED
  BY <1>1, <1>2, <1>3, <1>4, <1>5

LEMMA BufferTypesStep ==
    ASSUME BufferTypes, [Buffers!Next]_(Buffers!bufferVars)
    PROVE  BufferTypes'
<1>1. CASE UNCHANGED Buffers!bufferVars
  BY <1>1 DEF Buffers!bufferVars, BufferTypes
<1>2. CASE Buffers!Fit
  BY <1>2 DEF Buffers!Fit, BufferTypes
<1>3. ASSUME NEW h \in ModelHosts, Buffers!Update(h)
      PROVE  BufferTypes'
  <2> DEFINE gone == Buffers!Victims(h)
             i    == Buffers!Shortest(bufOrder)
             kept == IF gone = {} THEN bufOrder ELSE Buffers!RemoveAt(bufOrder, i)
  <2>1. /\ bufOrder' = (IF h \in Buffers!ToSet(kept) THEN kept ELSE Append(kept, h))
        /\ hostRows' = Append(hostRows, [host |-> h, vector |-> Len(hostRows) + 1, ts |-> Len(hostRows) + 1])
    BY <1>3 DEF Buffers!Update
  <2>2. kept \in Seq(ModelHosts)
    <3>1. CASE gone = {}
      BY <3>1 DEF BufferTypes
    <3>2. CASE gone # {}
      <4>1. Len(bufOrder) >= MaxBuffers /\ MaxBuffers \in Nat \ {0} /\ Len(bufOrder) \in Nat
        BY <3>2, BuffersAssumption DEF Buffers!Victims, BufferTypes
      <4>2. i \in 1..Len(bufOrder)
        BY <4>1, ShortestIs
      <4>3. bufOrder \in Seq(ModelHosts)
        BY DEF BufferTypes
      <4> HIDE DEF i
      <4>4. SubSeq(bufOrder, 1, i - 1) \in Seq(ModelHosts) /\ SubSeq(bufOrder, i + 1, Len(bufOrder)) \in Seq(ModelHosts)
        BY <4>1, <4>2, <4>3
      <4>5. kept = SubSeq(bufOrder, 1, i - 1) \o SubSeq(bufOrder, i + 1, Len(bufOrder))
        BY <3>2 DEF Buffers!RemoveAt
      <4> HIDE DEF kept
      <4> QED
        BY <4>4, <4>5
    <3> QED
      BY <3>1, <3>2
  <2> HIDE DEF kept
  <2>3. bufOrder' \in Seq(ModelHosts)
    BY <2>1, <2>2
  <2>4. Len(hostRows') \in Nat
    BY <2>1 DEF BufferTypes
  <2>5. \A x \in ModelHosts : buffers'[x] \in Seq(Nat) /\ Len(buffers'[x]) <= SeqLen
    <3> SUFFICES ASSUME NEW x \in ModelHosts PROVE buffers'[x] \in Seq(Nat) /\ Len(buffers'[x]) <= SeqLen
      OBVIOUS
    <3>1. SeqLen \in Nat \ {0} /\ <<>> \in Seq(Nat) /\ Len(<<>>) = 0
      BY BuffersAssumption
    <3>2. CASE x = h
      BY <1>3, <3>1, <3>2, UpdateDoes
    <3>3. CASE x # h
      <4>1. buffers'[x] = <<>> \/ buffers'[x] = buffers[x]
        BY <1>3, <3>3, UpdateDoes
      <4> QED
        <5>1. CASE buffers'[x] = <<>>
          BY <3>1, <5>1
        <5>2. CASE buffers'[x] = buffers[x]
          BY <5>2 DEF BufferTypes
        <5> QED
          BY <4>1, <5>1, <5>2
    <3> QED
      BY <3>2, <3>3
  <2> QED
    BY <1>3, <2>3, <2>4, <2>5, UpdateDoes DEF BufferTypes
<1> QED
  BY <1>1, <1>2, <1>3 DEF Buffers!Next

(* A newcomer takes the buffer of the shortest only: when it takes a full one, all are. *)
LEMMA FullBuffersStayStep ==
    ASSUME BufferTypes, [Buffers!Next]_(Buffers!bufferVars)
    PROVE  \A h \in ModelHosts : Len(buffers[h]) = SeqLen /\ buffers'[h] = <<>> =>
              \A x \in Buffers!ToSet(bufOrder) : Len(buffers[x]) = SeqLen
<1> SUFFICES ASSUME NEW h \in ModelHosts, Len(buffers[h]) = SeqLen, buffers'[h] = <<>>
             PROVE  \A x \in Buffers!ToSet(bufOrder) : Len(buffers[x]) = SeqLen
  OBVIOUS
<1>0. SeqLen \in Nat \ {0} /\ MaxBuffers \in Nat \ {0} /\ Len(<<>>) = 0
  BY BuffersAssumption
<1>1. buffers' # buffers
  BY <1>0
<1>2. PICK n \in ModelHosts : Buffers!Update(n)
  BY <1>1 DEF Buffers!Next, Buffers!Fit, Buffers!bufferVars
<1>3. h # n /\ h \in Buffers!Victims(n)
  <2>1. h # n
    BY <1>0, <1>2, UpdateDoes
  <2>2. buffers'[h] # buffers[h]
    BY <1>0
  <2> QED
    BY <1>2, <2>1, <2>2, UpdateDoes
<1>4. Len(bufOrder) >= MaxBuffers /\ h = bufOrder[Buffers!Shortest(bufOrder)] /\ bufOrder \in Seq(ModelHosts)
  BY <1>3 DEF Buffers!Victims, BufferTypes
<1>5. Len(bufOrder) \in Nat /\ Len(bufOrder) >= 1 /\ DOMAIN bufOrder = 1..Len(bufOrder)
  BY <1>0, <1>4
<1>6. ASSUME NEW j \in 1..Len(bufOrder)
      PROVE  Len(buffers[bufOrder[j]]) = SeqLen
  <2>1. SeqLen <= Len(buffers[bufOrder[j]])
    BY <1>4, <1>5, ShortestIs
  <2>2. bufOrder[j] \in ModelHosts
    BY <1>4
  <2>3. Len(buffers[bufOrder[j]]) <= SeqLen /\ Len(buffers[bufOrder[j]]) \in Nat
    BY <2>2 DEF BufferTypes
  <2> QED
    BY <1>0, <2>1, <2>3
<1> QED
  BY <1>5, <1>6 DEF Buffers!ToSet

(* A newcomer never costs an address its full buffer while some other is not full.      *)
THEOREM FullBuffersStayHolds == Buffers!Spec => Buffers!FullBuffersStay
<1>1. Buffers!Init => BufferTypes
  <2> SUFFICES ASSUME Buffers!Init PROVE BufferTypes
    OBVIOUS
  <2>1. bufOrder = <<>> /\ hostRows = <<>> /\ buffers = [h \in ModelHosts |-> <<>>]
    BY DEF Buffers!Init
  <2>2. <<>> \in Seq(Nat) /\ <<>> \in Seq(ModelHosts) /\ Len(<<>>) = 0 /\ SeqLen \in Nat
    BY BuffersAssumption
  <2> QED
    BY <2>1, <2>2 DEF BufferTypes
<1>2. BufferTypes /\ [Buffers!Next]_(Buffers!bufferVars) => BufferTypes'
  BY BufferTypesStep
<1>3. BufferTypes /\ [Buffers!Next]_(Buffers!bufferVars)
        => [\A h \in ModelHosts : Len(buffers[h]) = SeqLen /\ buffers'[h] = <<>> =>
              \A x \in Buffers!ToSet(bufOrder) : Len(buffers[x]) = SeqLen]_(Buffers!bufferVars)
  BY FullBuffersStayStep
<1> QED
  BY <1>1, <1>2, <1>3, PTL DEF Buffers!Spec, Buffers!FullBuffersStay

-----------------------------------------------------------------------------
(* Store: incidents and the analysts who edit them.                          *)

Moment      == Nat \cup {-1}
IncidentRow == [status : Store!Statuses, resolvedAt : Moment]

StoreTypes ==
    /\ storeTime \in Nat /\ incidents \in Seq(IncidentRow) /\ DOMAIN edit = Analysts
    /\ \A a \in Analysts :
         /\ edit[a].of \in {"nothing", "alert", "incident"}
         /\ edit[a].of = "incident" =>
              /\ edit[a].id \in 1..Len(incidents) /\ edit[a].read \in IncidentRow /\ edit[a].new \in IncidentRow

(* An incident is resolved when it says so, and what an analyst is about to store of an  *)
(* incident nobody else has in hand continues what is stored.                           *)
Settled(row) == (row.resolvedAt # -1) <=> (Store!Order(row.status) >= Store!Order("resolved"))
Continues(row, new) ==
    /\ Store!Order(new.status) >= Store!Order(row.status)
    /\ row.resolvedAt # -1 => new.resolvedAt = row.resolvedAt
    /\ Settled(row) => Settled(new)

Forward ==
    /\ \A i \in 1..Len(incidents) : i \notin racedOn => Settled(incidents[i])
    /\ \A a \in Analysts : edit[a].of = "incident" /\ edit[a].id \notin racedOn =>
         /\ edit[a].read = incidents[edit[a].id] /\ Continues(edit[a].read, edit[a].new)
         /\ \A b \in Analysts : b # a /\ edit[b].of = "incident" => edit[b].id # edit[a].id

LEMMA OrderIs ==
    /\ \A s \in Store!Statuses : Store!Order(s) \in 1..4
    /\ Store!Order("open") = 1 /\ Store!Order("investigating") = 2 /\ Store!Order("resolved") = 3 /\ Store!Order("closed") = 4
<1> DEFINE order == <<"open", "investigating", "resolved", "closed">>
<1>1. order[1] = "open" /\ order[2] = "investigating" /\ order[3] = "resolved" /\ order[4] = "closed"
  OBVIOUS
<1> HIDE DEF order
<1>2. \A s : Store!Order(s) = CHOOSE i \in 1..4 : order[i] = s
  BY DEF Store!Order, order
<1>3. 1..4 = {1, 2, 3, 4}
  OBVIOUS
<1>4. ASSUME NEW k \in 1..4
      PROVE  Store!Order(order[k]) = k
  <2>1. \A i \in 1..4 : order[i] = order[k] => i = k
    BY <1>1, <1>3
  <2> QED
    BY <1>2, <2>1
<1> QED
  BY <1>1, <1>3, <1>4 DEF Store!Statuses

(* update_incident: what it stores is computed from the row it read.                   *)
LEMMA LoadContinues ==
    ASSUME NEW read \in IncidentRow, NEW to \in Store!Statuses, NEW now \in Nat, Store!MayMove(read.status, to), NEW new,
           new = [status |-> to,
                  resolvedAt |-> IF Store!Order(to) >= Store!Order("resolved") /\ read.resolvedAt = -1 THEN now ELSE read.resolvedAt]
    PROVE  new \in IncidentRow /\ Continues(read, new)
<1>1. read.status \in Store!Statuses /\ read.resolvedAt \in Moment /\ now # -1
  BY DEF IncidentRow, Moment
<1>2. Store!Order(read.status) \in 1..4 /\ Store!Order(to) \in 1..4 /\ Store!Order("resolved") = 3
  BY <1>1, OrderIs
<1>3. Store!Order(to) >= Store!Order(read.status)
  BY DEF Store!MayMove
<1>4. new.status = to
      /\ new.resolvedAt = IF Store!Order(to) >= Store!Order("resolved") /\ read.resolvedAt = -1 THEN now ELSE read.resolvedAt
  OBVIOUS
<1>5. new \in IncidentRow
  BY <1>1 DEF IncidentRow, Moment
<1> QED
  BY <1>1, <1>2, <1>3, <1>4, <1>5 DEF Continues, Settled

(* Where the row is still the one that was read, the UPDATE makes it the new one.       *)
LEMMA ChangedIs ==
    ASSUME NEW row \in IncidentRow, NEW e, e.read \in IncidentRow, e.new \in IncidentRow
    PROVE  Store!Changed(row, e) \in IncidentRow /\ (e.read = row => Store!Changed(row, e) = e.new)
<1>1. DOMAIN row = {"status", "resolvedAt"} /\ DOMAIN e.new = {"status", "resolvedAt"}
  BY DEF IncidentRow
<1>2. /\ row.status \in Store!Statuses /\ row.resolvedAt \in Moment
      /\ e.new.status \in Store!Statuses /\ e.new.resolvedAt \in Moment
  BY DEF IncidentRow
<1>3. Store!Changed(row, e) = [c \in {"status", "resolvedAt"} |-> IF e.new[c] # e.read[c] THEN e.new[c] ELSE row[c]]
  BY <1>1 DEF Store!Changed
<1>4. Store!Changed(row, e) = [status |-> IF e.new.status # e.read.status THEN e.new.status ELSE row.status,
                               resolvedAt |-> IF e.new.resolvedAt # e.read.resolvedAt THEN e.new.resolvedAt ELSE row.resolvedAt]
  BY <1>3
<1>5. Store!Changed(row, e) \in IncidentRow
  BY <1>2, <1>4 DEF IncidentRow
<1>6. ASSUME e.read = row
      PROVE  Store!Changed(row, e) = e.new
  <2>1. e.new = [status |-> e.new.status, resolvedAt |-> e.new.resolvedAt]
    BY DEF IncidentRow
  <2> QED
    BY <1>4, <1>6, <2>1
<1> QED
  BY <1>5, <1>6

(* The steps of one analyst.                                                            *)
LEMMA LoadAlertDoes ==
    ASSUME StoreTypes, NEW a \in Analysts, Store!LoadAlert(a)
    PROVE  /\ UNCHANGED <<storeTime, incidents, racedOn>> /\ DOMAIN edit' = Analysts
           /\ edit'[a].of = "alert" /\ \A b \in Analysts : b # a => edit'[b] = edit[b]
BY DEF Store!LoadAlert, StoreTypes

LEMMA LoadIncidentDoes ==
    ASSUME StoreTypes, NEW a \in Analysts, Store!LoadIncident(a)
    PROVE  /\ UNCHANGED <<storeTime, incidents>> /\ DOMAIN edit' = Analysts
           /\ edit[a].of = "nothing" /\ edit'[a].of = "incident" /\ edit'[a].id \in 1..Len(incidents)
           /\ edit'[a].read = incidents[edit'[a].id] /\ edit'[a].read \in IncidentRow /\ edit'[a].new \in IncidentRow
           /\ Continues(edit'[a].read, edit'[a].new)
           /\ (\A b \in Analysts : b # a => edit'[b] = edit[b]) /\ racedOn \subseteq racedOn'
           /\ edit'[a].id \notin racedOn' => \A b \in Analysts : edit[b].of = "incident" => edit[b].id # edit'[a].id
<1>1. PICK id \in DOMAIN incidents, to \in Store!Statuses :
        LET read == incidents[id]
            new  == [status |-> to,
                     resolvedAt |-> IF Store!Order(to) >= Store!Order("resolved") /\ read.resolvedAt = -1
                                    THEN storeTime ELSE read.resolvedAt]
        IN  /\ Store!MayMove(read.status, to)
            /\ edit' = [edit EXCEPT ![a] = [of |-> "incident", id |-> id, read |-> read, new |-> new]]
            /\ racedOn' = IF \E b \in Analysts : edit[b].of = "incident" /\ edit[b].id = id
                          THEN racedOn \cup {id} ELSE racedOn
  BY DEF Store!LoadIncident
<1> DEFINE read == incidents[id]
           new  == [status |-> to,
                    resolvedAt |-> IF Store!Order(to) >= Store!Order("resolved") /\ read.resolvedAt = -1
                                   THEN storeTime ELSE read.resolvedAt]
<1>2. read \in IncidentRow /\ id \in 1..Len(incidents) /\ storeTime \in Nat
  BY DEF StoreTypes
<1>3. new \in IncidentRow /\ Continues(read, new)
  BY <1>1, <1>2, LoadContinues
<1>4. edit' = [edit EXCEPT ![a] = [of |-> "incident", id |-> id, read |-> read, new |-> new]]
  BY <1>1
<1>5. racedOn \subseteq racedOn' /\ (id \notin racedOn' => \A b \in Analysts : edit[b].of = "incident" => edit[b].id # id)
  BY <1>1
<1> HIDE DEF new
<1>6. /\ edit'[a].of = "incident" /\ edit'[a].id = id /\ edit'[a].read = read /\ edit'[a].new = new
      /\ DOMAIN edit' = Analysts /\ \A b \in Analysts : b # a => edit'[b] = edit[b]
  BY <1>4 DEF StoreTypes
<1>7. UNCHANGED <<storeTime, incidents>> /\ edit[a].of = "nothing"
  BY DEF Store!LoadIncident, Store!Busy
<1> QED
  BY <1>2, <1>3, <1>5, <1>6, <1>7

LEMMA SaveDoes ==
    ASSUME StoreTypes, NEW a \in Analysts, Store!Save(a)
    PROVE  /\ UNCHANGED <<storeTime, racedOn>> /\ DOMAIN edit' = Analysts
           /\ edit'[a].of = "nothing" /\ \A b \in Analysts : b # a => edit'[b] = edit[b]
           /\ \/ edit[a].of = "alert" /\ incidents' = incidents
              \/ /\ edit[a].of = "incident" /\ edit[a].id \in 1..Len(incidents)
                 /\ Len(incidents') = Len(incidents) /\ incidents' \in Seq(IncidentRow)
                 /\ \A i \in 1..Len(incidents) : i # edit[a].id => incidents'[i] = incidents[i]
                 /\ edit[a].read = incidents[edit[a].id] => incidents'[edit[a].id] = edit[a].new
<1>1. /\ UNCHANGED <<storeTime, racedOn>> /\ edit' = [edit EXCEPT ![a] = [of |-> "nothing"]] /\ edit[a].of # "nothing"
      /\ edit[a].of = "alert" => incidents' = incidents
      /\ edit[a].of # "alert" => incidents' = [incidents EXCEPT ![edit[a].id] = Store!Changed(incidents[edit[a].id], edit[a])]
  BY DEF Store!Save, Store!NoEdit, Store!Busy
<1>2. DOMAIN edit' = Analysts /\ edit'[a].of = "nothing" /\ \A b \in Analysts : b # a => edit'[b] = edit[b]
  BY <1>1 DEF StoreTypes
<1>3. CASE edit[a].of = "alert"
  BY <1>1, <1>2, <1>3
<1>4. CASE edit[a].of = "incident"
  <2> DEFINE id  == edit[a].id
             row == Store!Changed(incidents[id], edit[a])
  <2>1. id \in 1..Len(incidents) /\ incidents \in Seq(IncidentRow) /\ edit[a].read \in IncidentRow /\ edit[a].new \in IncidentRow
    BY <1>4 DEF StoreTypes
  <2>2. incidents[id] \in IncidentRow
    BY <2>1
  <2>3. row \in IncidentRow /\ (edit[a].read = incidents[id] => row = edit[a].new)
    BY <2>1, <2>2, ChangedIs
  <2>4. incidents' = [incidents EXCEPT ![id] = row]
    BY <1>1, <1>4
  <2> HIDE DEF row, id
  <2>5. /\ Len(incidents') = Len(incidents) /\ incidents' \in Seq(IncidentRow) /\ incidents'[id] = row
        /\ \A i \in 1..Len(incidents) : i # id => incidents'[i] = incidents[i]
    BY <2>1, <2>3, <2>4, ExceptSeq
  <2> QED
    BY <1>1, <1>2, <1>4, <2>1, <2>3, <2>5 DEF id
<1> QED
  BY <1>1, <1>3, <1>4 DEF StoreTypes

LEMMA StoreTypesStep ==
    ASSUME StoreTypes, [Store!Next]_(Store!storeVars)
    PROVE  StoreTypes'
<1>1. ASSUME UNCHANGED <<incidents, edit>>, storeTime' \in Nat
      PROVE  StoreTypes'
  BY <1>1 DEF StoreTypes
<1>2. CASE UNCHANGED Store!storeVars \/ Store!Store \/ Store!Tick
  BY <1>1, <1>2 DEF Store!storeVars, Store!Store, Store!Tick, StoreTypes
<1>3. CASE Store!CreateIncident
  <2>1. incidents' = Append(incidents, [status |-> "open", resolvedAt |-> -1]) /\ UNCHANGED <<storeTime, edit>>
    BY <1>3 DEF Store!CreateIncident
  <2>2. [status |-> "open", resolvedAt |-> -1] \in IncidentRow
    BY DEF IncidentRow, Moment, Store!Statuses
  <2>3. incidents' \in Seq(IncidentRow) /\ Len(incidents') = Len(incidents) + 1 /\ Len(incidents) \in Nat
    BY <2>1, <2>2 DEF StoreTypes
  <2>4. 1..Len(incidents) \subseteq 1..Len(incidents')
    BY <2>3
  <2> QED
    BY <2>1, <2>3, <2>4 DEF StoreTypes
<1>4. ASSUME NEW a \in Analysts, UNCHANGED storeTime, incidents' \in Seq(IncidentRow), Len(incidents') = Len(incidents),
             DOMAIN edit' = Analysts, \A b \in Analysts : b # a => edit'[b] = edit[b],
             edit'[a].of \in {"nothing", "alert", "incident"},
             edit'[a].of = "incident" =>
                edit'[a].id \in 1..Len(incidents) /\ edit'[a].read \in IncidentRow /\ edit'[a].new \in IncidentRow
      PROVE  StoreTypes'
  BY <1>4 DEF StoreTypes
<1>5. ASSUME NEW a \in Analysts, Store!LoadAlert(a) \/ Store!LoadIncident(a) \/ Store!Save(a)
      PROVE  StoreTypes'
  <2>1. incidents \in Seq(IncidentRow)
    BY DEF StoreTypes
  <2>2. CASE Store!LoadAlert(a)
    BY <1>4, <2>1, <2>2, LoadAlertDoes
  <2>3. CASE Store!LoadIncident(a)
    BY <1>4, <2>1, <2>3, LoadIncidentDoes
  <2>4. CASE Store!Save(a)
    BY <1>4, <2>1, <2>4, SaveDoes
  <2> QED
    BY <1>5, <2>2, <2>3, <2>4
<1>6. ASSUME NEW r \in Readers, Store!StartWalk(r) \/ Store!NextPage(r)
      PROVE  StoreTypes'
  BY <1>1, <1>6 DEF Store!StartWalk, Store!NextPage, StoreTypes
<1> QED
  BY <1>2, <1>3, <1>5, <1>6 DEF Store!Next

LEMMA ForwardStep ==
    ASSUME StoreTypes, Forward, [Store!Next]_(Store!storeVars)
    PROVE  /\ Forward'
           /\ \A i \in DOMAIN incidents \ racedOn :
                /\ Store!Order(incidents'[i].status) >= Store!Order(incidents[i].status)
                /\ incidents[i].resolvedAt # -1 => incidents'[i].resolvedAt = incidents[i].resolvedAt
<1> DEFINE Onward == \A i \in DOMAIN incidents \ racedOn :
                        /\ Store!Order(incidents'[i].status) >= Store!Order(incidents[i].status)
                        /\ incidents[i].resolvedAt # -1 => incidents'[i].resolvedAt = incidents[i].resolvedAt
<1>0. /\ incidents \in Seq(IncidentRow) /\ DOMAIN incidents = 1..Len(incidents) /\ Len(incidents) \in Nat
      /\ \A i \in 1..Len(incidents) : Store!Order(incidents[i].status) \in 1..4
  <2>1. incidents \in Seq(IncidentRow)
    BY DEF StoreTypes
  <2>2. \A i \in 1..Len(incidents) : incidents[i].status \in Store!Statuses
    <3> SUFFICES ASSUME NEW i \in 1..Len(incidents) PROVE incidents[i].status \in Store!Statuses
      OBVIOUS
    <3>1. incidents[i] \in IncidentRow
      BY <2>1
    <3> QED
      BY <3>1 DEF IncidentRow
  <2> QED
    BY <2>1, <2>2, OrderIs
<1>1. ASSUME \A i \in 1..Len(incidents) : incidents'[i] = incidents[i]
      PROVE  Onward
  BY <1>0, <1>1
<1>2. ASSUME UNCHANGED <<incidents, edit, racedOn>>
      PROVE  Forward' /\ Onward
  <2>1. Forward'
    BY <1>2 DEF Forward
  <2> QED
    BY <1>1, <1>2, <2>1
<1>3. CASE Store!CreateIncident
  <2>1. incidents' = Append(incidents, [status |-> "open", resolvedAt |-> -1]) /\ UNCHANGED <<edit, racedOn>>
    BY <1>3 DEF Store!CreateIncident
  <2>2. /\ Len(incidents') = Len(incidents) + 1 /\ \A i \in 1..Len(incidents) : incidents'[i] = incidents[i]
        /\ incidents'[Len(incidents) + 1] = [status |-> "open", resolvedAt |-> -1]
    BY <1>0, <2>1
  <2>4. Settled([status |-> "open", resolvedAt |-> -1])
    BY OrderIs DEF Settled
  <2>5. \A i \in 1..Len(incidents') : i \notin racedOn' => Settled(incidents'[i])
    <3> SUFFICES ASSUME NEW i \in 1..Len(incidents'), i \notin racedOn PROVE Settled(incidents'[i])
      BY <2>1
    <3>1. i \in 1..Len(incidents) \/ i = Len(incidents) + 1
      BY <1>0, <2>2
    <3> QED
      BY <2>2, <2>4, <3>1 DEF Forward
  <2>6. \A a \in Analysts : edit[a].of = "incident" => incidents'[edit[a].id] = incidents[edit[a].id]
    BY <2>2 DEF StoreTypes
  <2>7. Forward'
    BY <2>1, <2>5, <2>6 DEF Forward
  <2> QED
    BY <1>1, <2>2, <2>7
<1>4. ASSUME NEW a \in Analysts, Store!LoadAlert(a)
      PROVE  Forward' /\ Onward
  <2>1. UNCHANGED <<incidents, racedOn>> /\ edit'[a].of = "alert" /\ \A b \in Analysts : b # a => edit'[b] = edit[b]
    BY <1>4, LoadAlertDoes
  <2>2. Forward'
    BY <2>1 DEF Forward
  <2> QED
    BY <1>1, <2>1, <2>2
<1>5. ASSUME NEW a \in Analysts, Store!LoadIncident(a)
      PROVE  Forward' /\ Onward
  <2>1. /\ incidents' = incidents /\ edit'[a].of = "incident" /\ edit'[a].read = incidents[edit'[a].id]
        /\ Continues(edit'[a].read, edit'[a].new)
        /\ (\A b \in Analysts : b # a => edit'[b] = edit[b]) /\ racedOn \subseteq racedOn'
        /\ edit'[a].id \notin racedOn' => \A b \in Analysts : edit[b].of = "incident" => edit[b].id # edit'[a].id
    BY <1>5, LoadIncidentDoes
  <2>4. ASSUME NEW b \in Analysts, edit'[b].of = "incident", edit'[b].id \notin racedOn'
        PROVE  /\ edit'[b].read = incidents'[edit'[b].id] /\ Continues(edit'[b].read, edit'[b].new)
               /\ \A c \in Analysts : c # b /\ edit'[c].of = "incident" => edit'[c].id # edit'[b].id
    <3>1. CASE b = a
      BY <2>1, <2>4, <3>1
    <3>2. CASE b # a
      <4>1. edit'[b] = edit[b] /\ edit[b].id \notin racedOn
        BY <2>1, <2>4, <3>2
      <4>2. /\ edit[b].read = incidents[edit[b].id] /\ Continues(edit[b].read, edit[b].new)
            /\ \A c \in Analysts : c # b /\ edit[c].of = "incident" => edit[c].id # edit[b].id
        BY <2>4, <4>1 DEF Forward
      <4>3. edit'[a].id # edit[b].id
        BY <2>1, <2>4, <4>1
      <4> QED
        BY <2>1, <3>2, <4>1, <4>2, <4>3
    <3> QED
      BY <3>1, <3>2
  <2>5. \A i \in 1..Len(incidents') : i \notin racedOn' => Settled(incidents'[i])
    BY <2>1 DEF Forward
  <2>6. Forward'
    BY <2>4, <2>5 DEF Forward
  <2> QED
    BY <1>1, <2>1, <2>6
<1>6. ASSUME NEW a \in Analysts, Store!Save(a)
      PROVE  Forward' /\ Onward
  <2>1. /\ racedOn' = racedOn /\ edit'[a].of = "nothing" /\ \A b \in Analysts : b # a => edit'[b] = edit[b]
    BY <1>6, SaveDoes
  <2>2. CASE incidents' = incidents
    <3>1. Forward'
      BY <2>1, <2>2 DEF Forward
    <3> QED
      BY <1>1, <2>2, <3>1
  <2>3. CASE incidents' # incidents
    <3> DEFINE id == edit[a].id
    <3>1. /\ edit[a].of = "incident" /\ id \in 1..Len(incidents) /\ Len(incidents') = Len(incidents)
          /\ \A i \in 1..Len(incidents) : i # id => incidents'[i] = incidents[i]
          /\ edit[a].read = incidents[id] => incidents'[id] = edit[a].new
      BY <1>6, <2>3, SaveDoes
    <3>2. id \notin racedOn =>
            /\ incidents'[id] = edit[a].new /\ Continues(incidents[id], edit[a].new) /\ Settled(incidents[id])
            /\ \A b \in Analysts : b # a /\ edit[b].of = "incident" => edit[b].id # id
      BY <3>1 DEF Forward
    <3>3. id \notin racedOn => Continues(incidents[id], incidents'[id]) /\ Settled(incidents'[id])
      BY <3>2 DEF Continues
    <3>4. \A i \in 1..Len(incidents) : i \notin racedOn => Settled(incidents'[i])
      BY <3>1, <3>3 DEF Forward
    <3>5. ASSUME NEW b \in Analysts, edit'[b].of = "incident", edit'[b].id \notin racedOn'
          PROVE  /\ edit'[b].read = incidents'[edit'[b].id] /\ Continues(edit'[b].read, edit'[b].new)
                 /\ \A c \in Analysts : c # b /\ edit'[c].of = "incident" => edit'[c].id # edit'[b].id
      <4>1. b # a /\ edit'[b] = edit[b] /\ edit[b].id \notin racedOn
        BY <2>1, <3>5
      <4>2. /\ edit[b].read = incidents[edit[b].id] /\ Continues(edit[b].read, edit[b].new)
            /\ (\A c \in Analysts : c # b /\ edit[c].of = "incident" => edit[c].id # edit[b].id) /\ edit[b].id \in 1..Len(incidents)
        BY <3>5, <4>1 DEF Forward, StoreTypes
      <4>3. edit[b].id # id
        BY <3>1, <4>1, <4>2
      <4>4. \A c \in Analysts : c # b /\ edit'[c].of = "incident" => edit'[c].id # edit[b].id
        BY <2>1, <4>2
      <4> QED
        BY <3>1, <4>1, <4>2, <4>3, <4>4
    <3>6. Forward'
      BY <2>1, <3>1, <3>4, <3>5 DEF Forward
    <3>7. Onward
      <4> SUFFICES ASSUME NEW i \in 1..Len(incidents), i \notin racedOn
                   PROVE  /\ Store!Order(incidents'[i].status) >= Store!Order(incidents[i].status)
                          /\ incidents[i].resolvedAt # -1 => incidents'[i].resolvedAt = incidents[i].resolvedAt
        BY <1>0
      <4>1. CASE i = id
        BY <3>3, <4>1 DEF Continues
      <4>2. CASE i # id
        BY <1>0, <3>1, <4>2
      <4> QED
        BY <4>1, <4>2
    <3> QED
      BY <3>6, <3>7
  <2> QED
    BY <2>2, <2>3
<1>7. CASE UNCHANGED Store!storeVars \/ Store!Store \/ Store!Tick \/ \E r \in Readers : Store!StartWalk(r) \/ Store!NextPage(r)
  BY <1>2, <1>7 DEF Store!storeVars, Store!Store, Store!Tick, Store!StartWalk, Store!NextPage
<1> QED
  BY <1>3, <1>4, <1>5, <1>6, <1>7 DEF Store!Next

(* An incident moves forward and is resolved once, however many analysts read, decide and *)
(* store, except where two of them had it in hand at once.                               *)
THEOREM IncidentsMoveForwardHolds == Store!Spec => Store!IncidentsMoveForward
<1> DEFINE Onward == \A i \in DOMAIN incidents \ racedOn :
                        /\ Store!Order(incidents'[i].status) >= Store!Order(incidents[i].status)
                        /\ incidents[i].resolvedAt # -1 => incidents'[i].resolvedAt = incidents[i].resolvedAt
           Resolved == \A i \in DOMAIN incidents \ racedOn :
                        (incidents[i].resolvedAt # -1) = (Store!Order(incidents[i].status) >= Store!Order("resolved"))
<1>1. Store!Init => StoreTypes /\ Forward
  <2> SUFFICES ASSUME Store!Init PROVE StoreTypes /\ Forward
    OBVIOUS
  <2>1. storeTime = 0 /\ incidents = <<>> /\ edit = [a \in Analysts |-> [of |-> "nothing"]]
    BY DEF Store!Init, Store!NoEdit
  <2>2. \A a \in Analysts : edit[a].of = "nothing"
    BY <2>1
  <2>3. incidents \in Seq(IncidentRow) /\ Len(incidents) = 0 /\ 1..0 = {}
    BY <2>1
  <2> QED
    BY <2>1, <2>2, <2>3 DEF StoreTypes, Forward
<1>2. StoreTypes /\ Forward /\ [Store!Next]_(Store!storeVars) => (StoreTypes /\ Forward)'
  BY StoreTypesStep, ForwardStep
<1>3. StoreTypes /\ Forward /\ [Store!Next]_(Store!storeVars) => [Onward]_(Store!storeVars)
  BY ForwardStep
<1>4. StoreTypes /\ Forward => Resolved
  <2> SUFFICES ASSUME StoreTypes, Forward, NEW i \in DOMAIN incidents \ racedOn
               PROVE  (incidents[i].resolvedAt # -1) = (Store!Order(incidents[i].status) >= Store!Order("resolved"))
    OBVIOUS
  <2>1. i \in 1..Len(incidents)
    BY DEF StoreTypes
  <2> QED
    BY <2>1 DEF Forward, Settled
<1> QED
  BY <1>1, <1>2, <1>3, <1>4, PTL DEF Store!Spec, Store!IncidentsMoveForward

LEMMA StoreLibrary ==
    ASSUME NEW S
    PROVE  Store!Cardinality(S) = Cardinality(S) /\ Store!ToSet(S) = {S[i] : i \in DOMAIN S}
BY DEF Store!Cardinality, Cardinality, Store!IsFiniteSet, IsFiniteSet, Store!ToSet

(* In a listing from the newest to the oldest, as many rows are before a row as are newer. *)
LEMMA PlaceInListing ==
    ASSUME NEW M, M \subseteq Nat, IsFiniteSet(M), NEW order \in [1..Cardinality(M) -> M],
           \A i, j \in 1..Cardinality(M) : i < j => order[i] > order[j]
    PROVE  \A id \in M : \E k \in 1..Cardinality(M) :
              order[k] = id /\ Cardinality({x \in M : x > id}) = k - 1
<1> DEFINE n == Cardinality(M)
<1>1. n \in Nat /\ IsFiniteSet(1..n) /\ Cardinality(1..n) = n
  BY FS_CardinalityType, FS_Interval
<1>2. \A i, j \in 1..n : order[i] = order[j] => i = j
  <2> SUFFICES ASSUME NEW i \in 1..n, NEW j \in 1..n, i # j PROVE order[i] # order[j]
    OBVIOUS
  <2>0. order[i] \in M /\ order[j] \in M
    OBVIOUS
  <2>3. order[i] \in Nat /\ order[j] \in Nat
    BY <2>0
  <2>1. order[i] \in Nat /\ order[j] \in Nat /\ i \in Int /\ j \in Int
    BY <1>1, <2>3
  <2>2. i < j \/ j < i
    BY <2>1
  <2> QED
    BY <2>1, <2>2
<1>3. order \in Injection(1..n, M)
  BY <1>2 DEF Injection, IsInjective
<1>4. order \in Surjection(1..n, M)
  BY <1>1, <1>3, FS_Injection
<1> SUFFICES ASSUME NEW id \in M
             PROVE  \E k \in 1..n : order[k] = id /\ Cardinality({x \in M : x > id}) = k - 1
  OBVIOUS
<1>5. PICK k \in 1..n : order[k] = id
  BY <1>4 DEF Surjection
<1> DEFINE T == {x \in M : x > id}  f == [i \in 1..(k - 1) |-> order[i]]
<1>6. \A i \in 1..(k - 1) : i \in 1..n /\ i < k
  BY <1>1
<1>7. f \in [1..(k - 1) -> T]
  <2> SUFFICES ASSUME NEW i \in 1..(k - 1) PROVE order[i] \in T
    OBVIOUS
  <2> QED
    BY <1>5, <1>6
<1>8. \A i, j \in 1..(k - 1) : f[i] = f[j] => i = j
  BY <1>2, <1>6
<1>9. \A x \in T : \E i \in 1..(k - 1) : f[i] = x
  <2> SUFFICES ASSUME NEW x \in T PROVE \E i \in 1..(k - 1) : f[i] = x
    OBVIOUS
  <2>1. PICK i \in 1..n : order[i] = x
    BY <1>4 DEF Surjection
  <2>2. x \in Nat /\ id \in Nat /\ x > id /\ i \in Nat /\ k \in Nat
    BY <1>1
  <2>3. i # k /\ ~(k < i)
    BY <1>5, <2>1, <2>2
  <2>4. i \in 1..(k - 1)
    BY <1>1, <2>2, <2>3
  <2> QED
    BY <2>1, <2>4
<1>10. IsFiniteSet(1..(k - 1)) /\ Cardinality(1..(k - 1)) = k - 1
  <2>1. k - 1 \in Nat
    BY <1>1
  <2> QED
    BY <2>1, FS_Interval
<1> HIDE DEF f, T
<1>11. f \in Injection(1..(k - 1), T) /\ f \in Surjection(1..(k - 1), T)
  BY <1>7, <1>8, <1>9 DEF Injection, IsInjective, Surjection
<1>12. Cardinality(T) = k - 1
  BY <1>10, <1>11, FS_Surjection
<1> QED
  BY <1>5, <1>12 DEF T

(* A page holds the places between its offset and the next one; one that is not full is the last. *)
LEMMA PageHolds ==
    ASSUME NEW M, NEW n \in Nat, NEW order \in [1..n -> M], NEW offset \in Nat, NEW limit \in Nat \ {0}
    PROVE  LET page == Store!Page(order, offset, limit)
           IN  /\ \A k \in 1..n : offset < k /\ k <= offset + limit => order[k] \in Store!ToSet(page)
               /\ Len(page) < limit => n < offset + limit
<1> DEFINE m    == IF offset + limit < n THEN offset + limit ELSE n
           page == SubSeq(order, offset + 1, m)
<1>1. order \in Seq(M) /\ Len(order) = n
  OBVIOUS
<1>2. Store!Page(order, offset, limit) = page
  BY <1>1 DEF Store!Page
<1>3. m \in Nat /\ m <= n /\ m <= offset + limit /\ (m = n \/ m = offset + limit)
  OBVIOUS
<1> HIDE DEF m
<1>4. /\ page \in Seq(M) /\ Len(page) = IF offset + 1 <= m THEN m - offset ELSE 0
      /\ \A i \in 1..(m - offset) : page[i] = order[i + offset]
  <2>1. \A i \in (offset + 1)..m : order[i] \in M
    BY <1>3
  <2>2. /\ page \in Seq(M) /\ Len(page) = IF offset + 1 <= m THEN m - (offset + 1) + 1 ELSE 0
        /\ \A i \in 1..(m - (offset + 1) + 1) : page[i] = order[(offset + 1) + i - 1]
    <3>1. offset + 1 \in Int /\ m \in Int
      BY <1>3
    <3> QED
      BY <2>1, <3>1, SubSeqProperties, SMTT(30)
  <2>3. m - (offset + 1) + 1 = m - offset /\ \A i \in Int : (offset + 1) + i - 1 = i + offset
    BY <1>3
  <2> QED
    BY <2>2, <2>3
<1> HIDE DEF page
<1>5. DOMAIN page = 1..Len(page)
  BY <1>4
<1>6. ASSUME NEW k \in 1..n, offset < k, k <= offset + limit
      PROVE  order[k] \in {page[i] : i \in DOMAIN page}
  <2>1. k <= m /\ k - offset \in 1..(m - offset)
    BY <1>3, <1>6
  <2>2. page[k - offset] = order[k] /\ k - offset \in DOMAIN page
    BY <1>3, <1>4, <1>5, <2>1
  <2> QED
    BY <2>2
<1>7. ASSUME ~(n < offset + limit)
      PROVE  ~(Len(page) < limit)
  <2>1. m = offset + limit
    BY <1>3, <1>7
  <2>3. Len(page) = limit
    BY <1>4, <2>1
  <2> QED
    BY <2>3
<1> QED
  BY <1>2, <1>6, <1>7, StoreLibrary

(* Alerts are stored in the order of their timestamps, which no edit changes. *)
RowsInOrder ==
    /\ storeTime \in Nat /\ rows \in Seq(Range(rows))
    /\ \A i \in 1..Len(rows) : "at" \in DOMAIN rows[i] /\ rows[i].at \in 0..storeTime
    /\ \A i, j \in 1..Len(rows) : i < j => rows[i].at <= rows[j].at
    /\ DOMAIN edit = Analysts
    /\ \A a \in Analysts : edit[a].of = "alert" => edit[a].id \in 1..Len(rows) /\ edit[a].new.at = edit[a].read.at

WalkFields == {"at", "via", "filter", "offset", "seen", "disturbed", "limit", "owed"}

WalkTypes ==
    /\ DOMAIN walk = Readers
    /\ \A r \in Readers :
         /\ walk[r].at \in {"idle", "page", "done"}
         /\ walk[r].at # "idle" =>
              /\ DOMAIN walk[r] = WalkFields /\ walk[r].offset \in Nat /\ walk[r].limit \in Nat \ {0}
              /\ walk[r].via \in {"mcp", "rest"}

(* What was listed when a walk began is seen, or still to come: as many newer rows are  *)
(* listed as were passed over.                                                          *)
Owed(w, rs) ==
    /\ w.owed \subseteq Store!Matching(rs, w.filter)
    /\ \A id \in w.owed : id \in w.seen \/ Cardinality({x \in Store!Matching(rs, w.filter) : x > id}) >= w.offset

Sound(w, rs) == (w.at = "page" => Owed(w, rs)) /\ (w.at = "done" => w.owed \subseteq w.seen)

WalksSound ==
    \A r \in Readers : walk[r].at # "idle" /\ ~walk[r].disturbed /\ (walk[r].via = "rest" => ~Store!Ties) => Sound(walk[r], rows)

LEMMA SeqOfItsRange == ASSUME NEW S, NEW s \in Seq(S) PROVE s \in Seq(Range(s))
BY DEF Range

LEMMA MatchingIsFinite ==
    ASSUME NEW rs, Len(rs) \in Nat, DOMAIN rs = 1..Len(rs), NEW f
    PROVE  /\ Store!Matching(rs, f) \subseteq 1..Len(rs) /\ Store!Matching(rs, f) \subseteq Nat
           /\ IsFiniteSet(Store!Matching(rs, f))
<1>1. Store!Matching(rs, f) \subseteq 1..Len(rs) /\ Store!Matching(rs, f) \subseteq Nat
  BY DEF Store!Matching
<1>2. IsFiniteSet(1..Len(rs))
  BY FS_Interval
<1> QED
  BY <1>1, <1>2, FS_Subset

(* The rows that are left or come to a listing are not missed.                          *)
LEMMA OwedGrows ==
    ASSUME NEW w, NEW rs, NEW ts, w.offset \in Nat, Owed(w, rs), IsFiniteSet(Store!Matching(ts, w.filter)),
           Store!Matching(rs, w.filter) \subseteq Store!Matching(ts, w.filter)
    PROVE  Owed(w, ts)
<1> DEFINE M == Store!Matching(rs, w.filter)  T == Store!Matching(ts, w.filter)
<1>1. w.owed \subseteq T
  BY DEF Owed
<1>2. ASSUME NEW id, id \in w.owed, id \notin w.seen
      PROVE  Cardinality({x \in T : x > id}) >= w.offset
  <2> DEFINE A == {x \in M : x > id}  B == {x \in T : x > id}
  <2>1. Cardinality(A) >= w.offset
    BY <1>2 DEF Owed
  <2>2. A \subseteq B /\ B \subseteq T
    OBVIOUS
  <2> HIDE DEF A, B, T
  <2>3. IsFiniteSet(B)
    BY <2>2, FS_Subset DEF T
  <2>4. IsFiniteSet(A) /\ Cardinality(A) <= Cardinality(B)
    BY <2>2, <2>3, FS_Subset
  <2>5. Cardinality(A) \in Nat /\ Cardinality(B) \in Nat
    BY <2>3, <2>4, FS_CardinalityType
  <2>6. Cardinality(B) >= w.offset
    BY <2>1, <2>4, <2>5
  <2> QED
    BY <2>6 DEF B
<1> QED
  BY <1>1, <1>2 DEF Owed

(* What no step does: take a row away, or change the timestamp of one.                  *)
KeepsRows == Len(rows) <= Len(rows') /\ \A i \in 1..Len(rows) : rows'[i].at = rows[i].at

LEMMA StoreDoes ==
    ASSUME RowsInOrder, Store!Store
    PROVE  /\ RowsInOrder' /\ KeepsRows /\ walk' = walk
           /\ \A i \in 1..Len(rows) : rows'[i] = rows[i]
<1>1. PICK new \in NewAlerts :
        LET row == [at |-> storeTime, acked |-> FALSE, label |-> "none", incident |-> 0]
        IN  rows' = Append(rows, [c \in DOMAIN row \cup DOMAIN new |-> IF c \in DOMAIN row THEN row[c] ELSE new[c]])
  BY DEF Store!Store
<1> DEFINE row == [at |-> storeTime, acked |-> FALSE, label |-> "none", incident |-> 0]
           stored == [c \in DOMAIN row \cup DOMAIN new |-> IF c \in DOMAIN row THEN row[c] ELSE new[c]]
<1>2. "at" \in DOMAIN stored /\ stored.at = storeTime
  OBVIOUS
<1>3. rows' = Append(rows, stored) /\ UNCHANGED <<storeTime, edit, walk>>
  BY <1>1 DEF Store!Store
<1> HIDE DEF row, stored
<1>4. /\ rows' \in Seq(Range(rows) \cup {stored}) /\ Len(rows) \in Nat /\ Len(rows') = Len(rows) + 1
      /\ \A i \in 1..Len(rows) : rows'[i] = rows[i]
      /\ rows'[Len(rows) + 1] = stored
  <2>1. rows \in Seq(Range(rows) \cup {stored}) /\ stored \in Range(rows) \cup {stored}
    BY DEF RowsInOrder
  <2> QED
    BY <1>3, <2>1, AppendProperties
<1>5. rows' \in Seq(Range(rows)')
  BY <1>4, SeqOfItsRange
<1>6. \A i \in 1..Len(rows') : i = Len(rows) + 1 \/ i \in 1..Len(rows)
  BY <1>4
<1>7. \A i \in 1..Len(rows') : "at" \in DOMAIN rows'[i] /\ rows'[i].at \in 0..storeTime
  BY <1>2, <1>4, <1>6 DEF RowsInOrder
<1>8. \A i, j \in 1..Len(rows') : i < j => rows'[i].at <= rows'[j].at
  <2> SUFFICES ASSUME NEW i \in 1..Len(rows'), NEW j \in 1..Len(rows'), i < j PROVE rows'[i].at <= rows'[j].at
    OBVIOUS
  <2>1. i \in 1..Len(rows)
    BY <1>4
  <2>2. CASE j = Len(rows) + 1
    BY <1>2, <1>4, <1>7, <2>2
  <2>3. CASE j \in 1..Len(rows)
    BY <1>4, <2>1, <2>3 DEF RowsInOrder
  <2> QED
    BY <1>6, <2>2, <2>3
<1>9. \A a \in Analysts : edit[a].of = "alert" => edit[a].id \in 1..Len(rows') /\ edit[a].new.at = edit[a].read.at
  BY <1>4 DEF RowsInOrder
<1>10. RowsInOrder'
  BY <1>3, <1>5, <1>7, <1>8, <1>9 DEF RowsInOrder
<1> QED
  BY <1>3, <1>4, <1>10 DEF KeepsRows

LEMMA TiesStay ==
    ASSUME RowsInOrder, RowsInOrder', KeepsRows, Store!Ties
    PROVE  Store!Ties'
<1>1. PICK i \in 1..Len(rows), j \in 1..Len(rows) : i # j /\ rows[i].at = rows[j].at
  BY DEF Store!Ties, RowsInOrder
<1>2. i \in DOMAIN rows' /\ j \in DOMAIN rows' /\ rows'[i].at = rows'[j].at
  BY <1>1 DEF RowsInOrder, KeepsRows
<1> QED
  BY <1>1, <1>2 DEF Store!Ties

LEMMA LoadAlertReads ==
    ASSUME RowsInOrder, NEW a \in Analysts, Store!LoadAlert(a)
    PROVE  RowsInOrder' /\ rows' = rows /\ walk' = walk
<1>1. PICK id \in DOMAIN rows, body \in Bodies :
        LET read == rows[id]
            new  == [read EXCEPT !.acked = IF body.acked = "none" THEN @ ELSE body.acked = "yes",
                                 !.label = IF body.label = "none" THEN @ ELSE body.label,
                                 !.incident = IF body.incident \in DOMAIN incidents THEN body.incident ELSE @]
        IN  edit' = [edit EXCEPT ![a] = [of |-> "alert", id |-> id, read |-> read, new |-> new]]
  BY DEF Store!LoadAlert
<1> DEFINE read == rows[id]
           new  == [read EXCEPT !.acked = IF body.acked = "none" THEN @ ELSE body.acked = "yes",
                                !.label = IF body.label = "none" THEN @ ELSE body.label,
                                !.incident = IF body.incident \in DOMAIN incidents THEN body.incident ELSE @]
<1>2. edit' = [edit EXCEPT ![a] = [of |-> "alert", id |-> id, read |-> read, new |-> new]]
  BY <1>1
<1>3. new.at = read.at
  BY DEF RowsInOrder
<1> HIDE DEF new
<1>4. DOMAIN edit' = Analysts /\ edit'[a].id = id /\ edit'[a].new.at = edit'[a].read.at /\ \A b \in Analysts : b # a => edit'[b] = edit[b]
  BY <1>2, <1>3 DEF RowsInOrder
<1>5. UNCHANGED <<storeTime, rows, walk>>
  BY DEF Store!LoadAlert
<1>6. id \in 1..Len(rows)
  BY DEF RowsInOrder
<1> QED
  BY <1>4, <1>5, <1>6 DEF RowsInOrder

LEMMA LoadIncidentReads ==
    ASSUME RowsInOrder, NEW a \in Analysts, Store!LoadIncident(a)
    PROVE  RowsInOrder' /\ rows' = rows /\ walk' = walk
<1>1. /\ UNCHANGED <<storeTime, rows, walk>>
      /\ \E e : e.of = "incident" /\ edit' = [edit EXCEPT ![a] = e]
  BY DEF Store!LoadIncident
<1>2. DOMAIN edit' = Analysts /\ edit'[a].of = "incident" /\ \A b \in Analysts : b # a => edit'[b] = edit[b]
  BY <1>1 DEF RowsInOrder
<1> QED
  BY <1>1, <1>2 DEF RowsInOrder

LEMMA SaveWrites ==
    ASSUME RowsInOrder, WalkTypes, NEW a \in Analysts, Store!Save(a)
    PROVE  /\ RowsInOrder' /\ KeepsRows /\ WalkTypes' /\ Len(rows') = Len(rows)
           /\ \A r \in Readers :
                \/ /\ walk'[r] = walk[r]
                   /\ walk[r].at = "page" =>
                        \A i \in 1..Len(rows) : Store!Passes(rows'[i], walk[r].filter) = Store!Passes(rows[i], walk[r].filter)
                \/ walk'[r].disturbed
<1> DEFINE e == edit[a]
<1>1. /\ UNCHANGED storeTime /\ edit' = [edit EXCEPT ![a] = Store!NoEdit]
      /\ \/ e.of # "alert" /\ UNCHANGED <<rows, walk>>
         \/ /\ e.of = "alert" /\ rows' = [rows EXCEPT ![e.id] = Store!Changed(@, e)]
            /\ walk' = [r \in Readers |->
                 IF walk[r].at = "page" /\ Store!Passes(rows[e.id], walk[r].filter) # Store!Passes(Store!Changed(rows[e.id], e), walk[r].filter)
                 THEN [walk[r] EXCEPT !.disturbed = TRUE] ELSE walk[r]]
  BY DEF Store!Save
<1>2. DOMAIN edit' = Analysts /\ edit'[a].of = "nothing" /\ \A b \in Analysts : b # a => edit'[b] = edit[b]
  BY <1>1 DEF RowsInOrder, Store!NoEdit
<1>3. CASE UNCHANGED <<rows, walk>>
  BY <1>1, <1>2, <1>3 DEF RowsInOrder, WalkTypes, KeepsRows
<1>4. CASE e.of = "alert"
  <2> DEFINE id == e.id  row == Store!Changed(rows[e.id], e)
  <2>1. id \in 1..Len(rows) /\ e.new.at = e.read.at /\ "at" \in DOMAIN rows[id] /\ Len(rows) \in Nat
    BY <1>4 DEF RowsInOrder
  <2>2. "at" \in DOMAIN row /\ row.at = rows[id].at
    BY <2>1 DEF Store!Changed
  <2>3. /\ rows' = [rows EXCEPT ![id] = row]
        /\ walk' = [r \in Readers |->
             IF walk[r].at = "page" /\ Store!Passes(rows[id], walk[r].filter) # Store!Passes(row, walk[r].filter)
             THEN [walk[r] EXCEPT !.disturbed = TRUE] ELSE walk[r]]
    BY <1>1, <1>4
  <2> HIDE DEF row, id
  <2>4. /\ rows' \in Seq(Range(rows) \cup {row}) /\ Len(rows') = Len(rows) /\ rows'[id] = row
        /\ \A i \in 1..Len(rows) : i # id => rows'[i] = rows[i]
    <3>1. rows \in Seq(Range(rows) \cup {row}) /\ row \in Range(rows) \cup {row}
      BY DEF RowsInOrder
    <3> QED
      BY <2>1, <2>3, <3>1, ExceptSeq
  <2>5. rows' \in Seq(Range(rows)')
    BY <2>4, SeqOfItsRange
  <2>6. \A i \in 1..Len(rows) : "at" \in DOMAIN rows'[i] /\ rows'[i].at = rows[i].at
    BY <2>2, <2>4 DEF RowsInOrder
  <2>7. RowsInOrder'
    BY <1>1, <1>2, <2>4, <2>5, <2>6 DEF RowsInOrder
  <2>8. KeepsRows
    BY <2>1, <2>4, <2>6 DEF KeepsRows
  <2>9. ASSUME NEW r \in Readers
        PROVE  /\ \/ /\ walk'[r] = walk[r]
                     /\ walk[r].at = "page" =>
                          \A i \in 1..Len(rows) : Store!Passes(rows'[i], walk[r].filter) = Store!Passes(rows[i], walk[r].filter)
                  \/ walk'[r].disturbed
               /\ walk'[r].at = walk[r].at
               /\ walk'[r].at # "idle" => /\ DOMAIN walk'[r] = WalkFields /\ walk'[r].offset = walk[r].offset
                                          /\ walk'[r].limit = walk[r].limit /\ walk'[r].via = walk[r].via
    <3>1. CASE walk[r].at = "page" /\ Store!Passes(rows[id], walk[r].filter) # Store!Passes(row, walk[r].filter)
      <4>1. walk'[r] = [walk[r] EXCEPT !.disturbed = TRUE] /\ DOMAIN walk[r] = WalkFields
        BY <2>3, <3>1 DEF WalkTypes
      <4> QED
        BY <4>1 DEF WalkFields
    <3>2. CASE ~(walk[r].at = "page" /\ Store!Passes(rows[id], walk[r].filter) # Store!Passes(row, walk[r].filter))
      <4>1. walk'[r] = walk[r]
        BY <2>3, <3>2
      <4>2. walk[r].at = "page" =>
              \A i \in 1..Len(rows) : Store!Passes(rows'[i], walk[r].filter) = Store!Passes(rows[i], walk[r].filter)
        BY <2>4, <3>2
      <4>3. walk[r].at # "idle" => DOMAIN walk[r] = WalkFields
        BY DEF WalkTypes
      <4> QED
        BY <4>1, <4>2, <4>3
    <3> QED
      BY <3>1, <3>2
  <2>10. WalkTypes'
    <3>1. DOMAIN walk' = Readers
      BY <2>3
    <3> QED
      BY <2>9, <3>1 DEF WalkTypes
  <2> QED
    BY <2>4, <2>7, <2>8, <2>9, <2>10
<1> QED
  BY <1>1, <1>3, <1>4

(* A limit is taken from the request, and bounded.                                      *)
LEMMA LimitIs ==
    ASSUME NEW ask \in Walks
    PROVE  LET args == Store!Kwargs(Store!Declared, [limit |-> ask.limit, offset |-> Store!Null, verbose |-> 1])
           IN  Store!Clamp(IF "limit" \in DOMAIN args THEN args.limit ELSE Store!Null, MaxPage, 1, MaxPage) \in Nat \ {0}
<1> DEFINE sent == [limit |-> ask.limit, offset |-> Store!Null, verbose |-> 1]
           args == Store!Kwargs(Store!Declared, sent)
           value == IF "limit" \in DOMAIN args THEN args.limit ELSE Store!Null
<1>1. ask.limit \in Int /\ MaxPage \in Nat \ {0}
  BY WalksAssumption
<1>2. sent.limit = ask.limit
  OBVIOUS
<1>3. "limit" \in DOMAIN args => args.limit = ask.limit
  BY <1>2 DEF Store!Kwargs
<1>4. value \in Int
  BY <1>1, <1>3 DEF Store!Null
<1> HIDE DEF value
<1> QED
  BY <1>1, <1>4 DEF Store!Clamp, value

LEMMA StartWalkDoes ==
    ASSUME RowsInOrder, WalkTypes, NEW r \in Readers, Store!StartWalk(r)
    PROVE  /\ UNCHANGED <<rows, storeTime, edit>> /\ WalkTypes'
           /\ \A s \in Readers : s # r => walk'[s] = walk[s]
           /\ walk'[r].at = "page" /\ Owed(walk'[r], rows)
<1>1. PICK ask \in Walks :
        LET args   == Store!Kwargs(Store!Declared, [limit |-> ask.limit, offset |-> Store!Null, verbose |-> 1])
            filter == [Store!Everything EXCEPT !.acked = ask.acked]
        IN  walk' = [walk EXCEPT ![r] =
                [at |-> "page", via |-> ask.via, filter |-> filter, offset |-> 0, seen |-> {}, disturbed |-> FALSE,
                 limit |-> Store!Clamp(IF "limit" \in DOMAIN args THEN args.limit ELSE Store!Null, MaxPage, 1, MaxPage),
                 owed |-> Store!Matching(rows, filter)]]
  BY DEF Store!StartWalk
<1> DEFINE args   == Store!Kwargs(Store!Declared, [limit |-> ask.limit, offset |-> Store!Null, verbose |-> 1])
           filter == [Store!Everything EXCEPT !.acked = ask.acked]
           limit  == Store!Clamp(IF "limit" \in DOMAIN args THEN args.limit ELSE Store!Null, MaxPage, 1, MaxPage)
<1>2. limit \in Nat \ {0}
  BY LimitIs
<1>3. walk' = [walk EXCEPT ![r] = [at |-> "page", via |-> ask.via, filter |-> filter, offset |-> 0, seen |-> {},
                                   disturbed |-> FALSE, limit |-> limit, owed |-> Store!Matching(rows, filter)]]
  BY <1>1
<1> HIDE DEF limit, filter
<1>4. /\ DOMAIN walk' = Readers /\ \A s \in Readers : s # r => walk'[s] = walk[s]
      /\ walk'[r] = [at |-> "page", via |-> ask.via, filter |-> filter, offset |-> 0, seen |-> {},
                     disturbed |-> FALSE, limit |-> limit, owed |-> Store!Matching(rows, filter)]
  BY <1>3 DEF WalkTypes
<1>5. /\ walk'[r].at = "page" /\ walk'[r].via = ask.via /\ walk'[r].filter = filter /\ walk'[r].offset = 0
      /\ walk'[r].limit = limit /\ walk'[r].owed = Store!Matching(rows, filter) /\ DOMAIN walk'[r] = WalkFields
  BY <1>4 DEF WalkFields
<1>6. ask.via \in {"mcp", "rest"}
  BY WalksAssumption
<1>7. WalkTypes'
  BY <1>2, <1>4, <1>5, <1>6 DEF WalkTypes
<1>8. Owed(walk'[r], rows)
  <2> SUFFICES ASSUME NEW id \in Store!Matching(rows, filter)
               PROVE  Cardinality({x \in Store!Matching(rows, filter) : x > id}) >= 0
    BY <1>5 DEF Owed
  <2> DEFINE B == {x \in Store!Matching(rows, filter) : x > id}
  <2>1. IsFiniteSet(Store!Matching(rows, filter))
    BY MatchingIsFinite DEF RowsInOrder
  <2>2. B \subseteq Store!Matching(rows, filter)
    OBVIOUS
  <2> HIDE DEF B
  <2>3. Cardinality(B) \in Nat
    BY <2>1, <2>2, FS_Subset, FS_CardinalityType
  <2>4. Cardinality(B) >= 0
    BY <2>3
  <2> QED
    BY <2>4 DEF B
<1>9. UNCHANGED <<rows, storeTime, edit>>
  BY DEF Store!StartWalk
<1> QED
  BY <1>4, <1>5, <1>7, <1>8, <1>9

(* Both listings go from the newest id to the oldest, the one of REST if no two alerts   *)
(* have one timestamp.                                                                  *)
LEMMA ListedByAge ==
    ASSUME RowsInOrder, NEW via \in {"mcp", "rest"}, via = "rest" => ~Store!Ties, NEW filter,
           NEW order \in Store!Listing(via, filter)
    PROVE  LET M == Store!Matching(rows, filter)
           IN  /\ order \in [1..Cardinality(M) -> M]
               /\ \A i, j \in 1..Cardinality(M) : i < j => order[i] > order[j]
<1> DEFINE M == Store!Matching(rows, filter)  n == Cardinality(M)
<1>1. IsFiniteSet(M) /\ n \in Nat /\ M \subseteq 1..Len(rows) /\ Len(rows) \in Nat
  BY MatchingIsFinite, FS_CardinalityType DEF RowsInOrder
<1>2. /\ order \in [1..n -> M]
      /\ \A i, j \in 1..n : i < j => /\ rows[order[i]].at >= rows[order[j]].at
                                     /\ via = "rest" => order[i] # order[j]
                                     /\ via = "mcp" /\ rows[order[i]].at = rows[order[j]].at => order[i] > order[j]
  <2>1. via = "mcp" => order \in Store!NewestFirst(rows, M)
    BY DEF Store!Listing
  <2>2. via = "rest" => order \in Store!ByTimestamp(rows, M)
    BY DEF Store!Listing
  <2>3. order \in [1..n -> M] /\ DOMAIN order = 1..n
    BY <2>1, <2>2, StoreLibrary DEF Store!NewestFirst, Store!ByTimestamp
  <2>4. \A i \in 1..n : order[i] \in 1..Len(rows) /\ rows[order[i]].at \in Int
    <3>1. \A k \in 1..Len(rows) : rows[k].at \in Int
      BY DEF RowsInOrder
    <3>2. \A i \in 1..n : order[i] \in M
      BY <2>3
    <3> QED
      BY <1>1, <3>1, <3>2
  <2> HIDE DEF M, n
  <2>5. via = "mcp" => \A i, j \in 1..n : i < j =>
            \/ rows[order[i]].at > rows[order[j]].at
            \/ rows[order[i]].at = rows[order[j]].at /\ order[i] > order[j]
    BY <2>1, <2>3 DEF Store!NewestFirst
  <2>6. via = "rest" => \A i, j \in 1..n : i < j => order[i] # order[j] /\ rows[order[i]].at >= rows[order[j]].at
    BY <2>2, <2>3 DEF Store!ByTimestamp
  <2>7. ASSUME NEW i \in 1..n, NEW j \in 1..n, i < j
        PROVE  /\ rows[order[i]].at >= rows[order[j]].at
               /\ via = "rest" => order[i] # order[j]
               /\ via = "mcp" /\ rows[order[i]].at = rows[order[j]].at => order[i] > order[j]
    <3>1. CASE via = "mcp"
      BY <2>4, <2>5, <2>7, <3>1
    <3>2. CASE via = "rest"
      BY <2>6, <2>7, <3>2
    <3> QED
      BY <3>1, <3>2
  <2> QED
    BY <2>3, <2>7
<1>3. ASSUME NEW i \in 1..n, NEW j \in 1..n, i < j
      PROVE  order[i] > order[j]
  <2> DEFINE a == order[i]  b == order[j]
  <2>1. a \in 1..Len(rows) /\ b \in 1..Len(rows) /\ rows[a].at \in Int /\ rows[b].at \in Int
    <3>1. a \in M /\ b \in M
      BY <1>2
    <3>2. a \in 1..Len(rows) /\ b \in 1..Len(rows)
      BY <1>1, <3>1
    <3> QED
      BY <3>2 DEF RowsInOrder
  <2>2. /\ rows[a].at >= rows[b].at
        /\ via = "rest" => a # b
        /\ via = "mcp" /\ rows[a].at = rows[b].at => a > b
    BY <1>2, <1>3
  <2>3. a < b => rows[a].at <= rows[b].at
    BY <2>1 DEF RowsInOrder
  <2>4. via = "rest" /\ a # b => rows[a].at # rows[b].at
    BY <2>1 DEF Store!Ties, RowsInOrder
  <2> HIDE DEF a, b
  <2>5. a \in Int /\ b \in Int
    BY <2>1
  <2>6. a > b
    BY <2>1, <2>2, <2>3, <2>4, <2>5
  <2> QED
    BY <2>6 DEF a, b
<1> QED
  BY <1>2, <1>3

LEMMA NextPageDoes ==
    ASSUME RowsInOrder, WalkTypes, NEW r \in Readers, Store!NextPage(r)
    PROVE  /\ UNCHANGED <<rows, storeTime, edit>> /\ WalkTypes'
           /\ \A s \in Readers : s # r => walk'[s] = walk[s]
           /\ walk[r].at = "page" /\ walk'[r].disturbed = walk[r].disturbed /\ walk'[r].via = walk[r].via
           /\ (walk[r].via = "rest" => ~Store!Ties) /\ Owed(walk[r], rows) => Sound(walk'[r], rows)
<1> DEFINE w == walk[r]
<1>1. PICK order \in Store!Listing(w.via, w.filter) :
        LET page == Store!Page(order, w.offset, w.limit)
        IN  walk' = [walk EXCEPT ![r] = [w EXCEPT !.seen = @ \cup Store!ToSet(page), !.offset = @ + w.limit,
                                                  !.at = IF Len(page) < w.limit THEN "done" ELSE "page"]]
  BY DEF Store!NextPage
<1> DEFINE page == Store!Page(order, w.offset, w.limit)
           v    == [w EXCEPT !.seen = @ \cup Store!ToSet(page), !.offset = @ + w.limit,
                             !.at = IF Len(page) < w.limit THEN "done" ELSE "page"]
<1>2. w.at = "page" /\ UNCHANGED <<rows, storeTime, edit>>
  BY DEF Store!NextPage
<1>3. /\ DOMAIN w = WalkFields /\ w.offset \in Nat /\ w.limit \in Nat \ {0} /\ w.via \in {"mcp", "rest"}
  BY <1>2 DEF WalkTypes
<1>4. walk' = [walk EXCEPT ![r] = v]
  BY <1>1
<1>5. /\ DOMAIN v = WalkFields /\ v.seen = w.seen \cup Store!ToSet(page) /\ v.offset = w.offset + w.limit
      /\ v.at = (IF Len(page) < w.limit THEN "done" ELSE "page") /\ v.via = w.via /\ v.limit = w.limit
      /\ v.filter = w.filter /\ v.owed = w.owed /\ v.disturbed = w.disturbed
  BY <1>3 DEF WalkFields
<1> HIDE DEF v
<1>6. DOMAIN walk' = Readers /\ walk'[r] = v /\ \A s \in Readers : s # r => walk'[s] = walk[s]
  BY <1>4 DEF WalkTypes
<1>7. WalkTypes'
  <2>1. v.offset \in Nat /\ v.at \in {"page", "done"}
    BY <1>3, <1>5
  <2> QED
    BY <1>3, <1>5, <1>6, <2>1 DEF WalkTypes
<1>8. ASSUME w.via = "rest" => ~Store!Ties, Owed(w, rows)
      PROVE  Sound(v, rows)
  <2> DEFINE M == Store!Matching(rows, w.filter)  n == Cardinality(M)
  <2>1. order \in [1..n -> M] /\ \A i, j \in 1..n : i < j => order[i] > order[j]
    BY <1>3, <1>8, ListedByAge
  <2>2. M \subseteq Nat /\ IsFiniteSet(M) /\ n \in Nat
    BY MatchingIsFinite, FS_CardinalityType DEF RowsInOrder
  <2>3. \A id \in M : \E k \in 1..n : order[k] = id /\ Cardinality({x \in M : x > id}) = k - 1
    BY <2>1, <2>2, PlaceInListing
  <2>4. /\ \A k \in 1..n : w.offset < k /\ k <= w.offset + w.limit => order[k] \in Store!ToSet(page)
        /\ Len(page) < w.limit => n < w.offset + w.limit
    <3> HIDE DEF n
    <3> QED
      BY <1>3, <2>1, <2>2, PageHolds
  <2>5. ASSUME NEW id, id \in w.owed
        PROVE  id \in M /\ (id \in v.seen \/ (Cardinality({x \in M : x > id}) >= v.offset /\ v.at = "page"))
    <3>1. id \in M
      BY <1>8, <2>5 DEF Owed
    <3>2. PICK k \in 1..n : order[k] = id /\ Cardinality({x \in M : x > id}) = k - 1
      BY <2>3, <3>1
    <3>3. CASE id \in w.seen
      BY <1>5, <3>1, <3>3
    <3>4. CASE id \notin w.seen
      <4>1. k - 1 >= w.offset
        BY <1>8, <2>5, <3>2, <3>4 DEF Owed
      <4>2. k \in Nat /\ k <= n
        BY <2>2
      <4>3. CASE k <= w.offset + w.limit
        <5>1. w.offset < k
          BY <1>3, <4>1, <4>2
        <5> QED
          BY <1>5, <2>4, <3>1, <3>2, <4>3, <5>1
      <4>4. CASE k > w.offset + w.limit
        <5>1. k - 1 >= w.offset + w.limit /\ ~(n < w.offset + w.limit)
          BY <1>3, <2>2, <4>2, <4>4
        <5>2. v.at = "page" /\ v.offset = w.offset + w.limit
          BY <1>5, <2>4, <5>1
        <5> QED
          BY <3>1, <3>2, <5>1, <5>2
      <4>5. k <= w.offset + w.limit \/ k > w.offset + w.limit
        BY <1>3, <4>2
      <4> QED
        BY <4>3, <4>4, <4>5
    <3> QED
      BY <3>3, <3>4
  <2> QED
    BY <1>5, <2>5 DEF Sound, Owed
<1> QED
  BY <1>2, <1>5, <1>6, <1>7, <1>8

LEMMA WalksSoundStep ==
    ASSUME RowsInOrder, WalkTypes, WalksSound, [Store!Next]_(Store!storeVars)
    PROVE  RowsInOrder' /\ WalkTypes' /\ WalksSound'
<1>0. rows \in Seq(Range(rows)) /\ Len(rows) \in Nat /\ DOMAIN rows = 1..Len(rows)
  BY DEF RowsInOrder
<1>1. ASSUME UNCHANGED rows, RowsInOrder', WalkTypes', NEW r \in Readers,
             \A s \in Readers : s # r => walk'[s] = walk[s],
             walk'[r].at # "idle" /\ ~walk'[r].disturbed /\ (walk'[r].via = "rest" => ~Store!Ties) => Sound(walk'[r], rows)
      PROVE  WalksSound'
  <2>1. Store!Ties' <=> Store!Ties
    BY <1>1 DEF Store!Ties
  <2> QED
    BY <1>1, <2>1 DEF WalksSound
<1>2. ASSUME UNCHANGED <<rows, walk>>, RowsInOrder'
      PROVE  RowsInOrder' /\ WalkTypes' /\ WalksSound'
  <2>1. Store!Ties' <=> Store!Ties
    BY <1>2 DEF Store!Ties
  <2> QED
    BY <1>2, <2>1 DEF WalksSound, WalkTypes
<1>3. CASE UNCHANGED Store!storeVars \/ Store!CreateIncident \/ Store!Tick
  <2>1. UNCHANGED <<rows, walk, edit>> /\ storeTime' \in Nat /\ storeTime' >= storeTime
    BY <1>3 DEF Store!storeVars, Store!CreateIncident, Store!Tick, RowsInOrder
  <2>2. \A i \in 1..Len(rows) : rows[i].at \in 0..storeTime'
    <3>1. 0..storeTime \subseteq 0..storeTime'
      BY <2>1 DEF RowsInOrder
    <3> QED
      BY <3>1 DEF RowsInOrder
  <2>3. RowsInOrder'
    BY <2>1, <2>2 DEF RowsInOrder
  <2> QED
    BY <1>2, <2>1, <2>3
<1>4. ASSUME NEW a \in Analysts, Store!LoadAlert(a) \/ Store!LoadIncident(a)
      PROVE  RowsInOrder' /\ WalkTypes' /\ WalksSound'
  BY <1>2, <1>4, LoadAlertReads, LoadIncidentReads
<1>5. CASE Store!Store
  <2>1. RowsInOrder' /\ KeepsRows /\ walk' = walk /\ \A i \in 1..Len(rows) : rows'[i] = rows[i]
    BY <1>5, StoreDoes
  <2>2. Store!Ties => Store!Ties'
    BY <2>1, TiesStay
  <2>3. WalkTypes'
    BY <2>1 DEF WalkTypes
  <2>4. Len(rows') \in Nat /\ DOMAIN rows' = 1..Len(rows')
    BY <2>1 DEF RowsInOrder
  <2>5. ASSUME NEW r \in Readers, walk[r].at # "idle", Sound(walk[r], rows)
        PROVE  Sound(walk[r], rows')
    <3>1. IsFiniteSet(Store!Matching(rows', walk[r].filter))
      BY <2>4, MatchingIsFinite
    <3>2. Store!Matching(rows, walk[r].filter) \subseteq Store!Matching(rows', walk[r].filter)
      BY <1>0, <2>1, <2>4 DEF Store!Matching, KeepsRows
    <3>3. walk[r].offset \in Nat
      BY <2>5 DEF WalkTypes
    <3>4. Owed(walk[r], rows) => Owed(walk[r], rows')
      BY <3>1, <3>2, <3>3, OwedGrows
    <3> QED
      BY <2>5, <3>4 DEF Sound
  <2>6. WalksSound'
    BY <2>1, <2>2, <2>5 DEF WalksSound
  <2> QED
    BY <2>1, <2>3, <2>6
<1>6. ASSUME NEW a \in Analysts, Store!Save(a)
      PROVE  RowsInOrder' /\ WalkTypes' /\ WalksSound'
  <2>1. /\ RowsInOrder' /\ KeepsRows /\ WalkTypes' /\ Len(rows') = Len(rows)
        /\ \A r \in Readers :
             \/ /\ walk'[r] = walk[r]
                /\ walk[r].at = "page" =>
                     \A i \in 1..Len(rows) : Store!Passes(rows'[i], walk[r].filter) = Store!Passes(rows[i], walk[r].filter)
             \/ walk'[r].disturbed
    BY <1>6, SaveWrites
  <2>2. Store!Ties => Store!Ties'
    BY <2>1, TiesStay
  <2>3. Len(rows') \in Nat /\ DOMAIN rows' = DOMAIN rows
    BY <1>0, <2>1 DEF RowsInOrder
  <2>4. ASSUME NEW r \in Readers, walk'[r].at # "idle", ~walk'[r].disturbed, walk'[r].via = "rest" => ~Store!Ties'
        PROVE  Sound(walk'[r], rows')
    <3>1. /\ walk'[r] = walk[r]
          /\ walk[r].at = "page" =>
               \A i \in 1..Len(rows) : Store!Passes(rows'[i], walk[r].filter) = Store!Passes(rows[i], walk[r].filter)
      BY <2>1, <2>4
    <3>2. Sound(walk[r], rows)
      BY <2>2, <2>4, <3>1 DEF WalksSound
    <3>3. walk[r].at = "page" => Store!Matching(rows', walk[r].filter) = Store!Matching(rows, walk[r].filter)
      BY <1>0, <2>3, <3>1 DEF Store!Matching
    <3> QED
      BY <3>1, <3>2, <3>3 DEF Sound, Owed
  <2> QED
    BY <2>1, <2>4 DEF WalksSound
<1>7. ASSUME NEW r \in Readers, Store!StartWalk(r)
      PROVE  RowsInOrder' /\ WalkTypes' /\ WalksSound'
  <2>1. /\ UNCHANGED <<rows, storeTime, edit>> /\ WalkTypes'
        /\ \A s \in Readers : s # r => walk'[s] = walk[s]
        /\ walk'[r].at = "page" /\ Owed(walk'[r], rows)
    BY <1>7, StartWalkDoes
  <2>2. RowsInOrder'
    BY <2>1 DEF RowsInOrder
  <2> QED
    BY <1>1, <2>1, <2>2 DEF Sound
<1>8. ASSUME NEW r \in Readers, Store!NextPage(r)
      PROVE  RowsInOrder' /\ WalkTypes' /\ WalksSound'
  <2>1. /\ UNCHANGED <<rows, storeTime, edit>> /\ WalkTypes'
        /\ \A s \in Readers : s # r => walk'[s] = walk[s]
        /\ walk[r].at = "page" /\ walk'[r].disturbed = walk[r].disturbed /\ walk'[r].via = walk[r].via
        /\ (walk[r].via = "rest" => ~Store!Ties) /\ Owed(walk[r], rows) => Sound(walk'[r], rows)
    BY <1>8, NextPageDoes
  <2>2. RowsInOrder'
    BY <2>1 DEF RowsInOrder
  <2>3. ~walk[r].disturbed /\ (walk[r].via = "rest" => ~Store!Ties) => Sound(walk'[r], rows)
    BY <2>1 DEF WalksSound, Sound
  <2> QED
    BY <1>1, <2>1, <2>2, <2>3
<1> QED
  BY <1>3, <1>4, <1>5, <1>6, <1>7, <1>8 DEF Store!Next

(* A walk through the pages of a listing sees everything that was listed when it began,   *)
(* however many alerts arrive meanwhile, if no row left or entered the listing under it    *)
(* and, over REST, no two alerts have one timestamp (alerts.list_alerts,                   *)
(* queries.list_alerts).                                                                   *)
THEOREM WalksMissNothingHolds == Store!Spec => []Store!WalksMissNothing
<1>1. Store!Init => RowsInOrder /\ WalkTypes /\ WalksSound
  <2> SUFFICES ASSUME Store!Init PROVE RowsInOrder /\ WalkTypes /\ WalksSound
    OBVIOUS
  <2>1. rows = <<>> /\ storeTime = 0 /\ edit = [a \in Analysts |-> [of |-> "nothing"]] /\ walk = [r \in Readers |-> [at |-> "idle"]]
    BY DEF Store!Init, Store!NoEdit, Store!NoWalk
  <2>2. rows \in Seq(Range(rows)) /\ Len(rows) = 0
    BY <2>1
  <2>3. \A a \in Analysts : edit[a].of = "nothing"
    BY <2>1
  <2>4. \A r \in Readers : walk[r].at = "idle"
    BY <2>1
  <2> QED
    BY <2>1, <2>2, <2>3, <2>4 DEF RowsInOrder, WalkTypes, WalksSound
<1>2. RowsInOrder /\ WalkTypes /\ WalksSound /\ [Store!Next]_(Store!storeVars) => RowsInOrder' /\ WalkTypes' /\ WalksSound'
  BY WalksSoundStep
<1>3. WalksSound => Store!WalksMissNothing
  BY DEF WalksSound, Sound, Store!WalksMissNothing
<1> QED
  BY <1>1, <1>2, <1>3, PTL DEF Store!Spec

-----------------------------------------------------------------------------
(* Inspection: two readers of the payloads of a flow.                        *)

LEMMA InspectionCardinality == ASSUME NEW S PROVE Inspection!Cardinality(S) = Cardinality(S)
BY DEF Inspection!Cardinality, Cardinality, Inspection!IsFiniteSet, IsFiniteSet

(* The records that hold a ClientHello, and what a flow may carry. *)
HelloRecords == {[tls |-> TRUE, len |-> 9 + have, entropy |-> 0, matches |-> {}, control |-> 0] : have \in Int}
Carried == Payloads \cup HelloRecords
Directed == {[pkt |-> p, forward |-> f] : p \in Carried, f \in BOOLEAN}

FromInitiator == {k \in DOMAIN inspected : inspected[k].forward}

(* The samples are payloads of the initiator, all of them while they fit.  *)
SamplesSound ==
    /\ inspected \in Seq(Directed) /\ samples \in Seq(Carried)
    /\ Len(samples) <= MaxPayloads /\ (Cardinality(FromInitiator) <= MaxPayloads => Len(samples) = Cardinality(FromInitiator))
    /\ \A i \in DOMAIN samples : \E k \in FromInitiator : inspected[k].pkt = samples[i]
    /\ Cardinality(FromInitiator) <= MaxPayloads => \A k \in FromInitiator : \E i \in DOMAIN samples : samples[i] = inspected[k].pkt

(* The rules remember every match of the initiator's payloads that they could read. *)
HitsSound ==
    /\ \A k \in FromInitiator : Inspection!Matches(inspected[k].pkt) \subseteq hits
    /\ \A m \in hits : \E k \in FromInitiator : m \in Inspection!Matches(inspected[k].pkt)

(* Both actions read a payload in the same way. *)
Receive(p, forward) ==
    /\ inspected' = Append(inspected, [pkt |-> p, forward |-> forward])
    /\ samples' = IF forward THEN Inspection!Sampled(p) ELSE samples
    /\ hits' = IF forward THEN hits \cup Inspection!Matches(p) ELSE hits

LEMMA InspectReceives ==
    ASSUME Inspection!Next
    PROVE  \E p \in Carried, forward \in BOOLEAN : Receive(p, forward)
<1>1. ASSUME NEW h \in Hellos, NEW have \in 0..Inspection!BodyLength(h), Inspection!HelloSegment(h, have)
      PROVE  \E p \in Carried, forward \in BOOLEAN : Receive(p, forward)
  <2> DEFINE record == [tls |-> TRUE, len |-> 9 + have, entropy |-> 0, matches |-> {}, control |-> 0]
  <2>1. record \in Carried
    <3>1. have \in Int
      OBVIOUS
    <3>2. record \in HelloRecords
      BY <3>1, Zenon DEF HelloRecords
    <3> QED
      BY <3>2 DEF Carried
  <2>2. inspected' = Append(inspected, [pkt |-> record, forward |-> TRUE]) /\ samples' = Inspection!Sampled(record) /\ hits' = hits
    BY <1>1 DEF Inspection!HelloSegment
  <2>3. Inspection!Matches(record) = {}
    BY DEF Inspection!Matches, Inspection!LooksEncrypted
  <2> HIDE DEF record
  <2>4. Receive(record, TRUE)
    BY <2>2, <2>3 DEF Receive
  <2> QED
    BY <2>1, <2>4
<1>2. ASSUME NEW p \in Payloads, NEW forward \in BOOLEAN, Inspection!Inspect(p, forward)
      PROVE  \E q \in Carried, f \in BOOLEAN : Receive(q, f)
  <2>1. Receive(p, forward)
    BY <1>2 DEF Inspection!Inspect, Receive
  <2> QED
    BY <2>1 DEF Carried
<1> QED
  BY <1>1, <1>2 DEF Inspection!Next

LEMMA ForwardGrows ==
    ASSUME SamplesSound, NEW p \in Carried, NEW f \in BOOLEAN, Receive(p, f)
    PROVE  /\ inspected' \in Seq(Directed) /\ Len(inspected') = Len(inspected) + 1
           /\ \A k \in DOMAIN inspected : k \in DOMAIN inspected' /\ inspected'[k] = inspected[k]
           /\ \A k \in DOMAIN inspected' : k \in DOMAIN inspected \/ k = Len(inspected) + 1
           /\ Len(inspected) + 1 \in DOMAIN inspected'
           /\ inspected'[Len(inspected) + 1].pkt = p
           /\ IsFiniteSet(FromInitiator) /\ Cardinality(FromInitiator) \in Nat
           /\ f => FromInitiator' = FromInitiator \cup {Len(inspected) + 1} /\ Cardinality(FromInitiator') = Cardinality(FromInitiator) + 1
           /\ ~f => FromInitiator' = FromInitiator
<1> DEFINE n == Len(inspected) + 1
           new == [pkt |-> p, forward |-> f]
<1>1. new \in Directed /\ inspected \in Seq(Directed) /\ inspected' = Append(inspected, new)
  BY DEF SamplesSound, Directed, Receive
<1>2. new.pkt = p /\ new.forward = f
  OBVIOUS
<1> HIDE DEF new
<1>3. /\ inspected' \in Seq(Directed) /\ Len(inspected') = n /\ n \in Nat /\ Len(inspected) \in Nat
      /\ DOMAIN inspected = 1..Len(inspected) /\ DOMAIN inspected' = 1..n
      /\ inspected'[n] = new /\ \A k \in 1..Len(inspected) : inspected'[k] = inspected[k]
  BY <1>1, AppendProperties
<1>4. IsFiniteSet(FromInitiator)
  <2>1. IsFiniteSet(1..Len(inspected))
    BY <1>3, FS_Interval
  <2> QED
    BY <1>3, <2>1, FS_Subset DEF FromInitiator
<1>5. Cardinality(FromInitiator) \in Nat
  BY <1>4, FS_CardinalityType
<1>6. n \notin FromInitiator
  BY <1>3 DEF FromInitiator
<1> HIDE DEF n
<1>7. ASSUME f PROVE FromInitiator' = FromInitiator \cup {n}
  <2>1. inspected'[n].forward
    BY <1>2, <1>3, <1>7
  <2>2. ASSUME NEW k PROVE k \in 1..n <=> k \in 1..Len(inspected) \/ k = n
    BY <1>3 DEF n
  <2> QED
    BY <1>3, <2>1, <2>2 DEF FromInitiator
<1>8. ASSUME ~f PROVE FromInitiator' = FromInitiator
  <2>1. ~inspected'[n].forward
    BY <1>2, <1>3, <1>8
  <2>2. ASSUME NEW k PROVE k \in 1..n <=> k \in 1..Len(inspected) \/ k = n
    BY <1>3 DEF n
  <2> QED
    BY <1>3, <2>1, <2>2 DEF FromInitiator
<1>9. Cardinality(FromInitiator \cup {n}) = Cardinality(FromInitiator) + 1
  BY <1>4, <1>6, FS_AddElement
<1>10. /\ \A k \in DOMAIN inspected : k \in DOMAIN inspected' /\ inspected'[k] = inspected[k]
       /\ \A k \in DOMAIN inspected' : k \in DOMAIN inspected \/ k = n
       /\ n \in DOMAIN inspected' /\ inspected'[n].pkt = p
  BY <1>2, <1>3 DEF n
<1> QED
  BY <1>3, <1>4, <1>5, <1>7, <1>8, <1>9, <1>10 DEF n

LEMMA SamplesStep ==
    ASSUME SamplesSound, NEW p \in Carried, NEW f \in BOOLEAN, Receive(p, f)
    PROVE  SamplesSound'
<1> DEFINE n == Len(inspected) + 1
<1>1. /\ inspected' \in Seq(Directed)
      /\ \A k \in DOMAIN inspected : k \in DOMAIN inspected' /\ inspected'[k] = inspected[k]
      /\ inspected'[n].pkt = p /\ Cardinality(FromInitiator) \in Nat
      /\ f => FromInitiator' = FromInitiator \cup {n} /\ Cardinality(FromInitiator') = Cardinality(FromInitiator) + 1
      /\ ~f => FromInitiator' = FromInitiator
  BY ForwardGrows
<1>2. samples \in Seq(Carried) /\ Len(samples) \in Nat /\ Len(samples) <= MaxPayloads /\ MaxPayloads \in Nat
      /\ DOMAIN samples = 1..Len(samples)
  BY InspectionAssumption, LenProperties DEF SamplesSound
<1>3. \A k \in FromInitiator : inspected'[k] = inspected[k]
  BY <1>1 DEF FromInitiator
<1>4. CASE ~f
  <2>1. samples' = samples /\ FromInitiator' = FromInitiator
    BY <1>1, <1>4 DEF Receive
  <2>2. Cardinality(FromInitiator') = Cardinality(FromInitiator)
    BY <2>1
  <2>3. ASSUME NEW i \in DOMAIN samples' PROVE \E k \in FromInitiator' : inspected'[k].pkt = samples'[i]
    <3>1. PICK k \in FromInitiator : inspected[k].pkt = samples[i]
      BY <2>1 DEF SamplesSound
    <3> QED
      BY <1>3, <2>1, <3>1
  <2>5. ASSUME Cardinality(FromInitiator') <= MaxPayloads, NEW k \in FromInitiator'
        PROVE  \E i \in DOMAIN samples' : samples'[i] = inspected'[k].pkt
    <3>1. PICK i \in DOMAIN samples : samples[i] = inspected[k].pkt
      BY <2>1, <2>2, <2>5 DEF SamplesSound
    <3> QED
      BY <1>3, <2>1, <3>1
  <2>4. Len(samples') <= MaxPayloads /\ (Cardinality(FromInitiator') <= MaxPayloads => Len(samples') = Cardinality(FromInitiator'))
    BY <2>1, <2>2 DEF SamplesSound
  <2> QED
    BY <1>1, <1>2, <2>1, <2>3, <2>4, <2>5 DEF SamplesSound
<1>5. CASE f /\ Len(samples) < MaxPayloads
  <2>1. samples' = Append(samples, p)
    BY <1>5 DEF Receive, Inspection!Sampled
  <2>2. /\ samples' \in Seq(Carried) /\ Len(samples') = Len(samples) + 1 /\ DOMAIN samples' = 1..(Len(samples) + 1)
        /\ samples'[Len(samples) + 1] = p /\ \A i \in 1..Len(samples) : samples'[i] = samples[i]
    BY <1>2, <2>1, AppendProperties
  <2>3. FromInitiator' = FromInitiator \cup {n} /\ Cardinality(FromInitiator') = Cardinality(FromInitiator) + 1
    BY <1>1, <1>5
  <2>4. ASSUME NEW i \in DOMAIN samples' PROVE \E k \in FromInitiator' : inspected'[k].pkt = samples'[i]
    <3>1. CASE i = Len(samples) + 1
      BY <1>1, <2>2, <2>3, <3>1
    <3>2. CASE i # Len(samples) + 1
      <4>1. i \in DOMAIN samples /\ samples'[i] = samples[i]
        BY <1>2, <2>2, <3>2
      <4>2. PICK k \in FromInitiator : inspected[k].pkt = samples[i]
        BY <4>1 DEF SamplesSound
      <4> QED
        BY <1>3, <2>3, <4>1, <4>2
    <3> QED
      BY <3>1, <3>2
  <2>5. ASSUME Cardinality(FromInitiator') <= MaxPayloads, NEW k \in FromInitiator'
        PROVE  \E i \in DOMAIN samples' : samples'[i] = inspected'[k].pkt
    <3>1. CASE k = n
      BY <1>1, <1>2, <2>2, <3>1
    <3>2. CASE k # n
      <4>1. k \in FromInitiator /\ Cardinality(FromInitiator) <= MaxPayloads
        BY <1>1, <1>2, <2>3, <2>5, <3>2
      <4>2. PICK i \in DOMAIN samples : samples[i] = inspected[k].pkt
        BY <4>1 DEF SamplesSound
      <4>3. i \in DOMAIN samples' /\ samples'[i] = samples[i]
        BY <1>2, <2>2, <4>2
      <4> QED
        BY <1>3, <4>1, <4>2, <4>3
    <3> QED
      BY <3>1, <3>2
  <2>6. Len(samples') <= MaxPayloads /\ (Cardinality(FromInitiator') <= MaxPayloads => Len(samples') = Cardinality(FromInitiator'))
    <3>1. Cardinality(FromInitiator) <= MaxPayloads => Len(samples) = Cardinality(FromInitiator)
      BY DEF SamplesSound
    <3> QED
      BY <1>1, <1>2, <1>5, <2>2, <2>3, <3>1
  <2> QED
    BY <1>1, <2>2, <2>4, <2>5, <2>6 DEF SamplesSound
<1>6. CASE f /\ ~(Len(samples) < MaxPayloads)
  <2>1. samples' = samples /\ FromInitiator' = FromInitiator \cup {n} /\ Cardinality(FromInitiator') = Cardinality(FromInitiator) + 1
    BY <1>1, <1>6 DEF Receive, Inspection!Sampled
  <2>2. ~(Cardinality(FromInitiator') <= MaxPayloads)
    BY <1>1, <1>2, <1>6, <2>1 DEF SamplesSound
  <2>3. \A i \in DOMAIN samples' : \E k \in FromInitiator' : inspected'[k].pkt = samples'[i]
    BY <1>3, <2>1 DEF SamplesSound
  <2> QED
    BY <1>1, <1>2, <2>1, <2>2, <2>3 DEF SamplesSound
<1> QED
  BY <1>4, <1>5, <1>6

LEMMA HitsStep ==
    ASSUME SamplesSound, HitsSound, NEW p \in Carried, NEW f \in BOOLEAN, Receive(p, f)
    PROVE  HitsSound'
<1> DEFINE n == Len(inspected) + 1
<1>1. /\ \A k \in DOMAIN inspected : inspected'[k] = inspected[k]
      /\ inspected'[n].pkt = p
      /\ f => FromInitiator' = FromInitiator \cup {n}
      /\ ~f => FromInitiator' = FromInitiator
  BY ForwardGrows
<1> HIDE DEF n
<1>2. \A k \in FromInitiator : inspected'[k] = inspected[k]
  BY <1>1 DEF FromInitiator
<1>3. CASE ~f
  <2>1. hits' = hits /\ FromInitiator' = FromInitiator
    BY <1>1, <1>3 DEF Receive
  <2> QED
    BY <1>2, <2>1 DEF HitsSound, Inspection!Matches, Inspection!LooksEncrypted
<1>4. CASE f
  <2>1. hits' = hits \cup Inspection!Matches(p) /\ FromInitiator' = FromInitiator \cup {n}
    BY <1>1, <1>4 DEF Receive
  <2>2. ASSUME NEW k \in FromInitiator' PROVE Inspection!Matches(inspected'[k].pkt) \subseteq hits'
    <3>1. CASE k = n
      BY <1>1, <2>1, <3>1
    <3>2. CASE k \in FromInitiator
      BY <1>2, <2>1, <3>2 DEF HitsSound
    <3> QED
      BY <2>1, <3>1, <3>2
  <2>3. ASSUME NEW m \in hits' PROVE \E k \in FromInitiator' : m \in Inspection!Matches(inspected'[k].pkt)
    <3>1. CASE m \in Inspection!Matches(p)
      BY <1>1, <2>1, <3>1
    <3>2. CASE m \in hits
      <4>1. PICK k \in FromInitiator : m \in Inspection!Matches(inspected[k].pkt)
        BY <3>2 DEF HitsSound
      <4> QED
        BY <1>2, <2>1, <4>1
    <3> QED
      BY <2>1, <3>1, <3>2
  <2> QED
    BY <2>2, <2>3 DEF HitsSound, Inspection!Matches
<1> QED
  BY <1>3, <1>4

LEMMA ReadersAgreeOnPayloads ==
    ASSUME SamplesSound, HitsSound
    PROVE  Inspection!ReadersOfPayloadsAgree
<1> DEFINE flags == UNION {samples[i].matches : i \in DOMAIN samples}
           MatchesOf(S) == UNION {inspected[i].pkt.matches : i \in S}
           encrypted == {k \in DOMAIN inspected : inspected[k].forward /\ Inspection!LooksEncrypted(inspected[k].pkt)}
           initiated == {k \in DOMAIN inspected : inspected[k].forward}
<1>1. Inspection!PayloadFeatures.flags = flags
  BY ZenonT(30) DEF Inspection!PayloadFeatures
<1>2. ASSUME NEW m \in flags
      PROVE  \E k \in FromInitiator : m \in inspected[k].pkt.matches
  <2>1. PICK i \in DOMAIN samples : m \in samples[i].matches
    OBVIOUS
  <2>2. PICK k \in FromInitiator : inspected[k].pkt = samples[i]
    BY <2>1 DEF SamplesSound
  <2> QED
    BY <2>1, <2>2
<1>3. ASSUME NEW m \in hits
      PROVE  \E k \in FromInitiator : m \in inspected[k].pkt.matches
  <2>1. PICK k \in FromInitiator : m \in Inspection!Matches(inspected[k].pkt)
    BY DEF HitsSound
  <2> QED
    BY <2>1 DEF Inspection!Matches
<1>4. ASSUME NEW m \in flags, m \notin hits PROVE m \in MatchesOf(encrypted)
  <2>1. PICK k \in FromInitiator : m \in inspected[k].pkt.matches
    BY <1>2
  <2>2. k \in DOMAIN inspected /\ inspected[k].forward
    BY DEF FromInitiator
  <2>3. Inspection!LooksEncrypted(inspected[k].pkt)
    BY <1>4, <2>1 DEF HitsSound, Inspection!Matches
  <2> QED
    BY <2>1, <2>2, <2>3
<1>5. ASSUME Cardinality(FromInitiator) <= MaxPayloads, NEW m \in hits PROVE m \in flags
  <2>1. PICK k \in FromInitiator : m \in inspected[k].pkt.matches
    BY <1>3
  <2>2. PICK i \in DOMAIN samples : samples[i] = inspected[k].pkt
    BY <1>5 DEF SamplesSound
  <2> QED
    BY <2>1, <2>2
<1>6. ASSUME NEW m \in hits \cup flags PROVE m \in MatchesOf(initiated)
  <2>1. PICK k \in FromInitiator : m \in inspected[k].pkt.matches
    BY <1>2, <1>3
  <2> QED
    BY <2>1 DEF FromInitiator
<1>7. Inspection!Cardinality({k \in DOMAIN inspected : inspected[k].forward}) = Cardinality(FromInitiator)
  BY InspectionCardinality DEF FromInitiator
<1> QED
  BY <1>1, <1>4, <1>5, <1>6, <1>7 DEF Inspection!ReadersOfPayloadsAgree

(***************************************************************************)
(* The rules, which keep what matched, and the model, which keeps the      *)
(* first payloads (analyze_payload, extract_payload_features), differ only *)
(* on payloads that look encrypted or came late, and neither takes         *)
(* anything from the responder.                                            *)
(***************************************************************************)
THEOREM ReadersOfPayloadsAgreeHolds == Inspection!Spec => []Inspection!ReadersOfPayloadsAgree
<1>1. Inspection!Init => SamplesSound /\ HitsSound
  <2> SUFFICES ASSUME Inspection!Init PROVE SamplesSound /\ HitsSound
    OBVIOUS
  <2>1. inspected = <<>> /\ samples = <<>> /\ hits = {} /\ inspected \in Seq(Directed) /\ samples \in Seq(Carried)
    BY EmptySeq DEF Inspection!Init
  <2>2. DOMAIN inspected = {} /\ DOMAIN samples = {} /\ Len(samples) = 0
    BY <2>1
  <2>3. FromInitiator = {}
    BY <2>2 DEF FromInitiator
  <2> QED
    BY <2>1, <2>2, <2>3, FS_EmptySet, InspectionAssumption DEF SamplesSound, HitsSound
<1>2. SamplesSound /\ HitsSound /\ [Inspection!Next]_(Inspection!inspectVars) => (SamplesSound /\ HitsSound)'
  <2> SUFFICES ASSUME SamplesSound, HitsSound, [Inspection!Next]_(Inspection!inspectVars)
               PROVE  (SamplesSound /\ HitsSound)'
    OBVIOUS
  <2>1. CASE UNCHANGED Inspection!inspectVars
    BY <2>1 DEF Inspection!inspectVars, SamplesSound, HitsSound, FromInitiator
  <2>2. CASE Inspection!Next
    <3>1. PICK p \in Carried, f \in BOOLEAN : Receive(p, f)
      BY <2>2, InspectReceives
    <3> QED
      BY <3>1, SamplesStep, HitsStep
  <2> QED
    BY <2>1, <2>2
<1> QED
  BY <1>1, <1>2, ReadersAgreeOnPayloads, PTL DEF Inspection!Spec

-----------------------------------------------------------------------------
(* Texts: what was asked about is what is stored.                            *)

(* Stored texts stay, and an answer is about them. *)
AskedOfStored ==
    asked # Texts!Nothing =>
        /\ asked.refused = (Texts!Stripped(asked.text) \notin DOMAIN IpForms)
        /\ asked.found = (Texts!Stripped(asked.text) = texts["src_ip"])

(***************************************************************************)
(* A question about a host finds its alerts or is refused, unless the      *)
(* address is spelled in another form than the stored one (_validate_ip    *)
(* and the queries after it).                                              *)
(***************************************************************************)
THEOREM NoFalseAllClearHolds == Texts!Spec => []Texts!NoFalseAllClear
<1>1. Texts!Init => AskedOfStored
  BY DEF Texts!Init, AskedOfStored
<1>2. AskedOfStored /\ [Texts!Next]_(Texts!textVars) => AskedOfStored'
  <2> SUFFICES ASSUME AskedOfStored, [Texts!Next]_(Texts!textVars) PROVE AskedOfStored'
    OBVIOUS
  <2>1. CASE UNCHANGED Texts!textVars
    BY <2>1 DEF Texts!textVars, AskedOfStored
  <2>2. ASSUME NEW v, Texts!Answer(v) PROVE AskedOfStored'
    BY <2>2 DEF Texts!Answer, AskedOfStored
  <2>3. ASSUME NEW t, Texts!Ask(t) PROVE AskedOfStored'
    <3>1. /\ asked' = [view |-> "asked", text |-> t, refused |-> Texts!Stripped(t) \notin DOMAIN IpForms,
                       found |-> Texts!Stripped(t) = texts["src_ip"]]
          /\ texts' = texts
      BY <2>3 DEF Texts!Ask
    <3>2. asked'.text = t
      BY <3>1
    <3>3. asked'.refused = (Texts!Stripped(asked'.text) \notin DOMAIN IpForms)
      BY <3>1, <3>2
    <3>4. asked'.found = (Texts!Stripped(asked'.text) = texts'["src_ip"])
      BY <3>1, <3>2
    <3> QED
      BY <3>3, <3>4 DEF AskedOfStored
  <2> QED
    BY <2>1, <2>2, <2>3 DEF Texts!Next
<1>3. AskedOfStored => Texts!NoFalseAllClear
  <2> SUFFICES ASSUME AskedOfStored, asked # Texts!Nothing PROVE Texts!NoFalseAllClear
    BY DEF Texts!NoFalseAllClear
  <2> DEFINE text == Texts!Stripped(asked.text)
  <2>1. /\ asked.refused = (text \notin DOMAIN IpForms) /\ asked.found = (text = texts["src_ip"])
    BY DEF AskedOfStored
  <2> HIDE DEF text
  <2>2. IF text \notin DOMAIN IpForms THEN asked.refused
        ELSE ~asked.refused /\ (IpForms[text] = texts["src_ip"] => asked.found \/ text # IpForms[text])
    BY <2>1
  <2> QED
    BY <2>2 DEF Texts!NoFalseAllClear, text
<1> QED
  BY <1>1, <1>2, <1>3, PTL DEF Texts!Spec

-----------------------------------------------------------------------------
(* Scrape: what is told of the baseline while it moves on.                   *)

LEMMA ScrapeCardinality == ASSUME NEW S PROVE Scrape!Cardinality(S) = Cardinality(S)
BY DEF Scrape!Cardinality, Cardinality, Scrape!IsFiniteSet, IsFiniteSet

ReaderFields == {"at", "who", "snap", "overtaken", "late", "excused", "last", "windows"}

WindowFields == {"id", "n", "hosts", "counts", "start", "last"}

(* The window being collected is below the cap, and its ports are counted. *)
WindowTypes(w) ==
    /\ DOMAIN w = WindowFields /\ w.id \in Nat \ {0} /\ w.n \in Nat /\ w.n < HardCap
    /\ w.hosts \subseteq ScrapeHosts /\ IsFiniteSet(w.hosts)
    /\ w.counts \in [ScrapePorts -> 0..HardCap] /\ \A p \in ScrapePorts : w.counts[p] <= w.n
    /\ w.start \in Int /\ w.last \in Int

(* A window is handed over as soon as it may fire, and the next one waits for the training; *)
(* what is trained on, or was, is of an earlier window.                                     *)
CollectorSound ==
    /\ WindowTypes(filling) /\ wall \in Nat
    /\ ~Scrape!ShouldFire(filling) /\ (trainStage # "idle" => filling.n = 0)
    /\ trainee.id \in Nat /\ trainee.id < filling.id /\ trained.id \in Nat /\ trained.id < filling.id
    /\ lostFlows \in Nat /\ (lostFlows > 0 /\ trainStage = "idle" => leftover)
    /\ windowsTotal \in Nat /\ (trained # Scrape!NoWindow => windowsTotal > 0)

(* What a reader has read was true of the collector, and its window is not the one it *)
(* compares with, unless that was promoted since.                                     *)
ReaderSound ==
    reader # Scrape!NotReading =>
        /\ DOMAIN reader = ReaderFields /\ reader.at \in {"history", "total", "answer"}
        /\ reader.snap.inFlight => reader.snap.n = 0
        /\ (\A c \in reader.snap.progress : c[2] = 100) /\ ~reader.snap.inFlight => reader.late
        /\ reader.snap.dropped > 0 => reader.snap.inFlight \/ reader.excused
        /\ reader.snap.id \in Nat
        /\ ~reader.overtaken => trained.id < reader.snap.id
        /\ ~reader.overtaken /\ reader.at # "history" => reader.last.id < reader.snap.id
        /\ reader.at # "history" /\ reader.last # Scrape!NoWindow => windowsTotal > 0
        /\ reader.windows \in Nat /\ reader.windows <= windowsTotal
        /\ reader.at = "answer" /\ reader.who # "status" =>
               gauges.windows <= reader.windows /\ (reader.last # Scrape!NoWindow => reader.windows > 0)

GaugesSound ==
    /\ DOMAIN gauges = {"windows", "drift"} /\ gauges.windows \in Nat /\ gauges.windows <= windowsTotal
    /\ gauges.drift # Scrape!NoDrift => gauges.windows > 0

(* A condition told to be complete is met. *)
LEMMA CompleteIsMet ==
    ASSUME NEW c \in Nat, NEW t \in Int, Scrape!Ratio(c, t) = 100
    PROVE  c >= t
<1>1. CASE t <= 0
  BY <1>1
<1>2. CASE t > 0
  <2> DEFINE part == (100 * c) \div t
             S == {part, 100}
  <2>1. part \in Int /\ Scrape!Ratio(c, t) = Scrape!Min(S)
    BY <1>2 DEF Scrape!Ratio
  <2>2. part < 100 => \E x \in S : \A y \in S : x <= y
    BY <2>1
  <2>3. part < 100 => Scrape!Min(S) \in S /\ \A y \in S : Scrape!Min(S) <= y
    <3> HIDE DEF S
    <3> QED
      BY <2>2 DEF Scrape!Min
  <2>4. part >= 100
    BY <2>1, <2>3
  <2> HIDE DEF S
  <2>5. 100 * c >= t * part
    BY <1>2, Z3
  <2>6. t * part >= t * 100
    BY <1>2, <2>1, <2>4, Z3
  <2> QED
    BY <2>1, <2>5, <2>6
<1> QED
  BY <1>1, <1>2

LEMMA BitsOfWindow ==
    ASSUME NEW w, WindowTypes(w)
    PROVE  PortBits(w.counts) \in Nat /\ Cardinality(w.hosts) \in Nat
BY ScrapeAssumption, FS_CardinalityType DEF WindowTypes

(* The time of a flow is at most that of the clock. *)
LEMMA FlowDoes ==
    ASSUME CollectorSound, NEW h \in ScrapeHosts, NEW p \in ScrapePorts, NEW at \in Int, Scrape!Flow(h, p, at)
    PROVE  /\ UNCHANGED <<wall, leftover, trained, windowsTotal, reader, gauges>>
           /\ WindowTypes(filling') /\ ~Scrape!ShouldFire(filling') /\ (trainStage' # "idle" => filling'.n = 0)
           /\ trainee'.id \in Nat /\ trainee'.id < filling'.id /\ filling.id <= filling'.id
           /\ lostFlows' \in Nat /\ (trainStage' = "idle" => trainStage = "idle" /\ lostFlows' = lostFlows)
<1> DEFINE w == [filling EXCEPT !.n = @ + 1, !.hosts = @ \cup {h}, !.counts[p] = @ + 1, !.last = at]
           fire == w.n >= HardCap \/ Scrape!ShouldFire(w)
<1>1. UNCHANGED <<wall, leftover, trained, windowsTotal, reader, gauges>>
  BY DEF Scrape!Flow
<1>2. CASE trainStage # "idle"
  <2>1. lostFlows' = lostFlows + 1 /\ UNCHANGED <<filling, trainStage, trainee>>
    BY <1>2 DEF Scrape!Flow, Scrape!InFlight
  <2> QED
    BY <1>1, <1>2, <2>1 DEF CollectorSound, WindowTypes
<1>3. CASE trainStage = "idle"
  <2>1. /\ filling' = (IF fire THEN Scrape!NewWindow(w.id + 1, at) ELSE w)
        /\ trainStage' = (IF fire THEN "starting" ELSE "idle")
        /\ fire => trainee'.id = w.id
        /\ ~fire => trainee' = trainee
        /\ lostFlows' = lostFlows
    BY <1>3 DEF Scrape!Flow, Scrape!InFlight
  <2>2. /\ DOMAIN w = WindowFields /\ w.id = filling.id /\ w.n = filling.n + 1 /\ w.start = filling.start /\ w.last = at
        /\ w.hosts = filling.hosts \cup {h} /\ w.counts = [filling.counts EXCEPT ![p] = @ + 1]
    BY DEF CollectorSound, WindowTypes, WindowFields
  <2> HIDE DEF w
  <2>3. CASE fire
    <3>1. filling' = Scrape!NewWindow(w.id + 1, at) /\ trainStage' = "starting" /\ trainee'.id = filling.id /\ lostFlows' = lostFlows
      BY <2>1, <2>2, <2>3
    <3>2. filling'.id = filling.id + 1 /\ filling'.n = 0 /\ filling'.hosts = {} /\ filling'.start = at /\ filling'.last = at
          /\ filling'.counts = [q \in ScrapePorts |-> 0] /\ DOMAIN filling' = WindowFields
      BY <2>2, <3>1 DEF Scrape!NewWindow, WindowFields
    <3>3. WindowTypes(filling')
      BY <3>2, FS_EmptySet, ScrapeAssumption DEF WindowTypes, CollectorSound
    <3>4. ~Scrape!ShouldFire(filling')
      BY <3>2, ScrapeAssumption DEF Scrape!ShouldFire
    <3> QED
      BY <1>1, <1>3, <3>1, <3>2, <3>3, <3>4 DEF CollectorSound, WindowTypes
  <2>4. CASE ~fire
    <3>1. filling' = w /\ trainStage' = "idle" /\ trainee' = trainee /\ lostFlows' = lostFlows
      BY <2>1, <2>4
    <3>2. IsFiniteSet(w.hosts) /\ w.hosts \subseteq ScrapeHosts
      BY <2>2, FS_AddElement DEF CollectorSound, WindowTypes
    <3>3. w.n \in Nat /\ w.n < HardCap /\ ~Scrape!ShouldFire(w)
      BY <2>2, <2>4, ScrapeAssumption DEF CollectorSound, WindowTypes
    <3>4. w.counts \in [ScrapePorts -> 0..HardCap] /\ \A q \in ScrapePorts : w.counts[q] <= w.n
      BY <2>2, <3>3, ScrapeAssumption DEF CollectorSound, WindowTypes
    <3>5. WindowTypes(w)
      BY <2>2, <3>2, <3>3, <3>4 DEF CollectorSound, WindowTypes
    <3>6. WindowTypes(filling') /\ ~Scrape!ShouldFire(filling')
      BY <3>1, <3>3, <3>5
    <3>7. trainee'.id \in Nat /\ trainee'.id < filling'.id /\ filling.id <= filling'.id /\ lostFlows' \in Nat
      BY <2>2, <3>1 DEF CollectorSound, WindowTypes
    <3> QED
      BY <1>1, <1>3, <3>1, <3>6, <3>7
  <2> QED
    BY <2>3, <2>4
<1> QED
  BY <1>2, <1>3

(* The steps of the trainer. *)
TrainerStep ==
    Scrape!StartFails \/ Scrape!NotPromoted \/ Scrape!Promoted \/ Scrape!Report \/ Scrape!Release

ReaderStep ==
    (\E r \in Scrape!Observers : Scrape!ReadCollector(r)) \/ Scrape!ReadHistory \/ Scrape!ReadTotal \/ Scrape!Publish

LEMMA CollectorStep ==
    ASSUME CollectorSound, [Scrape!Next]_(Scrape!scrapeVars)
    PROVE  CollectorSound'
<1>1. CASE UNCHANGED Scrape!scrapeVars
  BY <1>1 DEF CollectorSound, Scrape!scrapeVars, WindowTypes, Scrape!ShouldFire, Scrape!Elapsed
<1>2. ASSUME NEW h \in ScrapeHosts, NEW p \in ScrapePorts, NEW at \in {wall - 1, wall}, Scrape!Flow(h, p, at)
      PROVE  CollectorSound'
  <2>1. at \in Int
    BY DEF CollectorSound
  <2>2. /\ UNCHANGED <<wall, leftover, trained, windowsTotal, reader, gauges>>
        /\ WindowTypes(filling') /\ ~Scrape!ShouldFire(filling') /\ (trainStage' # "idle" => filling'.n = 0)
        /\ trainee'.id \in Nat /\ trainee'.id < filling'.id /\ filling.id <= filling'.id
        /\ lostFlows' \in Nat /\ (trainStage' = "idle" => trainStage = "idle" /\ lostFlows' = lostFlows)
    BY <1>2, <2>1, FlowDoes
  <2>3. trained'.id \in Nat /\ trained'.id < filling'.id
    BY <2>2 DEF CollectorSound, WindowTypes
  <2> QED
    BY <2>2, <2>3 DEF CollectorSound
<1>3. CASE TrainerStep
  <2>1. UNCHANGED <<wall, filling, trainee>>
    BY <1>3 DEF TrainerStep, Scrape!StartFails, Scrape!NotPromoted, Scrape!Promoted, Scrape!Report, Scrape!Release
  <2>2. filling.n = 0
    BY <1>3 DEF CollectorSound, TrainerStep, Scrape!StartFails, Scrape!NotPromoted, Scrape!Promoted, Scrape!Report, Scrape!Release
  <2>3. WindowTypes(filling') /\ ~Scrape!ShouldFire(filling')
    BY <2>1 DEF CollectorSound
  <2>4. lostFlows' \in Nat /\ (lostFlows' > 0 /\ trainStage' = "idle" => leftover')
    <3>1. CASE Scrape!StartFails \/ Scrape!Release
      <4>1. lostFlows' = lostFlows /\ (lostFlows > 0 => leftover')
        BY <3>1 DEF Scrape!StartFails, Scrape!Release
      <4> QED
        BY <4>1 DEF CollectorSound
    <3>2. CASE Scrape!NotPromoted \/ Scrape!Promoted
      <4>1. lostFlows' = lostFlows /\ trainStage' # "idle"
        BY <3>2 DEF Scrape!NotPromoted, Scrape!Promoted
      <4> QED
        BY <4>1 DEF CollectorSound
    <3>3. CASE Scrape!Report
      <4>1. lostFlows' = 0
        BY <3>3 DEF Scrape!Report
      <4> QED
        BY <4>1
    <3> QED
      BY <1>3, <3>1, <3>2, <3>3 DEF TrainerStep
  <2>5. trained'.id \in Nat /\ trained'.id < filling'.id /\ windowsTotal' \in Nat /\ (trained' # Scrape!NoWindow => windowsTotal' > 0)
    BY <1>3 DEF CollectorSound, TrainerStep, Scrape!StartFails, Scrape!NotPromoted, Scrape!Promoted, Scrape!Report, Scrape!Release
  <2> QED
    BY <2>1, <2>2, <2>3, <2>4, <2>5 DEF CollectorSound
<1>4. CASE Scrape!Tick \/ ReaderStep
  <2>1. UNCHANGED <<filling, trainStage, trainee, lostFlows, leftover, trained, windowsTotal>>
    BY <1>4 DEF Scrape!Tick, ReaderStep, Scrape!ReadCollector, Scrape!ReadHistory, Scrape!ReadTotal, Scrape!Publish
  <2>2. wall' \in Nat
    BY <1>4 DEF CollectorSound, Scrape!Tick, ReaderStep, Scrape!ReadCollector, Scrape!ReadHistory, Scrape!ReadTotal, Scrape!Publish
  <2>3. WindowTypes(filling') /\ ~Scrape!ShouldFire(filling')
    BY <2>1 DEF CollectorSound
  <2> QED
    BY <2>1, <2>2, <2>3 DEF CollectorSound
<1> QED
  BY <1>1, <1>2, <1>3, <1>4 DEF Scrape!Next, TrainerStep, ReaderStep

(* What the collector tells: a window all of whose conditions hold would have been handed over. *)
LEMMA SnapshotIsTrue ==
    ASSUME CollectorSound
    PROVE  LET told == Scrape!Snapshot
           IN  /\ told.id = filling.id /\ (told.inFlight => told.n = 0)
               /\ told.dropped > 0 => told.inFlight \/ leftover
               /\ (\A c \in told.progress : c[2] = 100) /\ ~told.inFlight => Scrape!Elapsed(filling, filling.last) < FireAt.time
<1> DEFINE told == Scrape!Snapshot
           ips == Cardinality(filling.hosts)
           bits == PortBits(filling.counts)
<1>1. /\ told.id = filling.id /\ told.n = filling.n /\ told.inFlight = (trainStage # "idle") /\ told.dropped = lostFlows
      /\ told.progress = {<<"vectors", Scrape!Ratio(filling.n, FireAt.vectors)>>, <<"ips", Scrape!Ratio(Scrape!Cardinality(filling.hosts), FireAt.ips)>>,
                   <<"time", Scrape!Ratio(Scrape!Elapsed(filling, wall), FireAt.time)>>, <<"entropy", Scrape!Ratio(bits, FireAt.entropy)>>}
  BY DEF Scrape!Snapshot, Scrape!InFlight
<1> HIDE DEF told
<1>2. ASSUME \A c \in told.progress : c[2] = 100
      PROVE  Scrape!Elapsed(filling, filling.last) < FireAt.time
  <2>1. Scrape!Ratio(filling.n, FireAt.vectors) = 100 /\ Scrape!Ratio(ips, FireAt.ips) = 100 /\ Scrape!Ratio(bits, FireAt.entropy) = 100
    BY <1>1, <1>2, ScrapeCardinality
  <2>2. WindowTypes(filling) /\ filling.n \in Nat
    BY DEF CollectorSound, WindowTypes
  <2>3. ips \in Nat /\ bits \in Nat
    BY <2>2, BitsOfWindow
  <2>4. filling.n >= FireAt.vectors /\ ips >= FireAt.ips /\ bits >= FireAt.entropy
    <3> HIDE DEF ips, bits
    <3> QED
      BY <2>1, <2>2, <2>3, CompleteIsMet, ScrapeAssumption
  <2>5. ~(Scrape!Elapsed(filling, filling.last) >= FireAt.time)
    BY <2>4, ScrapeCardinality DEF CollectorSound, Scrape!ShouldFire
  <2>6. Scrape!Elapsed(filling, filling.last) \in Int
    <3>1. filling.last - filling.start \in Int
      BY <2>2 DEF WindowTypes
    <3> DEFINE S == {0, filling.last - filling.start}
    <3>2. \E x \in S : \A y \in S : x >= y
      BY <3>1
    <3>3. Scrape!Elapsed(filling, filling.last) = Scrape!Max(S)
      BY DEF Scrape!Elapsed
    <3>4. \A x \in S : x \in Int
      BY <3>1
    <3> HIDE DEF S
    <3> QED
      BY <3>2, <3>3, <3>4 DEF Scrape!Max
  <2> QED
    BY <2>5, <2>6, ScrapeAssumption
<1> QED
  BY <1>1, <1>2 DEF CollectorSound, told

LEMMA ReaderStepSound ==
    ASSUME CollectorSound, ReaderSound, GaugesSound, [Scrape!Next]_(Scrape!scrapeVars)
    PROVE  ReaderSound'
<1>1. CASE UNCHANGED <<reader, trained, windowsTotal, gauges>>
  BY <1>1 DEF ReaderSound
<1>2. CASE Scrape!Promoted
  <2>1. trained' = trainee /\ windowsTotal' = windowsTotal + 1 /\ gauges' = gauges
        /\ reader' = (IF reader = Scrape!NotReading THEN Scrape!NotReading ELSE [reader EXCEPT !.overtaken = TRUE])
    BY <1>2 DEF Scrape!Promoted
  <2>2. windowsTotal \in Nat
    BY DEF CollectorSound
  <2>3. CASE reader = Scrape!NotReading
    BY <2>1, <2>3 DEF ReaderSound
  <2>4. CASE reader # Scrape!NotReading
    <3>1. DOMAIN reader = ReaderFields
      BY <2>4 DEF ReaderSound
    <3>2. /\ DOMAIN reader' = ReaderFields /\ reader'.at = reader.at /\ reader'.who = reader.who /\ reader'.snap = reader.snap
          /\ reader'.overtaken = TRUE /\ reader'.late = reader.late /\ reader'.excused = reader.excused
          /\ reader'.last = reader.last /\ reader'.windows = reader.windows
      BY <2>1, <2>4, <3>1 DEF ReaderFields
    <3> QED
      BY <2>1, <2>2, <2>4, <3>2 DEF ReaderSound
  <2> QED
    BY <2>3, <2>4
<1>3. ASSUME NEW r \in Scrape!Observers, Scrape!ReadCollector(r)
      PROVE  ReaderSound'
  <2>1. /\ DOMAIN reader' = ReaderFields /\ reader'.at = "history" /\ reader'.snap = Scrape!Snapshot
        /\ reader'.late = (Scrape!Elapsed(filling, filling.last) < FireAt.time) /\ reader'.excused = leftover
        /\ ~reader'.overtaken /\ reader'.windows = 0 /\ UNCHANGED <<trained, windowsTotal, gauges>>
    BY <1>3 DEF Scrape!ReadCollector, ReaderFields
  <2>2. /\ reader'.snap.id = filling.id /\ (reader'.snap.inFlight => reader'.snap.n = 0)
        /\ reader'.snap.dropped > 0 => reader'.snap.inFlight \/ leftover
        /\ (\A c \in reader'.snap.progress : c[2] = 100) /\ ~reader'.snap.inFlight => Scrape!Elapsed(filling, filling.last) < FireAt.time
    BY <2>1, SnapshotIsTrue
  <2>3. filling.id \in Nat /\ trained.id < filling.id /\ windowsTotal \in Nat
    BY DEF CollectorSound, WindowTypes
  <2>4. (\A c \in reader'.snap.progress : c[2] = 100) /\ ~reader'.snap.inFlight => reader'.late
    BY <2>1, <2>2, Zenon
  <2>5. reader'.snap.dropped > 0 => reader'.snap.inFlight \/ reader'.excused
    BY <2>1, <2>2, Zenon
  <2>6. reader'.snap.id \in Nat /\ trained'.id < reader'.snap.id /\ reader'.windows \in Nat /\ reader'.windows <= windowsTotal'
    BY <2>1, <2>2, <2>3
  <2>7. reader'.snap.inFlight => reader'.snap.n = 0
    BY <2>2
  <2> QED
    BY <2>1, <2>4, <2>5, <2>6, <2>7 DEF ReaderSound
<1>4. CASE Scrape!ReadHistory
  <2>1. DOMAIN reader = ReaderFields /\ reader # Scrape!NotReading /\ reader.at = "history"
    BY <1>4 DEF Scrape!ReadHistory, Scrape!NotReading, ReaderSound
  <2>2. /\ DOMAIN reader' = ReaderFields /\ reader'.at = (IF reader.who = "status" THEN "answer" ELSE "total") /\ reader'.who = reader.who
        /\ reader'.snap = reader.snap /\ reader'.overtaken = reader.overtaken /\ reader'.late = reader.late
        /\ reader'.excused = reader.excused /\ reader'.last = trained /\ reader'.windows = reader.windows
        /\ UNCHANGED <<trained, windowsTotal, gauges>>
    BY <1>4, <2>1 DEF Scrape!ReadHistory, ReaderFields
  <2> QED
    BY <2>1, <2>2 DEF ReaderSound, CollectorSound
<1>5. CASE Scrape!ReadTotal
  <2>1. DOMAIN reader = ReaderFields /\ reader # Scrape!NotReading /\ reader.at = "total"
    BY <1>5 DEF Scrape!ReadTotal, Scrape!NotReading, ReaderSound
  <2>2. /\ DOMAIN reader' = ReaderFields /\ reader'.at = "answer" /\ reader'.who = reader.who
        /\ reader'.snap = reader.snap /\ reader'.overtaken = reader.overtaken /\ reader'.late = reader.late
        /\ reader'.excused = reader.excused /\ reader'.last = reader.last /\ reader'.windows = windowsTotal
        /\ UNCHANGED <<trained, windowsTotal, gauges>>
    BY <1>5, <2>1 DEF Scrape!ReadTotal, ReaderFields
  <2>3. windowsTotal \in Nat /\ gauges.windows <= windowsTotal
    BY DEF CollectorSound, GaugesSound
  <2> QED
    BY <2>1, <2>2, <2>3 DEF ReaderSound
<1>6. CASE Scrape!Publish
  BY <1>6 DEF Scrape!Publish, ReaderSound
<1>7. CASE UNCHANGED Scrape!scrapeVars \/ Scrape!StartFails \/ Scrape!NotPromoted \/ Scrape!Report \/ Scrape!Release \/ Scrape!Tick
  BY <1>1, <1>7 DEF Scrape!scrapeVars, Scrape!StartFails, Scrape!NotPromoted, Scrape!Report, Scrape!Release, Scrape!Tick
<1>8. ASSUME NEW h \in ScrapeHosts, NEW p \in ScrapePorts, NEW at, Scrape!Flow(h, p, at)
      PROVE  ReaderSound'
  BY <1>1, <1>8 DEF Scrape!Flow
<1> QED
  BY <1>2, <1>3, <1>4, <1>5, <1>6, <1>7, <1>8 DEF Scrape!Next

(* Who writes the count of windows and the gauges. *)
LEMMA GaugesWritten ==
    ASSUME CollectorSound, [Scrape!Next]_(Scrape!scrapeVars)
    PROVE  /\ windowsTotal' \in {windowsTotal, windowsTotal + 1}
           /\ gauges' = gauges \/ (Scrape!Publish /\ reader.who # "status")
<1>1. CASE UNCHANGED Scrape!scrapeVars
  BY <1>1 DEF Scrape!scrapeVars
<1>4. ASSUME NEW h, NEW p, NEW at, Scrape!Flow(h, p, at)
      PROVE  windowsTotal' = windowsTotal /\ gauges' = gauges
  BY <1>4 DEF Scrape!Flow
<1>2. CASE TrainerStep
  BY <1>2 DEF TrainerStep, Scrape!StartFails, Scrape!NotPromoted, Scrape!Promoted, Scrape!Report, Scrape!Release
<1>3. CASE Scrape!Tick \/ ReaderStep
  BY <1>3 DEF Scrape!Tick, ReaderStep, Scrape!ReadCollector, Scrape!ReadHistory, Scrape!ReadTotal, Scrape!Publish
<1> QED
  BY <1>1, <1>2, <1>3, <1>4 DEF Scrape!Next, TrainerStep, ReaderStep

LEMMA GaugesStep ==
    ASSUME CollectorSound, ReaderSound, GaugesSound, [Scrape!Next]_(Scrape!scrapeVars)
    PROVE  GaugesSound'
<1>1. CASE UNCHANGED gauges
  <2>1. windowsTotal' \in Nat /\ windowsTotal \in Nat /\ windowsTotal <= windowsTotal'
    BY GaugesWritten DEF CollectorSound
  <2> QED
    BY <1>1, <2>1 DEF GaugesSound
<1>2. CASE Scrape!Publish /\ reader.who # "status"
  <2> DEFINE drift == Scrape!Drift(reader.snap, reader.last)
  <2>1. reader.at = "answer" /\ reader # Scrape!NotReading /\ windowsTotal' = windowsTotal
        /\ gauges' = [windows |-> reader.windows, drift |-> IF drift = Scrape!NoDrift THEN gauges.drift ELSE drift]
    BY <1>2 DEF Scrape!Publish, Scrape!NotReading
  <2>2. drift # Scrape!NoDrift => reader.last # Scrape!NoWindow
    BY DEF Scrape!Drift
  <2> HIDE DEF drift
  <2>3. /\ reader.windows \in Nat /\ reader.windows <= windowsTotal /\ gauges.windows <= reader.windows
        /\ reader.last # Scrape!NoWindow => reader.windows > 0
    BY <1>2, <2>1 DEF ReaderSound
  <2>4. gauges'.windows = reader.windows /\ gauges'.drift \in {gauges.drift, drift} /\ DOMAIN gauges' = {"windows", "drift"}
    BY <2>1
  <2>5. gauges.windows \in Nat /\ (gauges.drift # Scrape!NoDrift => gauges.windows > 0)
    BY DEF GaugesSound
  <2>6. gauges'.drift # Scrape!NoDrift => reader.windows > 0
    BY <2>2, <2>3, <2>4, <2>5
  <2> QED
    BY <2>1, <2>3, <2>4, <2>6 DEF GaugesSound
<1>3. gauges' = gauges \/ (Scrape!Publish /\ reader.who # "status")
  BY GaugesWritten
<1> QED
  BY <1>1, <1>2, <1>3

LEMMA ScrapeStarts ==
    ASSUME Scrape!Init
    PROVE  CollectorSound /\ ReaderSound /\ GaugesSound
<1>1. /\ wall = 0 /\ filling = Scrape!NewWindow(1, 0) /\ trainStage = "idle" /\ trainee = Scrape!NoWindow /\ lostFlows = 0
      /\ trained = Scrape!NoWindow /\ windowsTotal = 0 /\ reader = Scrape!NotReading /\ gauges = [windows |-> 0, drift |-> -1]
  BY DEF Scrape!Init
<1>2. filling.id = 1 /\ filling.n = 0 /\ filling.hosts = {} /\ filling.start = 0 /\ filling.last = 0
      /\ filling.counts = [q \in ScrapePorts |-> 0] /\ DOMAIN filling = WindowFields
  BY <1>1 DEF Scrape!NewWindow, WindowFields
<1>3. WindowTypes(filling)
  BY <1>2, FS_EmptySet, ScrapeAssumption DEF WindowTypes
<1>4. ~Scrape!ShouldFire(filling)
  BY <1>2, ScrapeAssumption DEF Scrape!ShouldFire
<1>5. trainee.id = 0 /\ trained.id = 0
  BY <1>1 DEF Scrape!NoWindow
<1>6. CollectorSound
  BY <1>1, <1>2, <1>3, <1>4, <1>5 DEF CollectorSound
<1> QED
  BY <1>1, <1>6 DEF ReaderSound, GaugesSound, Scrape!NoDrift

(***************************************************************************)
(* The progress of the baseline is told as the trigger sees it, and drift  *)
(* is measured against an earlier window (collector.snapshot,              *)
(* eta_estimate_sec, compute_drift, update_baseline_metrics), however the  *)
(* reads fall between the steps of the collector and its trainer.          *)
(***************************************************************************)
THEOREM ScrapesAreTrue == Scrape!Spec => []Scrape!ProgressIsTrue /\ []Scrape!DriftIsOfEarlierWindow
<1> DEFINE AllSound == CollectorSound /\ ReaderSound /\ GaugesSound
<1>1. Scrape!Init => AllSound
  BY ScrapeStarts
<1>2. AllSound /\ [Scrape!Next]_(Scrape!scrapeVars) => AllSound'
  BY CollectorStep, ReaderStepSound, GaugesStep
<1>3. AllSound => Scrape!ProgressIsTrue
  <2> SUFFICES ASSUME AllSound, reader # Scrape!NotReading PROVE Scrape!ProgressIsTrue
    BY DEF Scrape!ProgressIsTrue
  <2>1. reader.snap.inFlight => Scrape!Eta(reader.snap, wall) = Scrape!NoEta
    BY DEF Scrape!Eta
  <2> QED
    BY <2>1 DEF Scrape!ProgressIsTrue, ReaderSound
<1>4. AllSound => Scrape!DriftIsOfEarlierWindow
  <2> SUFFICES ASSUME AllSound PROVE Scrape!DriftIsOfEarlierWindow
    OBVIOUS
  <2>1. reader.at \in {"total", "answer"} => reader.last.id < reader.snap.id \/ reader.overtaken
    BY DEF ReaderSound, Scrape!NotReading
  <2> QED
    BY <2>1 DEF Scrape!DriftIsOfEarlierWindow, GaugesSound
<1> HIDE DEF AllSound
<1> QED
  BY <1>1, <1>2, <1>3, <1>4, PTL DEF Scrape!Spec

-----------------------------------------------------------------------------
(* Trust: what is known of a destination.                                    *)

(* When a destination last gave the answer that is cached, and how old an answer may be.   *)
Answered(yes, no, d, trusted) == IF trusted THEN yes[d] ELSE no[d]

TrustTypes ==
    /\ dnsTime \in Nat /\ names \in [Destinations -> BOOLEAN]
    /\ DOMAIN trustedAt = Destinations /\ DOMAIN otherAt = Destinations /\ DOMAIN dnsCache = Destinations
    /\ DOMAIN asking = FlowThreads /\ DOMAIN flowVerdict = FlowThreads
    /\ \A d \in Destinations : trustedAt[d] \in Int /\ trustedAt[d] <= dnsTime /\ otherAt[d] \in Int /\ otherAt[d] <= dnsTime
    /\ \A t \in FlowThreads : Trust!Asking(t) => asking[t].to \in Destinations /\ asking[t].since \in 0..dnsTime

(* A cached answer expires a lifetime after the lookup began, so not later than that after it ended.  *)
Expires ==
    /\ \A d \in Destinations : /\ dnsCache[d].until \in Int
                               /\ dnsCache[d].until = 0 \/ dnsCache[d].until <= Answered(trustedAt, otherAt, d, dnsCache[d].trusted) + DnsTtl
    /\ \A t \in FlowThreads : flowVerdict[t] # Trust!NoVerdict =>
         LET v == flowVerdict[t]
         IN  v.to \in Destinations /\ v.at \in Int /\ v.at - Answered(trustedAt, otherAt, v.to, v.trusted) < DnsTtl

(* Answers do not become older.                                                          *)
LEMMA StillRecent ==
    ASSUME TrustTypes, dnsTime' \in Nat, dnsTime <= dnsTime',
           DOMAIN trustedAt' = Destinations /\ DOMAIN otherAt' = Destinations,
           \A d \in Destinations : /\ trustedAt'[d] \in Int /\ trustedAt[d] <= trustedAt'[d] /\ trustedAt'[d] <= dnsTime'
                                   /\ otherAt'[d] \in Int /\ otherAt[d] <= otherAt'[d] /\ otherAt'[d] <= dnsTime'
    PROVE  \A d \in Destinations : \A u :
                /\ Answered(trustedAt, otherAt, d, u) \in Int /\ Answered(trustedAt', otherAt', d, u) \in Int
                /\ Answered(trustedAt, otherAt, d, u) <= Answered(trustedAt', otherAt', d, u) /\ Answered(trustedAt', otherAt', d, u) <= dnsTime'
BY DEF TrustTypes, Answered

LEMMA ConcludeDoes ==
    ASSUME TrustTypes, NEW t \in FlowThreads, NEW u \in BOOLEAN, Trust!Asking(t), Trust!Conclude(t, u)
    PROVE  /\ dnsTime' = dnsTime /\ names' = names /\ asking[t].to \in Destinations /\ asking[t].since \in 0..dnsTime
           /\ DOMAIN trustedAt' = Destinations /\ DOMAIN otherAt' = Destinations /\ DOMAIN dnsCache' = Destinations
           /\ DOMAIN asking' = FlowThreads /\ DOMAIN flowVerdict' = FlowThreads
           /\ dnsCache'[asking[t].to].trusted = u /\ dnsCache'[asking[t].to].until = asking[t].since + DnsTtl
           /\ \A d \in Destinations : d # asking[t].to => dnsCache'[d] = dnsCache[d]
           /\ asking'[t] = Trust!NotAsking /\ \A s \in FlowThreads : s # t => asking'[s] = asking[s]
           /\ flowVerdict'[t] = [to |-> asking[t].to, trusted |-> u, at |-> dnsTime]
           /\ \A s \in FlowThreads : s # t => flowVerdict'[s] = flowVerdict[s]
BY DEF Trust!Conclude, Trust!Expiry, TrustTypes

(* The history follows: the answer is as young as can be, the others stay. *)
LEMMA ConcludeIsNow ==
    ASSUME TrustTypes, NEW t \in FlowThreads, NEW u \in BOOLEAN, Trust!Asking(t), Trust!Conclude(t, u)
    PROVE  /\ Answered(trustedAt', otherAt', asking[t].to, u) = dnsTime
           /\ \A d \in Destinations : /\ trustedAt'[d] \in Int /\ trustedAt[d] <= trustedAt'[d] /\ trustedAt'[d] <= dnsTime
                                      /\ otherAt'[d] \in Int /\ otherAt[d] <= otherAt'[d] /\ otherAt'[d] <= dnsTime
<1>1. /\ asking[t].to \in Destinations /\ dnsTime \in Int
      /\ DOMAIN trustedAt = Destinations /\ DOMAIN otherAt = Destinations
      /\ \A d \in Destinations : trustedAt[d] \in Int /\ trustedAt[d] <= dnsTime /\ otherAt[d] \in Int /\ otherAt[d] <= dnsTime
  BY DEF TrustTypes
<1>2. CASE u
  <2>1. trustedAt' = [trustedAt EXCEPT ![asking[t].to] = dnsTime] /\ otherAt' = otherAt
    BY <1>2 DEF Trust!Conclude
  <2> QED
    BY <1>1, <1>2, <2>1 DEF Answered
<1>3. CASE ~u
  <2>1. otherAt' = [otherAt EXCEPT ![asking[t].to] = dnsTime] /\ trustedAt' = trustedAt
    BY <1>3 DEF Trust!Conclude
  <2> QED
    BY <1>1, <1>3, <2>1 DEF Answered
<1> QED
  BY <1>2, <1>3

(* Where neither caches nor verdicts change, or verdicts are forgotten.                  *)
LEMMA OlderExpires ==
    ASSUME TrustTypes, Expires, dnsTime' \in Nat, dnsTime <= dnsTime', dnsCache' = dnsCache,
           UNCHANGED <<trustedAt, otherAt>>,
           \A t \in FlowThreads : flowVerdict'[t] # Trust!NoVerdict => flowVerdict'[t] = flowVerdict[t]
    PROVE  Expires'
BY DEF Expires, Answered

LEMMA TrustTypesStep ==
    ASSUME TrustTypes, [Trust!Next]_(Trust!trustVars)
    PROVE  TrustTypes'
<1>1. CASE UNCHANGED Trust!trustVars
  BY <1>1 DEF TrustTypes, Trust!trustVars, Trust!Asking
<1>2. ASSUME NEW t \in FlowThreads, NEW d \in Destinations, Trust!Resolve(t, d)
      PROVE  TrustTypes'
  <2>1. /\ UNCHANGED <<dnsTime, names, dnsCache, trustedAt, otherAt>> /\ DOMAIN asking' = FlowThreads /\ DOMAIN flowVerdict' = FlowThreads
        /\ \A s \in FlowThreads : asking'[s] = asking[s] \/ asking'[s] = [to |-> d, since |-> dnsTime]
    BY <1>2 DEF Trust!Resolve, TrustTypes
  <2>2. dnsTime \in 0..dnsTime
    BY DEF TrustTypes
  <2> QED
    BY <2>1, <2>2 DEF TrustTypes, Trust!Asking
<1>3. ASSUME NEW t \in FlowThreads, NEW u \in BOOLEAN, Trust!Asking(t), Trust!Conclude(t, u)
      PROVE  TrustTypes'
  <2>1. \A d \in Destinations : trustedAt'[d] \in Int /\ trustedAt'[d] <= dnsTime' /\ otherAt'[d] \in Int /\ otherAt'[d] <= dnsTime'
    BY <1>3, ConcludeDoes, ConcludeIsNow
  <2>2. \A s \in FlowThreads : Trust!Asking(s)' => asking'[s].to \in Destinations /\ asking'[s].since \in 0..dnsTime'
    <3>1. dnsTime' = dnsTime /\ asking'[t] = Trust!NotAsking /\ \A s \in FlowThreads : s # t => asking'[s] = asking[s]
      BY <1>3, ConcludeDoes
    <3> QED
      BY <3>1 DEF TrustTypes, Trust!Asking
  <2>3. dnsTime' \in Nat /\ names' \in [Destinations -> BOOLEAN]
    BY <1>3, ConcludeDoes DEF TrustTypes
  <2>4. DOMAIN trustedAt' = Destinations /\ DOMAIN otherAt' = Destinations /\ DOMAIN dnsCache' = Destinations
        /\ DOMAIN asking' = FlowThreads /\ DOMAIN flowVerdict' = FlowThreads
    BY <1>3, ConcludeDoes
  <2> QED
    BY <2>1, <2>2, <2>3, <2>4 DEF TrustTypes
<1>4. ASSUME NEW t \in FlowThreads, Trust!Resolved(t) \/ Trust!TimesOut(t)
      PROVE  \E u \in BOOLEAN : Trust!Asking(t) /\ Trust!Conclude(t, u)
  <2>1. CASE Trust!Resolved(t)
    <3>1. PICK u \in {names[asking[t].to], FALSE} : Trust!Conclude(t, u)
      BY <2>1 DEF Trust!Resolved
    <3>2. Trust!Asking(t)
      BY <2>1 DEF Trust!Resolved, Trust!Running
    <3>3. u \in BOOLEAN
      BY <3>2 DEF TrustTypes
    <3> QED
      BY <3>1, <3>2, <3>3
  <2> QED
    BY <1>4, <2>1 DEF Trust!TimesOut
<1>5. CASE Trust!Tick
  <2>1. dnsTime' = dnsTime + 1 /\ flowVerdict' = [t \in FlowThreads |-> Trust!NoVerdict]
        /\ UNCHANGED <<names, dnsCache, asking, trustedAt, otherAt>>
    BY <1>5 DEF Trust!Tick
  <2> QED
    BY <2>1 DEF TrustTypes, Trust!Asking
<1>6. CASE Trust!Unhang \/ \E d \in Destinations : Trust!Rename(d)
  <2>1. UNCHANGED <<dnsTime, dnsCache, asking, trustedAt, otherAt, flowVerdict>>
    BY <1>6 DEF Trust!Unhang, Trust!Rename
  <2>2. names' \in [Destinations -> BOOLEAN]
    BY <1>6 DEF Trust!Unhang, Trust!Rename, TrustTypes
  <2> QED
    BY <2>1, <2>2 DEF TrustTypes, Trust!Asking
<1> QED
  BY <1>1, <1>2, <1>3, <1>4, <1>5, <1>6 DEF Trust!Next

LEMMA ExpiresStep ==
    ASSUME TrustTypes, Expires, [Trust!Next]_(Trust!trustVars)
    PROVE  Expires'
<1>1. CASE UNCHANGED Trust!trustVars
  BY <1>1 DEF Expires, Answered, Trust!trustVars
<1>2. ASSUME NEW t \in FlowThreads, NEW d \in Destinations, Trust!Resolve(t, d)
      PROVE  Expires'
  <2>1. UNCHANGED <<dnsTime, dnsCache, trustedAt, otherAt>>
    BY <1>2 DEF Trust!Resolve
  <2>2. CASE ~Trust!Cached(d)
    BY <1>2, <2>1, <2>2, OlderExpires DEF Trust!Resolve, TrustTypes
  <2>3. CASE Trust!Cached(d)
    <3>1. /\ flowVerdict'[t] = [to |-> d, trusted |-> dnsCache[d].trusted, at |-> dnsTime]
          /\ \A s \in FlowThreads : s # t => flowVerdict'[s] = flowVerdict[s]
      BY <1>2, <2>3 DEF Trust!Resolve, TrustTypes
    <3>2. dnsTime < dnsCache[d].until /\ dnsTime \in Nat /\ dnsCache[d].until \in Int
      BY <2>3 DEF Trust!Cached, TrustTypes, Expires
    <3>3. dnsCache[d].until <= Answered(trustedAt, otherAt, d, dnsCache[d].trusted) + DnsTtl
      BY <3>2 DEF Expires
    <3>4. Answered(trustedAt, otherAt, d, dnsCache[d].trusted) \in Int
      BY DEF Answered, TrustTypes
    <3>5. dnsTime - Answered(trustedAt, otherAt, d, dnsCache[d].trusted) < DnsTtl
      BY <3>2, <3>3, <3>4, TrustAssumption
    <3>6. ASSUME NEW s \in FlowThreads, flowVerdict'[s] # Trust!NoVerdict
          PROVE  LET v == flowVerdict'[s]
                 IN  v.to \in Destinations /\ v.at \in Int /\ v.at - Answered(trustedAt, otherAt, v.to, v.trusted) < DnsTtl
      <4>1. CASE s = t
        BY <3>1, <3>2, <3>5, <4>1
      <4>2. CASE s # t
        BY <3>1, <3>6, <4>2 DEF Expires
      <4> QED
        BY <4>1, <4>2
    <3> QED
      BY <2>1, <3>6 DEF Expires, Answered
  <2> QED
    BY <2>2, <2>3
<1>3. ASSUME NEW t \in FlowThreads, NEW u \in BOOLEAN, Trust!Asking(t), Trust!Conclude(t, u)
      PROVE  Expires'
  <2> DEFINE to == asking[t].to
  <2>1. /\ dnsTime' = dnsTime /\ to \in Destinations /\ asking[t].since \in 0..dnsTime /\ dnsTime \in Nat
        /\ dnsCache'[to].trusted = u /\ dnsCache'[to].until = asking[t].since + DnsTtl
        /\ \A d \in Destinations : d # to => dnsCache'[d] = dnsCache[d]
        /\ flowVerdict'[t] = [to |-> to, trusted |-> u, at |-> dnsTime]
        /\ \A s \in FlowThreads : s # t => flowVerdict'[s] = flowVerdict[s]
    BY <1>3, ConcludeDoes DEF TrustTypes
  <2>2. \A d \in Destinations : \A w : Answered(trustedAt, otherAt, d, w) \in Int /\ Answered(trustedAt', otherAt', d, w) \in Int /\ Answered(trustedAt, otherAt, d, w) <= Answered(trustedAt', otherAt', d, w)
    <3>1. \A d \in Destinations : /\ trustedAt'[d] \in Int /\ trustedAt[d] <= trustedAt'[d] /\ trustedAt'[d] <= dnsTime'
                                   /\ otherAt'[d] \in Int /\ otherAt[d] <= otherAt'[d] /\ otherAt'[d] <= dnsTime'
      BY <1>3, <2>1, ConcludeIsNow
    <3>2. DOMAIN trustedAt' = Destinations /\ DOMAIN otherAt' = Destinations
      BY <1>3, ConcludeDoes
    <3>3. dnsTime' \in Nat /\ dnsTime <= dnsTime'
      BY <2>1
    <3> QED
      BY <3>1, <3>2, <3>3, StillRecent
  <2>3. Answered(trustedAt', otherAt', to, u) = dnsTime
    BY <1>3, ConcludeIsNow
  <2>4. ASSUME NEW d \in Destinations
        PROVE  /\ dnsCache'[d].until \in Int
               /\ dnsCache'[d].until = 0 \/ dnsCache'[d].until <= Answered(trustedAt', otherAt', d, dnsCache'[d].trusted) + DnsTtl
    <3>1. CASE d = to
      <4>1. dnsCache'[d].until = asking[t].since + DnsTtl /\ dnsCache'[d].trusted = u
        BY <2>1, <3>1
      <4>2. asking[t].since + DnsTtl \in Int /\ asking[t].since + DnsTtl <= dnsTime + DnsTtl
        BY <2>1, TrustAssumption
      <4> QED
        BY <2>3, <3>1, <4>1, <4>2
    <3>2. CASE d # to
      <4>1. /\ dnsCache'[d] = dnsCache[d] /\ dnsCache[d].until \in Int
            /\ dnsCache[d].until = 0 \/ dnsCache[d].until <= Answered(trustedAt, otherAt, d, dnsCache[d].trusted) + DnsTtl
        BY <2>1, <3>2 DEF Expires
      <4>2. /\ Answered(trustedAt, otherAt, d, dnsCache[d].trusted) \in Int
            /\ Answered(trustedAt', otherAt', d, dnsCache[d].trusted) \in Int
            /\ Answered(trustedAt, otherAt, d, dnsCache[d].trusted) <= Answered(trustedAt', otherAt', d, dnsCache[d].trusted)
        BY <2>2
      <4>3. \A x, y, z \in Int : x <= y + DnsTtl /\ y <= z => x <= z + DnsTtl
        BY TrustAssumption
      <4> QED
        BY <4>1, <4>2, <4>3
    <3> QED
      BY <3>1, <3>2
  <2>5. ASSUME NEW s \in FlowThreads, flowVerdict'[s] # Trust!NoVerdict
        PROVE  LET v == flowVerdict'[s]
               IN  v.to \in Destinations /\ v.at \in Int /\ v.at - Answered(trustedAt', otherAt', v.to, v.trusted) < DnsTtl
    <3>1. CASE s = t
      <4>1. dnsTime \in Int /\ dnsTime - dnsTime < DnsTtl
        BY <2>1, TrustAssumption
      <4>2. flowVerdict'[s].to = to /\ flowVerdict'[s].trusted = u /\ flowVerdict'[s].at = dnsTime
        BY <2>1, <3>1
      <4> QED
        BY <2>1, <2>3, <4>1, <4>2
    <3>2. CASE s # t
      <4> DEFINE v == flowVerdict[s]
      <4>1. flowVerdict'[s] = v /\ v.to \in Destinations /\ v.at \in Int /\ v.at - Answered(trustedAt, otherAt, v.to, v.trusted) < DnsTtl
        BY <2>1, <2>5, <3>2 DEF Expires
      <4> HIDE DEF v
      <4>2. /\ Answered(trustedAt, otherAt, v.to, v.trusted) \in Int
            /\ Answered(trustedAt', otherAt', v.to, v.trusted) \in Int
            /\ Answered(trustedAt, otherAt, v.to, v.trusted) <= Answered(trustedAt', otherAt', v.to, v.trusted)
        BY <2>2, <4>1
      <4>3. \A x, y, z \in Int : x - y < DnsTtl /\ y <= z => x - z < DnsTtl
        BY TrustAssumption
      <4> QED
        BY <4>1, <4>2, <4>3
    <3> QED
      BY <3>1, <3>2
  <2> HIDE DEF to
  <2> QED
    BY <2>4, <2>5 DEF Expires
<1>4. ASSUME NEW t \in FlowThreads, Trust!Resolved(t) \/ Trust!TimesOut(t)
      PROVE  \E u \in BOOLEAN : Trust!Asking(t) /\ Trust!Conclude(t, u)
  <2>1. CASE Trust!Resolved(t)
    <3>1. PICK u \in {names[asking[t].to], FALSE} : Trust!Conclude(t, u)
      BY <2>1 DEF Trust!Resolved
    <3>2. Trust!Asking(t)
      BY <2>1 DEF Trust!Resolved, Trust!Running
    <3>3. u \in BOOLEAN
      BY <3>2 DEF TrustTypes
    <3> QED
      BY <3>1, <3>2, <3>3
  <2> QED
    BY <1>4, <2>1 DEF Trust!TimesOut
<1>5. CASE Trust!Tick
  <2>1. dnsTime' = dnsTime + 1 /\ flowVerdict' = [t \in FlowThreads |-> Trust!NoVerdict]
        /\ UNCHANGED <<dnsCache, trustedAt, otherAt>>
    BY <1>5 DEF Trust!Tick
  <2> QED
    BY <2>1, OlderExpires DEF TrustTypes
<1>6. CASE Trust!Unhang \/ \E d \in Destinations : Trust!Rename(d)
  BY <1>6, OlderExpires DEF Trust!Unhang, Trust!Rename, TrustTypes
<1> QED
  BY <1>1, <1>2, <1>3, <1>4, <1>5, <1>6 DEF Trust!Next

(* A verdict about a destination rests on an answer of the last hour, whichever thread    *)
(* wrote the cache last and however long a lookup took.                                  *)
THEOREM TrustIsRecentHolds == Trust!Spec => []Trust!TrustIsRecent
<1>1. Trust!Init => TrustTypes /\ Expires
  <2> SUFFICES ASSUME Trust!Init PROVE TrustTypes /\ Expires
    OBVIOUS
  <2>1. /\ dnsTime = 0 /\ dnsCache = [d \in Destinations |-> [trusted |-> FALSE, until |-> 0]]
        /\ asking = [t \in FlowThreads |-> Trust!NotAsking] /\ flowVerdict = [t \in FlowThreads |-> Trust!NoVerdict]
        /\ trustedAt = [d \in Destinations |-> Trust!Never] /\ otherAt = [d \in Destinations |-> Trust!Never]
    BY DEF Trust!Init
  <2>2. Trust!Never \in Int /\ Trust!Never <= 0
    BY TrustAssumption DEF Trust!Never
  <2>3. names \in [Destinations -> BOOLEAN]
    BY DEF Trust!Init
  <2>4. \A t \in FlowThreads : ~Trust!Asking(t)
    BY <2>1 DEF Trust!Asking
  <2>5. TrustTypes
    BY <2>1, <2>2, <2>3, <2>4 DEF TrustTypes
  <2> QED
    BY <2>1, <2>5 DEF Expires
<1>2. TrustTypes /\ Expires /\ [Trust!Next]_(Trust!trustVars) => (TrustTypes /\ Expires)'
  BY TrustTypesStep, ExpiresStep
<1>3. Expires => Trust!TrustIsRecent
  BY DEF Expires, Answered, Trust!TrustIsRecent
<1> QED
  BY <1>1, <1>2, <1>3, PTL DEF Trust!Spec

=============================================================================
