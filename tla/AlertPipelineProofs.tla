------------------------- MODULE AlertPipelineProofs -------------------------
(* Proofs about AlertPipeline, for every value of its constants. *)
EXTENDS AlertPipeline, SequenceTheorems, FiniteSetTheorems, TLAPS

(* The types proper; HandsOK follows from the invariant HandsInv below. *)
Types == WorldOK /\ CallersOK /\ AlertsOK /\ WritersOK /\ MainOK

(* Where a caller has an alert in hand, and where a writer has. *)
Carrying == {"check", "create", "start", "put"}
Looking  == {"refresh", "query", "stamp", "match"}
Busy     == Looking \cup {"commit"}

CallerHands ==
    /\ \A c \in Callers : cpc[c] \in Carrying => cid[c] # 0 /\ alerts[cid[c]].fate = "fired"
    /\ \A c, d \in Callers : c # d /\ cpc[c] \in Carrying /\ cpc[d] \in Carrying => cid[c] # cid[d]

QueueHands ==
    /\ \A i \in 1..Len(queue) : alerts[queue[i]].fate = "queued"
    /\ \A i, j \in 1..Len(queue) : i # j => queue[i] # queue[j]
    /\ \A a \in AlertIds : alerts[a].fate = "queued" => \E i \in 1..Len(queue) : queue[i] = a

WriterHands ==
    /\ \A w \in Writers : held[w] # 0 <=> wpc[w] \in Busy
    /\ \A w \in Writers : wpc[w] \in Looking => alerts[held[w]].fate = "taken"
    /\ \A w \in Writers : wpc[w] = "commit" => alerts[held[w]].fate = "unmatched"
    /\ \A v, w \in Writers : v # w /\ held[v] # 0 => held[v] # held[w]

(* The strengthening of HandsOK: an alert that is not decided is in exactly one *)
(* place, which its fate names.                                                 *)
HandsInv == CallerHands /\ QueueHands /\ WriterHands

-----------------------------------------------------------------------------
(* Facts about the alerts and the queue.                                   *)

LEMMA Parameters ==
    /\ QueueMax \in Nat /\ DedupWindow \in Nat /\ CleanupEvery \in Nat /\ SuppressTTL \in Nat
    /\ MaxTime \in Nat /\ MaxFlows \in Nat /\ StartTime \in Nat
    /\ DedupWindow < StartTime /\ StartTime <= MaxTime
    /\ Lifetimes \subseteq Nat /\ Keys # {}
    /\ Writers \subseteq Nat \ {0}
<1>1. Cardinality(Writers) \in Nat
  BY AlertPipelineAssumption, FS_CardinalityType DEF AlertPipelineAssumption
<1>2. \A w \in Writers : w \in 1..Cardinality(Writers)
  BY AlertPipelineAssumption DEF AlertPipelineAssumption
<1>3. Writers \subseteq Nat \ {0}
  BY <1>1, <1>2
<1> QED
  BY <1>3, AlertPipelineAssumption DEF AlertPipelineAssumption

LEMMA AlertFacts ==
    ASSUME AlertsOK
    PROVE  /\ Len(alerts) \in Nat /\ AlertIds = 1..Len(alerts)
           /\ \A a \in AlertIds : alerts[a] \in Alert
           /\ Len(queue) \in Nat /\ DOMAIN queue = 1..Len(queue)
           /\ \A i \in 1..Len(queue) : queue[i] \in AlertIds
BY LenProperties, ElementOfSeq DEF AlertsOK, AlertIds

(* What a step that decides about alert a makes of the alerts. *)
Fated(a, fate) ==
    /\ a \in AlertIds /\ alerts'[a].fate = fate
    /\ Len(alerts') = Len(alerts) /\ AlertIds' = AlertIds
    /\ \A b \in AlertIds : alerts'[b].key = alerts[b].key /\ alerts'[b].time = alerts[b].time
    /\ \A b \in AlertIds : b # a => alerts'[b] = alerts[b]

LEMMA AlertUpdate ==
    ASSUME AlertsOK, NEW a \in AlertIds, NEW new \in Alert, alerts' = [alerts EXCEPT ![a] = new],
           new.key = alerts[a].key, new.time = alerts[a].time
    PROVE  alerts' \in Seq(Alert) /\ Fated(a, new.fate) /\ alerts'[a] = new
<1>1. alerts \in Seq(Alert) /\ a \in 1..Len(alerts)
  BY AlertFacts DEF AlertsOK
<1>2. /\ [alerts EXCEPT ![a] = new] \in Seq(Alert)
      /\ Len([alerts EXCEPT ![a] = new]) = Len(alerts)
      /\ \A b \in 1..Len(alerts) :
            [alerts EXCEPT ![a] = new][b] = IF b = a THEN new ELSE alerts[b]
  BY <1>1, ExceptSeq
<1>3. DOMAIN alerts' = 1..Len(alerts')
  BY <1>2, LenProperties
<1>4. /\ AlertIds' = AlertIds
      /\ \A b \in AlertIds : alerts'[b] = IF b = a THEN new ELSE alerts[b]
  BY <1>2, <1>3, AlertFacts DEF AlertIds
<1> QED
  BY <1>2, <1>4 DEF Fated

LEMMA SetFateFates ==
    ASSUME AlertsOK, NEW a \in AlertIds, NEW fate \in Fates, SetFate(a, fate)
    PROVE  /\ alerts' \in Seq(Alert) /\ Fated(a, fate)
           /\ \A b \in AlertIds : alerts'[b].taken = alerts[b].taken
<1> DEFINE new == [alerts[a] EXCEPT !.fate = fate]
<1>1. /\ new \in Alert /\ new.key = alerts[a].key /\ new.time = alerts[a].time
      /\ new.taken = alerts[a].taken /\ new.fate = fate
  BY AlertFacts DEF Alert
<1>2. alerts' = [alerts EXCEPT ![a] = new]
  BY DEF SetFate
<1> HIDE DEF new
<1>3. alerts' \in Seq(Alert) /\ Fated(a, fate) /\ alerts'[a] = new
  BY <1>1, <1>2, AlertUpdate
<1> QED
  BY <1>1, <1>3 DEF Fated

(* A caller is done with its alert. *)
Ends(c) == StartTwice(c) \/ Put(c)

LEMMA EndsFates ==
    ASSUME Types, CallerHands, NEW c \in Callers, Ends(c)
    PROVE  /\ alerts' \in Seq(Alert) /\ \A b \in AlertIds : alerts'[b].taken = alerts[b].taken
           /\ \/ Fated(cid[c], "unstarted") /\ queue' = queue
              \/ Fated(cid[c], "full") /\ queue' = queue
              \/ Fated(cid[c], "queued") /\ queue' = Append(queue, cid[c]) /\ Len(queue) < QueueMax
           /\ cid[c] \in AlertIds /\ alerts[cid[c]].fate = "fired"
<1>1. cid[c] \in AlertIds /\ alerts[cid[c]].fate = "fired"
  BY AlertFacts DEF Types, CallersOK, CallerHands, Carrying, Ends, StartTwice, Put
<1> QED
  BY <1>1, SetFateFates DEF Types, Ends, StartTwice, Put, Fates, Lost, Waiting

(* A writer takes the first alert of the queue. *)
LEMMA GetFates ==
    ASSUME Types, QueueHands, NEW w \in Writers, Get(w)
    PROVE  /\ alerts' \in Seq(Alert) /\ Head(queue) = queue[1] /\ 1 \in 1..Len(queue)
           /\ Fated(queue[1], "taken") /\ alerts'[queue[1]].taken = now
           /\ alerts[queue[1]].fate = "queued"
           /\ queue' \in Seq(AlertIds) /\ Len(queue') = Len(queue) - 1
           /\ \A i \in 1..Len(queue') : queue'[i] = queue[i + 1]
<1>1. queue \in Seq(AlertIds) /\ queue # <<>> /\ queue' = Tail(queue)
  BY DEF Types, AlertsOK, Get
<1>2. 1 \in 1..Len(queue) /\ Head(queue) = queue[1]
  BY <1>1, EmptySeq
<1>3. queue' \in Seq(AlertIds) /\ Len(queue') = Len(queue) - 1
      /\ \A i \in 1..Len(queue') : queue'[i] = queue[i + 1]
  BY <1>1, HeadTailProperties
<1>4. queue[1] \in AlertIds /\ alerts[queue[1]].fate = "queued"
  BY <1>2, AlertFacts DEF Types, QueueHands
<1> DEFINE new == [alerts[queue[1]] EXCEPT !.fate = "taken", !.taken = now]
<1>5. /\ new \in Alert /\ new.key = alerts[queue[1]].key /\ new.time = alerts[queue[1]].time
      /\ new.taken = now /\ new.fate = "taken"
  <2>1. alerts[queue[1]] \in Alert
    BY <1>4, AlertFacts DEF Types
  <2>2. now \in 0..MaxTime /\ "taken" \in Fates
    BY Parameters DEF Types, WorldOK, Fates, Waiting
  <2> QED
    BY <2>1, <2>2 DEF Alert
<1>6. alerts' = [alerts EXCEPT ![queue[1]] = new]
  BY <1>2 DEF Get
<1> HIDE DEF new
<1>7. alerts' \in Seq(Alert) /\ Fated(queue[1], "taken") /\ alerts'[queue[1]] = new
  BY <1>4, <1>5, <1>6, AlertUpdate DEF Types
<1> QED
  BY <1>2, <1>3, <1>4, <1>5, <1>7

(* A writer decides about the alert in its hand, or goes on with it. *)
Decides(w) == MatchRaises(w) \/ Suppress(w) \/ NoMatch(w) \/ Commit(w)

LEMMA DecidesFates ==
    ASSUME Types, WriterHands, NEW w \in Writers, Decides(w)
    PROVE  /\ alerts' \in Seq(Alert) /\ \A b \in AlertIds : alerts'[b].taken = alerts[b].taken
           /\ held[w] \in AlertIds
           /\ \/ /\ wpc[w] = "match" /\ alerts[held[w]].fate = "taken"
                 /\ Fated(held[w], "unmatched") /\ wpc' = [wpc EXCEPT ![w] = "commit"]
                 /\ held' = held
              \/ /\ wpc[w] = "match" /\ alerts[held[w]].fate = "taken"
                 /\ Fated(held[w], "detached") \/ Fated(held[w], "suppressed")
                 /\ wpc' = [wpc EXCEPT ![w] = "top"] /\ held' = [held EXCEPT ![w] = 0]
              \/ /\ wpc[w] = "commit" /\ alerts[held[w]].fate = "unmatched"
                 /\ Fated(held[w], "stored") \/ Fated(held[w], "uncommitted")
                 /\ wpc' = [wpc EXCEPT ![w] = "top"] /\ held' = [held EXCEPT ![w] = 0]
<1>1. wpc[w] \in {"match", "commit"}
  BY DEF Decides, MatchRaises, Suppress, NoMatch, Commit
<1>2. held[w] \in AlertIds
  BY <1>1, AlertFacts DEF Types, WritersOK, WriterHands, Busy, Looking
<1>3. AlertsOK /\ {"unmatched", "detached", "suppressed", "stored", "uncommitted"} \subseteq Fates
  BY DEF Types, Fates, Lost, Waiting
<1>4. CASE NoMatch(w)
  BY <1>2, <1>3, <1>4, SetFateFates DEF NoMatch, Goto, WriterHands, Looking
<1>5. CASE MatchRaises(w)
  BY <1>2, <1>3, <1>5, SetFateFates DEF MatchRaises, Done, Goto, WriterHands, Looking
<1>6. CASE Suppress(w)
  BY <1>2, <1>3, <1>6, SetFateFates DEF Suppress, Done, Goto, WriterHands, Looking
<1>7. CASE Commit(w)
  BY <1>2, <1>3, <1>7, SetFateFates DEF Commit, Done, Goto, WriterHands
<1> QED
  BY <1>4, <1>5, <1>6, <1>7 DEF Decides

(* A caller fires: a new alert is appended. *)
NewAlert(c) == [key |-> ckey[c], time |-> ctime[c], fate |-> "fired", taken |-> 0]

LEMMA FireAppends ==
    ASSUME Types, NEW c \in Callers, Fire(c)
    PROVE  /\ alerts' \in Seq(Alert) /\ Len(alerts') = Len(alerts) + 1
           /\ AlertIds' = AlertIds \cup {Len(alerts) + 1} /\ Len(alerts) + 1 \notin AlertIds
           /\ \A a \in AlertIds : alerts'[a] = alerts[a]
           /\ alerts'[Len(alerts) + 1] = NewAlert(c)
           /\ alerts'[Len(alerts) + 1].fate = "fired" /\ Len(alerts) + 1 \in AlertIds'
           /\ alerts'[Len(alerts) + 1].key = ckey[c] /\ alerts'[Len(alerts) + 1].time = ctime[c]
<1>1. ckey[c] \in Keys /\ ctime[c] \in 0..now /\ now \in 0..MaxTime
  BY Parameters DEF Types, CallersOK, WorldOK
<1>2. NewAlert(c) \in Alert
  BY <1>1, Parameters DEF NewAlert, Alert, Fates, Waiting
<1>3. alerts' = Append(alerts, NewAlert(c)) /\ alerts \in Seq(Alert)
  BY DEF Fire, NewAlert, Types, AlertsOK
<1>4. /\ alerts' \in Seq(Alert) /\ Len(alerts') = Len(alerts) + 1
      /\ \A a \in 1..Len(alerts) : alerts'[a] = alerts[a]
      /\ alerts'[Len(alerts) + 1] = NewAlert(c)
  BY <1>2, <1>3, AppendProperties
<1>5. DOMAIN alerts' = 1..(Len(alerts) + 1) /\ Len(alerts) \in Nat /\ DOMAIN alerts = 1..Len(alerts)
  BY <1>3, <1>4, LenProperties
<1> QED
  BY <1>4, <1>5 DEF AlertIds, NewAlert

-----------------------------------------------------------------------------
(* Every alert that is not decided is in one place.                        *)

(* The steps that change an alert.  All other steps leave alerts and hands alone. *)
Quiet ==
    /\ UNCHANGED <<alerts, queue, cid, held>>
    /\ \A c \in Callers : cpc'[c] \in Carrying <=> cpc[c] \in Carrying
    /\ \A w \in Writers : \/ wpc'[w] = wpc[w]
                          \/ wpc'[w] \notin Busy /\ wpc[w] \notin Busy
                          \/ {wpc[w], wpc'[w]} \subseteq Looking

LEMMA QuietCaller ==
    ASSUME Types, NEW c \in Callers,
           Detect(c) \/ Duplicate(c) \/ CheckWriter(c) \/ CreateWriter(c) \/ StartWriter(c)
    PROVE  Quiet
<1> USE DEF Quiet, Carrying, Busy, Looking
<1>0. cpc \in [Callers -> {"idle", "locking", "check", "create", "start", "put"}]
      /\ wpc \in [Writers -> Thread]
  BY DEF Types, CallersOK, WritersOK
<1>1. CASE Detect(c)
  BY <1>0, <1>1 DEF Detect, writerVars
<1>2. CASE Duplicate(c)
  BY <1>0, <1>2 DEF Duplicate, writerVars
<1>3. CASE CheckWriter(c)
  BY <1>0, <1>3 DEF CheckWriter, writerVars
<1>4. CASE CreateWriter(c)
  BY <1>0, <1>4, Parameters DEF CreateWriter
<1>5. CASE StartWriter(c)
  BY <1>0, <1>5 DEF StartWriter
<1> QED
  BY <1>1, <1>2, <1>3, <1>4, <1>5

LEMMA QuietWriter ==
    ASSUME Types, NEW w \in Writers,
           Top(w) \/ GetEmpty(w) \/ CacheStillGood(w) \/ Query(w) \/ Refresh(w) \/ RefreshFails(w) \/ Stamp(w)
    PROVE  Quiet
<1> USE DEF Quiet, Busy, Looking
<1>0. wpc \in [Writers -> Thread]
  BY DEF Types, WritersOK
<1>1. CASE Top(w)
  BY <1>0, <1>1 DEF Top, Goto, callerVars
<1>2. CASE GetEmpty(w)
  BY <1>0, <1>2 DEF GetEmpty, Goto, callerVars
<1>3. CASE CacheStillGood(w)
  BY <1>0, <1>3 DEF CacheStillGood, Goto, callerVars
<1>4. CASE Refresh(w)
  BY <1>0, <1>4 DEF Refresh, Goto, callerVars
<1>5. CASE RefreshFails(w)
  BY <1>0, <1>5 DEF RefreshFails, Goto, callerVars
<1>6. CASE Query(w)
  BY <1>0, <1>6 DEF Query, Goto, callerVars
<1>7. CASE Stamp(w)
  BY <1>0, <1>7 DEF Stamp, Goto, callerVars
<1> QED
  BY <1>1, <1>2, <1>3, <1>4, <1>5, <1>6, <1>7

World == \/ BeginShutdown \/ Drain \/ TestWriter \/ Join \/ Leave \/ Exit \/ Tick
         \/ \E r \in Rules : CreateRule(r) \/ DeleteRule(r)

LEMMA QuietWorld ==
    ASSUME World \/ UNCHANGED vars
    PROVE  Quiet
BY DEF World, Quiet, vars, callerVars, writerVars, BeginShutdown, Drain, TestWriter, Join, Leave, Exit, Tick, CreateRule,
       DeleteRule

(* What a step of the system is, as far as alerts are concerned. *)
LEMMA Steps ==
    ASSUME Types, [Next]_vars
    PROVE  \/ Quiet
           \/ \E c \in Callers : Fire(c) \/ Ends(c)
           \/ \E w \in Writers : Get(w) \/ Decides(w)
BY QuietCaller, QuietWriter, QuietWorld
DEF Next, CallerStep, WriterStep, World, Ends, Decides

LEMMA CallerHandsStep ==
    ASSUME Types, HandsInv, [Next]_vars
    PROVE  CallerHands'
<1> USE DEF HandsInv
<1>0. /\ cpc \in [Callers -> {"idle", "locking", "check", "create", "start", "put"}]
      /\ cid \in [Callers -> 0..Len(alerts)] /\ AlertIds = 1..Len(alerts) /\ Len(alerts) \in Nat
  BY AlertFacts DEF Types, CallersOK
<1>1. \A c \in Callers : cpc[c] \in Carrying => cid[c] \in AlertIds
  BY <1>0 DEF CallerHands
<1>2. ASSUME NEW a, NEW fate, Fated(a, fate), alerts[a].fate # "fired", UNCHANGED <<cpc, cid>>
      PROVE  CallerHands'
  BY <1>1, <1>2 DEF Fated, CallerHands
<1>3. CASE Quiet
  BY <1>3 DEF Quiet, CallerHands
<1>4. CASE \E c \in Callers : Fire(c)
  <2>1. PICK c \in Callers : Fire(c)
    BY <1>4
  <2>2. /\ \A a \in AlertIds : alerts'[a] = alerts[a] /\ a # Len(alerts) + 1
        /\ alerts'[Len(alerts) + 1].fate = "fired"
    BY <2>1, FireAppends
  <2>3. cpc' = [cpc EXCEPT ![c] = "check"] /\ cid' = [cid EXCEPT ![c] = Len(alerts) + 1]
    BY <2>1 DEF Fire
  <2> QED
    BY <1>0, <1>1, <2>2, <2>3 DEF CallerHands
<1>5. CASE \E c \in Callers : Ends(c)
  <2>1. PICK c \in Callers : Ends(c)
    BY <1>5
  <2>2. PICK fate : Fated(cid[c], fate)
    BY <2>1, EndsFates
  <2>3. cpc[c] \in Carrying /\ cpc' = [cpc EXCEPT ![c] = "idle"] /\ cid' = [cid EXCEPT ![c] = 0]
    BY <2>1 DEF Ends, StartTwice, Put, Carrying
  <2>4. \A d \in Callers : cpc'[d] \in Carrying => /\ d # c /\ cpc[d] \in Carrying
                                                  /\ cid'[d] = cid[d] /\ cid[d] # cid[c]
    BY <1>0, <2>3 DEF CallerHands, Carrying
  <2>5. \A d \in Callers : cpc'[d] \in Carrying => cid'[d] # 0 /\ alerts'[cid'[d]].fate = "fired"
    BY <1>1, <2>2, <2>4 DEF CallerHands, Fated
  <2> QED
    BY <2>4, <2>5 DEF CallerHands
<1>6. CASE \E w \in Writers : Get(w)
  <2>1. PICK w \in Writers : Get(w)
    BY <1>6
  <2>2. Fated(queue[1], "taken") /\ alerts[queue[1]].fate = "queued" /\ UNCHANGED <<cpc, cid>>
    BY <2>1, GetFates DEF Get, callerVars
  <2> QED
    BY <1>2, <2>2
<1>7. CASE \E w \in Writers : Decides(w)
  <2>1. PICK w \in Writers : Decides(w)
    BY <1>7
  <2>2. PICK fate : Fated(held[w], fate) /\ alerts[held[w]].fate # "fired"
    BY <2>1, DecidesFates
  <2>3. UNCHANGED <<cpc, cid>>
    BY <2>1 DEF Decides, MatchRaises, Suppress, NoMatch, Commit, callerVars
  <2> QED
    BY <1>2, <2>2, <2>3
<1> QED
  BY <1>3, <1>4, <1>5, <1>6, <1>7, Steps

LEMMA QueueHandsStep ==
    ASSUME Types, HandsInv, [Next]_vars
    PROVE  QueueHands'
<1> USE DEF HandsInv
<1>0. /\ queue \in Seq(AlertIds) /\ Len(queue) \in Nat
      /\ \A i \in 1..Len(queue) : queue[i] \in AlertIds
  BY AlertFacts DEF Types, AlertsOK
<1>1. ASSUME NEW a, NEW fate, Fated(a, fate), alerts[a].fate # "queued", fate # "queued",
             queue' = queue
      PROVE  QueueHands'
  BY <1>0, <1>1 DEF Fated, QueueHands
<1>2. CASE Quiet
  BY <1>2 DEF Quiet, QueueHands, AlertIds
<1>3. CASE \E c \in Callers : Fire(c)
  <2>1. PICK c \in Callers : Fire(c)
    BY <1>3
  <2>2. /\ \A a \in AlertIds : alerts'[a] = alerts[a]
        /\ AlertIds' = AlertIds \cup {Len(alerts) + 1}
        /\ alerts'[Len(alerts) + 1].fate = "fired"
    BY <2>1, FireAppends
  <2>3. queue' = queue
    BY <2>1 DEF Fire
  <2> QED
    BY <1>0, <2>2, <2>3 DEF QueueHands
<1>4. CASE \E c \in Callers : Ends(c)
  <2>1. PICK c \in Callers : Ends(c)
    BY <1>4
  <2>2. cid[c] \in AlertIds /\ alerts[cid[c]].fate = "fired"
    BY <2>1, EndsFates
  <2>3. CASE queue' = queue
    <3>1. PICK fate \in {"unstarted", "full", "queued"} : Fated(cid[c], fate)
      BY <2>1, EndsFates
    <3>2. fate # "queued"
      <4>1. SUFFICES ASSUME queue' = Append(queue, cid[c]) PROVE FALSE
        BY <2>1, <2>2, <3>1, EndsFates DEF Fated
      <4> QED
        BY <1>0, <2>2, <2>3, <4>1, AppendProperties
    <3> QED
      BY <1>1, <2>2, <2>3, <3>1, <3>2
  <2>4. CASE queue' # queue
    <3>1. Fated(cid[c], "queued") /\ queue' = Append(queue, cid[c])
      BY <2>1, <2>4, EndsFates
    <3>2. /\ Len(queue') = Len(queue) + 1 /\ queue'[Len(queue) + 1] = cid[c]
          /\ \A i \in 1..Len(queue) : queue'[i] = queue[i]
      BY <1>0, <2>2, <3>1, AppendProperties
    <3>3. \A i \in 1..Len(queue) : queue[i] # cid[c]
      BY <2>2 DEF QueueHands
    <3>4. \A i \in 1..Len(queue') : alerts'[queue'[i]].fate = "queued"
      BY <1>0, <3>1, <3>2, <3>3 DEF QueueHands, Fated
    <3>5. \A i, j \in 1..Len(queue') : i # j => queue'[i] # queue'[j]
      BY <1>0, <3>2, <3>3 DEF QueueHands
    <3>6. \A a \in AlertIds' : alerts'[a].fate = "queued" =>
             \E i \in 1..Len(queue') : queue'[i] = a
      <4> TAKE a \in AlertIds'
      <4>1. CASE a = cid[c]
        BY <1>0, <3>2, <4>1
      <4>2. CASE a # cid[c]
        <5>1. HAVE alerts'[a].fate = "queued"
        <5>2. PICK i \in 1..Len(queue) : queue[i] = a
          BY <3>1, <4>2, <5>1 DEF Fated, QueueHands
        <5> QED
          BY <1>0, <3>2, <5>2
      <4> QED
        BY <4>1, <4>2
    <3> QED
      BY <3>4, <3>5, <3>6 DEF QueueHands
  <2> QED
    BY <2>3, <2>4
<1>5. CASE \E w \in Writers : Get(w)
  <2>1. PICK w \in Writers : Get(w)
    BY <1>5
  <2>2. /\ Fated(queue[1], "taken") /\ 1 \in 1..Len(queue) /\ Len(queue') = Len(queue) - 1
        /\ \A i \in 1..Len(queue') : queue'[i] = queue[i + 1]
    BY <2>1, GetFates
  <2>3. \A i \in 1..Len(queue') : i + 1 \in 1..Len(queue) /\ i + 1 # 1
    BY <1>0, <2>2
  <2>4. \A i \in 1..Len(queue') : alerts'[queue'[i]].fate = "queued"
    BY <1>0, <2>2, <2>3 DEF QueueHands, Fated
  <2>5. \A i, j \in 1..Len(queue') : i # j => queue'[i] # queue'[j]
    <3> TAKE i, j \in 1..Len(queue')
    <3>1. i # j => i + 1 # j + 1
      BY <1>0, <2>2
    <3> QED
      BY <2>2, <2>3, <3>1 DEF QueueHands
  <2>6. \A a \in AlertIds' : alerts'[a].fate = "queued" =>
           \E i \in 1..Len(queue') : queue'[i] = a
    <3> TAKE a \in AlertIds'
    <3>1. HAVE alerts'[a].fate = "queued"
    <3>2. a # queue[1] /\ a \in AlertIds /\ alerts[a].fate = "queued"
      BY <2>2, <3>1 DEF Fated
    <3>3. PICK i \in 1..Len(queue) : queue[i] = a
      BY <3>2 DEF QueueHands
    <3>4. i - 1 \in 1..Len(queue') /\ (i - 1) + 1 = i
      BY <1>0, <2>2, <3>2, <3>3
    <3> QED
      BY <2>2, <3>3, <3>4
  <2> QED
    BY <2>4, <2>5, <2>6 DEF QueueHands
<1>6. CASE \E w \in Writers : Decides(w)
  <2>1. PICK w \in Writers : Decides(w)
    BY <1>6
  <2>2. PICK fate : Fated(held[w], fate) /\ alerts[held[w]].fate # "queued" /\ fate # "queued"
    BY <2>1, DecidesFates
  <2>3. queue' = queue
    BY <2>1 DEF Decides, MatchRaises, Suppress, NoMatch, Commit
  <2> QED
    BY <1>1, <2>2, <2>3
<1> QED
  BY <1>2, <1>3, <1>4, <1>5, <1>6, Steps

LEMMA WriterHandsStep ==
    ASSUME Types, HandsInv, [Next]_vars
    PROVE  WriterHands'
<1> USE DEF HandsInv
<1>0. /\ wpc \in [Writers -> Thread] /\ held \in [Writers -> 0..Len(alerts)]
      /\ AlertIds = 1..Len(alerts) /\ Len(alerts) \in Nat
  BY AlertFacts DEF Types, WritersOK
<1>1. \A w \in Writers : wpc[w] \in Busy => held[w] \in AlertIds
  BY <1>0 DEF WriterHands
<1>2. ASSUME NEW a, NEW fate, Fated(a, fate), alerts[a].fate \notin {"taken", "unmatched"},
             UNCHANGED <<wpc, held>>
      PROVE  WriterHands'
  BY <1>1, <1>2 DEF Fated, WriterHands, Busy, Looking
<1>3. CASE Quiet
  BY <1>0, <1>3 DEF Quiet, WriterHands, Busy, Looking
<1>4. CASE \E c \in Callers : Fire(c)
  <2>1. PICK c \in Callers : Fire(c)
    BY <1>4
  <2>2. \A a \in AlertIds : alerts'[a] = alerts[a]
    BY <2>1, FireAppends
  <2>3. UNCHANGED <<wpc, held>>
    BY <2>1 DEF Fire, writerVars
  <2> QED
    BY <1>1, <2>2, <2>3 DEF WriterHands, Busy, Looking
<1>5. CASE \E c \in Callers : Ends(c)
  <2>1. PICK c \in Callers : Ends(c)
    BY <1>5
  <2>2. PICK fate : Fated(cid[c], fate) /\ alerts[cid[c]].fate = "fired"
    BY <2>1, EndsFates
  <2>3. UNCHANGED <<wpc, held>>
    BY <2>1 DEF Ends, StartTwice, Put, writerVars
  <2> QED
    BY <1>2, <2>2, <2>3
<1>6. CASE \E w \in Writers : Get(w)
  <2>1. PICK w \in Writers : Get(w)
    BY <1>6
  <2>2. /\ Fated(queue[1], "taken") /\ alerts[queue[1]].fate = "queued" /\ queue[1] \in AlertIds
        /\ queue[1] # 0 /\ Head(queue) = queue[1]
    <3>1. Fated(queue[1], "taken") /\ alerts[queue[1]].fate = "queued" /\ Head(queue) = queue[1]
      BY <2>1, GetFates
    <3>2. queue[1] \in AlertIds
      BY <3>1 DEF Fated
    <3> QED
      BY <1>0, <3>1, <3>2
  <2>3. wpc' = [wpc EXCEPT ![w] = "refresh"] /\ held' = [held EXCEPT ![w] = queue[1]] /\ wpc[w] = "get"
    BY <2>1, <2>2 DEF Get, Goto
  <2>4. \A v \in Writers : held[v] # 0 => held[v] # queue[1]
    BY <2>2 DEF WriterHands, Busy, Looking
  <2>5. \A v \in Writers : v # w => wpc'[v] = wpc[v] /\ held'[v] = held[v]
    BY <1>0, <2>3
  <2>6. wpc'[w] = "refresh" /\ held'[w] = queue[1]
    BY <1>0, <2>3
  <2>7. \A v \in Writers : v # w /\ held[v] # 0 => alerts'[held[v]] = alerts[held[v]]
    BY <1>1, <2>2, <2>4 DEF Fated, WriterHands
  <2> QED
    BY <2>2, <2>4, <2>5, <2>6, <2>7 DEF WriterHands, Fated, Busy, Looking
<1>7. CASE \E w \in Writers : Decides(w)
  <2>1. PICK w \in Writers : Decides(w)
    BY <1>7
  <2>2. PICK fate : Fated(held[w], fate) /\ (wpc'[w] = "commit" => fate = "unmatched")
    BY <1>0, <2>1, DecidesFates
  <2>3. /\ held[w] # 0
        /\ \/ wpc' = [wpc EXCEPT ![w] = "commit"] /\ held' = held
           \/ wpc' = [wpc EXCEPT ![w] = "top"] /\ held' = [held EXCEPT ![w] = 0]
    BY <1>0, <2>1, DecidesFates
  <2>4. \A v \in Writers : v # w => wpc'[v] = wpc[v] /\ held'[v] = held[v]
    BY <1>0, <2>3
  <2>5. \/ wpc'[w] = "commit" /\ held'[w] = held[w]
        \/ wpc'[w] = "top" /\ held'[w] = 0
    <3>1. CASE wpc' = [wpc EXCEPT ![w] = "commit"] /\ held' = held
      BY <1>0, <3>1
    <3>2. CASE wpc' = [wpc EXCEPT ![w] = "top"] /\ held' = [held EXCEPT ![w] = 0]
      BY <1>0, <3>2
    <3> QED
      BY <2>3, <3>1, <3>2
  <2>6. \A v \in Writers : v # w /\ held[v] # 0 => alerts'[held[v]] = alerts[held[v]]
    BY <1>1, <2>2, <2>3 DEF Fated, WriterHands
  <2> QED
    BY <2>2, <2>3, <2>4, <2>5, <2>6 DEF WriterHands, Fated, Busy, Looking
<1> QED
  BY <1>3, <1>4, <1>5, <1>6, <1>7, Steps

LEMMA HandsStep == Types /\ HandsInv /\ [Next]_vars => HandsInv'
BY CallerHandsStep, QueueHandsStep, WriterHandsStep DEF HandsInv

-----------------------------------------------------------------------------
(* Type correctness.                                                       *)

LEMMA WorldStep == ASSUME Types, [Next]_vars PROVE WorldOK' /\ now <= now' /\ now \in Nat
<1>0. /\ now \in StartTime..MaxTime /\ now \in Nat
      /\ stop \in BOOLEAN /\ rogue \in BOOLEAN /\ warned \in BOOLEAN
      /\ rules \in [Rules -> [created : 0..now, expires : Nat]]
      /\ phase \in {"running", "flushing", "draining", "joining", "waiting", "leaving", "exited"}
      /\ drainStart \in 0..now
  BY Parameters DEF Types, WorldOK
<1>1. CASE Tick
  <2>1. /\ now' = now + 1 /\ now' \in StartTime..MaxTime
        /\ UNCHANGED <<rules, stop, rogue, warned, phase, drainStart>>
    BY <1>0, <1>1, Parameters DEF Tick, mainVars, stopVars
  <2>2. 0..now \subseteq 0..now'
    BY <1>0, <2>1
  <2>3. rules' \in [Rules -> [created : 0..now', expires : Nat]]
    BY <1>0, <2>1, <2>2
  <2> QED
    BY <1>0, <2>1, <2>2, <2>3 DEF WorldOK
<1>2. CASE \E r \in Rules : CreateRule(r)
  <2>1. PICK r \in Rules, life \in Lifetimes :
           rules' = [rules EXCEPT ![r] = [created |-> now, expires |-> now + life]]
    BY <1>2 DEF CreateRule
  <2>2. [created |-> now, expires |-> now + life] \in [created : 0..now, expires : Nat]
    BY <1>0, Parameters
  <2>3. UNCHANGED <<now, stop, rogue, warned, phase, drainStart>>
    BY <1>2 DEF CreateRule, mainVars, stopVars
  <2> QED
    BY <1>0, <2>1, <2>2, <2>3 DEF WorldOK
<1>3. CASE \E r \in Rules : DeleteRule(r)
  <2>1. PICK r \in Rules : rules' = [rules EXCEPT ![r].expires = now]
    BY <1>3 DEF DeleteRule
  <2>2. [rules[r] EXCEPT !.expires = now] \in [created : 0..now, expires : Nat]
    BY <1>0
  <2>3. UNCHANGED <<now, stop, rogue, warned, phase, drainStart>>
    BY <1>3 DEF DeleteRule, mainVars, stopVars
  <2>4. rules' = [rules EXCEPT ![r] = [rules[r] EXCEPT !.expires = now]]
    BY <2>1
  <2> QED
    BY <1>0, <2>2, <2>3, <2>4 DEF WorldOK
<1>4. CASE BeginShutdown \/ Drain \/ TestWriter \/ Join \/ Leave \/ Exit
  <2>1. /\ UNCHANGED <<now, rules, rogue>> /\ drainStart' \in {now, drainStart}
        /\ phase' \in {"flushing", "draining", "joining", "waiting", "leaving", "exited"}
    BY <1>4 DEF BeginShutdown, Drain, TestWriter, Join, Leave, Exit, stopVars
  <2>2. stop' = TRUE \/ stop' = stop
    BY <1>4 DEF BeginShutdown, Drain, TestWriter, Join, Leave, Exit, stopVars
  <2>3. stop' \in BOOLEAN
    BY <1>0, <2>2
  <2>4. warned' \in BOOLEAN
    BY <1>0, <1>4, Zenon DEF BeginShutdown, Drain, TestWriter, Join, Leave, Exit
  <2> QED
    BY <1>0, <2>1, <2>3, <2>4 DEF WorldOK
<1>5. CASE UNCHANGED <<now, rules, phase, drainStart, warned>> /\ (stop' = stop \/ stop' = FALSE) /\ rogue' \in BOOLEAN
  <2>1. stop' \in BOOLEAN /\ warned' \in BOOLEAN
    BY <1>0, <1>5
  <2> QED
    BY <1>0, <1>5, <2>1 DEF WorldOK
<1>6. ASSUME NEW c \in Callers, Detect(c) \/ CallerStep(c)
      PROVE  /\ UNCHANGED <<now, rules, phase, drainStart, warned>>
             /\ stop' = stop \/ stop' = FALSE
             /\ rogue' \in BOOLEAN
  <2>1. CASE CreateWriter(c)
    <3>1. rogue' \in BOOLEAN
      BY <2>1, Zenon DEF CreateWriter
    <3> QED
      BY <2>1, <3>1 DEF CreateWriter, mainVars
  <2>2. CASE Detect(c) \/ Duplicate(c) \/ Fire(c) \/ CheckWriter(c) \/ StartWriter(c) \/ StartTwice(c) \/ Put(c)
    <3>1. UNCHANGED <<now, rules, phase, drainStart, warned, stop, rogue>>
      BY <2>2 DEF Detect, Duplicate, Fire, CheckWriter, StartWriter, StartTwice, Put, mainVars, stopVars
    <3> QED
      BY <1>0, <3>1
  <2> QED
    BY <1>6, <2>1, <2>2 DEF CallerStep
<1>7. ASSUME NEW w \in Writers, WriterStep(w)
      PROVE  UNCHANGED <<now, rules, phase, drainStart, warned, stop, rogue>>
  BY <1>7 DEF WriterStep, Top, GetEmpty, Get, CacheStillGood, Query, Refresh, RefreshFails, Stamp, MatchRaises,
              Suppress, NoMatch, Commit, mainVars, stopVars
<1>8. CASE \E w \in Writers : WriterStep(w)
  BY <1>0, <1>5, <1>7, <1>8
<1>9. CASE \E c \in Callers : Detect(c) \/ CallerStep(c)
  BY <1>5, <1>6, <1>9
<1>10. CASE UNCHANGED vars
  BY <1>0, <1>5, <1>10 DEF vars, mainVars, stopVars
<1> QED
  BY <1>1, <1>2, <1>3, <1>4, <1>8, <1>9, <1>10 DEF Next

LEMMA AlertsStep ==
    ASSUME Types, HandsInv, [Next]_vars
    PROVE  /\ AlertsOK' /\ Len(alerts) <= Len(alerts') /\ AlertIds \subseteq AlertIds'
           /\ Len(alerts) \in Nat /\ Len(alerts') \in Nat
<1> USE DEF HandsInv
<1>0. /\ alerts \in Seq(Alert) /\ Len(alerts) \in Nat /\ AlertIds = 1..Len(alerts)
      /\ queue \in Seq(AlertIds) /\ Len(queue) \in Nat /\ Len(queue) <= QueueMax
      /\ \A a \in AlertIds : alerts[a].time <= now /\ alerts[a].taken <= now
      /\ \A a \in AlertIds : alerts[a].time \in Nat /\ alerts[a].taken \in Nat
  <2>1. \A a \in AlertIds : alerts[a].time \in 0..MaxTime /\ alerts[a].taken \in 0..MaxTime
    BY AlertFacts DEF Types, Alert
  <2> QED
    BY <2>1, AlertFacts, Parameters DEF Types, AlertsOK
<1>1. now <= now' /\ now \in Nat /\ now' \in Nat
  BY WorldStep, Parameters DEF WorldOK
<1>2. CASE Quiet
  BY <1>0, <1>1, <1>2 DEF Quiet, AlertsOK, AlertIds
<1>3. CASE \E c \in Callers : Fire(c)
  <2>1. PICK c \in Callers : Fire(c)
    BY <1>3
  <2>2. /\ alerts' \in Seq(Alert) /\ Len(alerts') = Len(alerts) + 1
        /\ AlertIds' = AlertIds \cup {Len(alerts) + 1}
        /\ \A a \in AlertIds : alerts'[a] = alerts[a]
        /\ alerts'[Len(alerts) + 1] = NewAlert(c)
    BY <2>1, FireAppends
  <2>3. NewAlert(c).time <= now /\ NewAlert(c).time \in Nat /\ NewAlert(c).taken = 0
    BY <1>1 DEF NewAlert, Types, CallersOK
  <2>4. queue' = queue
    BY <2>1 DEF Fire
  <2>5. queue \in Seq(AlertIds')
    BY <1>0, <2>2, SeqMonotonic
  <2>6. \A a \in AlertIds' : alerts'[a].time <= now' /\ alerts'[a].taken <= now'
    <3>1. ASSUME NEW a \in AlertIds PROVE alerts'[a].time <= now' /\ alerts'[a].taken <= now'
      BY <1>0, <1>1, <2>2
    <3>2. NewAlert(c).time <= now' /\ NewAlert(c).taken <= now'
      BY <1>1, <2>3
    <3> QED
      BY <2>2, <3>1, <3>2
  <2> QED
    BY <1>0, <2>2, <2>4, <2>5, <2>6 DEF AlertsOK
<1>4. CASE \E c \in Callers : Ends(c)
  <2>1. PICK c \in Callers : Ends(c)
    BY <1>4
  <2>2. PICK fate : Fated(cid[c], fate)
    BY <2>1, EndsFates
  <2>3. alerts' \in Seq(Alert) /\ \A b \in AlertIds : alerts'[b].taken = alerts[b].taken
    BY <2>1, EndsFates
  <2>4. /\ AlertIds' = AlertIds /\ Len(alerts') = Len(alerts)
        /\ \A a \in AlertIds' : alerts'[a].time <= now' /\ alerts'[a].taken <= now'
    BY <1>0, <1>1, <2>2, <2>3 DEF Fated
  <2>5. \/ queue' = queue
        \/ queue' = Append(queue, cid[c]) /\ Len(queue) < QueueMax
    BY <2>1, EndsFates
  <2>6. cid[c] \in AlertIds
    BY <2>1, EndsFates
  <2>7. queue' \in Seq(AlertIds) /\ Len(queue') <= QueueMax
    <3>1. /\ Append(queue, cid[c]) \in Seq(AlertIds)
          /\ Len(Append(queue, cid[c])) = Len(queue) + 1
      BY <1>0, <2>6, AppendProperties
    <3>2. CASE queue' = queue
      BY <1>0, <3>2
    <3>3. CASE queue' = Append(queue, cid[c]) /\ Len(queue) < QueueMax
      <4>1. Len(queue) + 1 <= QueueMax
        BY <1>0, <3>3, Parameters
      <4> QED
        BY <3>1, <3>3, <4>1
    <3> QED
      BY <2>5, <3>2, <3>3
  <2> QED
    BY <1>0, <2>3, <2>4, <2>7 DEF AlertsOK
<1>5. CASE \E w \in Writers : Get(w)
  <2>1. PICK w \in Writers : Get(w)
    BY <1>5
  <2>2. /\ alerts' \in Seq(Alert) /\ Fated(queue[1], "taken") /\ alerts'[queue[1]].taken = now
        /\ queue' \in Seq(AlertIds) /\ Len(queue') = Len(queue) - 1
    BY <2>1, GetFates
  <2>3. /\ AlertIds' = AlertIds /\ Len(alerts') = Len(alerts)
        /\ \A a \in AlertIds : a # queue[1] => alerts'[a] = alerts[a]
        /\ \A a \in AlertIds : alerts'[a].time = alerts[a].time
    BY <1>0, <2>2 DEF Fated
  <2>4. Len(queue') <= QueueMax
    BY <1>0, <2>2, Parameters
  <2>5. ASSUME NEW a \in AlertIds
        PROVE  alerts'[a].time <= now' /\ alerts'[a].taken <= now'
    <3>1. alerts'[a].time <= now'
      BY <1>0, <1>1, <2>3
    <3>2. CASE a = queue[1]
      BY <1>1, <2>2, <3>1, <3>2
    <3>3. CASE a # queue[1]
      BY <1>0, <1>1, <2>3, <3>1, <3>3
    <3> QED
      BY <3>2, <3>3
  <2>6. queue' \in Seq(AlertIds')
    BY <2>2, <2>3
  <2> QED
    BY <1>0, <2>2, <2>3, <2>4, <2>5, <2>6 DEF AlertsOK
<1>6. CASE \E w \in Writers : Decides(w)
  <2>1. PICK w \in Writers : Decides(w)
    BY <1>6
  <2>2. PICK fate : Fated(held[w], fate)
    BY <2>1, DecidesFates
  <2>3. alerts' \in Seq(Alert) /\ \A b \in AlertIds : alerts'[b].taken = alerts[b].taken
    BY <2>1, DecidesFates
  <2>4. /\ AlertIds' = AlertIds /\ Len(alerts') = Len(alerts)
        /\ \A a \in AlertIds' : alerts'[a].time <= now' /\ alerts'[a].taken <= now'
    BY <1>0, <1>1, <2>2, <2>3 DEF Fated
  <2>5. queue' = queue
    BY <2>1 DEF Decides, MatchRaises, Suppress, NoMatch, Commit
  <2> QED
    BY <1>0, <2>3, <2>4, <2>5 DEF AlertsOK
<1> QED
  BY <1>2, <1>3, <1>4, <1>5, <1>6, Steps

(* What is left of the deduplication cache after a cleanup. *)
LEMMA CleanupKeeps ==
    ASSUME now \in Nat, NEW fired \in [Keys -> 0..now], NEW t
    PROVE  /\ AfterCleanup(fired, t) \in [Keys -> 0..now]
           /\ \A k \in Keys : \/ AfterCleanup(fired, t)[k] = fired[k]
                            \/ /\ AfterCleanup(fired, t)[k] = 0
                               /\ t - lastCleanup > CleanupEvery /\ fired[k] < t - DedupWindow
<1> DEFINE cleaned == [k \in Keys |-> IF fired[k] < t - DedupWindow THEN 0 ELSE fired[k]]
<1>1. /\ cleaned \in [Keys -> 0..now]
      /\ \A k \in Keys : \/ cleaned[k] = fired[k]
                       \/ /\ cleaned[k] = 0
                          /\ fired[k] < t - DedupWindow
  OBVIOUS
<1>2. AfterCleanup(fired, t) = IF t - lastCleanup > CleanupEvery THEN cleaned ELSE fired
  BY DEF AfterCleanup
<1> HIDE DEF cleaned
<1> QED
  BY <1>1, <1>2

LEMMA CallersStep == ASSUME Types, HandsInv, [Next]_vars PROVE CallersOK'
<1>0. /\ now <= now' /\ now \in Nat /\ now' \in Nat
      /\ Len(alerts) <= Len(alerts') /\ Len(alerts) \in Nat /\ Len(alerts') \in Nat
  BY WorldStep, AlertsStep, Parameters DEF WorldOK
<1>1. /\ flows \in 0..MaxFlows /\ MaxFlows \in Nat
      /\ lastFired \in [Keys -> 0..now] /\ lastCleanup \in 0..now
      /\ cpc \in [Callers -> {"idle", "locking", "check", "create", "start", "put"}]
      /\ ckey \in [Callers -> Keys] /\ ctime \in [Callers -> 0..now]
      /\ cid \in [Callers -> 0..Len(alerts)]
  BY Parameters DEF Types, CallersOK
<1>2. CASE UNCHANGED <<flows, lastFired, lastCleanup, cpc, ckey, ctime, cid>>
  <2>1. 0..now \subseteq 0..now' /\ 0..Len(alerts) \subseteq 0..Len(alerts')
    BY <1>0
  <2> QED
    BY <1>1, <1>2, <2>1 DEF CallersOK
<1>3. ASSUME NEW c \in Callers, Detect(c)
      PROVE  CallersOK'
  <2>1. PICK k \in Keys : ckey' = [ckey EXCEPT ![c] = k]
    BY <1>3 DEF Detect
  <2>2. /\ flows' = flows + 1 /\ flows < MaxFlows /\ now' = now /\ alerts' = alerts
        /\ ctime' = [ctime EXCEPT ![c] = now] /\ cpc' = [cpc EXCEPT ![c] = "locking"]
        /\ UNCHANGED <<lastFired, lastCleanup, cid>>
    BY <1>3 DEF Detect
  <2>3. flows' \in 0..MaxFlows /\ now \in 0..now
    BY <1>0, <1>1, <2>2
  <2> QED
    BY <1>1, <2>1, <2>2, <2>3 DEF CallersOK
<1>4. ASSUME NEW c \in Callers, Fire(c)
      PROVE  CallersOK'
  <2>1. /\ lastFired' = AfterCleanup([lastFired EXCEPT ![ckey[c]] = ctime[c]], ctime[c])
        /\ lastCleanup' \in {ctime[c], lastCleanup}
        /\ cid' = [cid EXCEPT ![c] = Len(alerts) + 1] /\ cpc' = [cpc EXCEPT ![c] = "check"]
        /\ UNCHANGED <<now, flows, ckey, ctime>>
    BY <1>4 DEF Fire
  <2>2. [lastFired EXCEPT ![ckey[c]] = ctime[c]] \in [Keys -> 0..now]
    BY <1>1
  <2>3. lastFired' \in [Keys -> 0..now]
    BY <1>0, <2>1, <2>2, CleanupKeeps
  <2>4. Len(alerts') = Len(alerts) + 1
    BY <1>4, FireAppends
  <2>5. cid' \in [Callers -> 0..Len(alerts')]
    BY <1>0, <1>1, <2>1, <2>4
  <2> QED
    <3>1. lastCleanup' \in 0..now /\ cpc' \in [Callers -> {"idle", "locking", "check", "create", "start", "put"}]
      BY <1>1, <2>1
    <3> QED
      BY <1>1, <2>1, <2>3, <2>5, <3>1 DEF CallersOK
<1>5. ASSUME NEW c \in Callers,
             Duplicate(c) \/ CheckWriter(c) \/ CreateWriter(c) \/ StartWriter(c)
      PROVE  CallersOK'
  <2>1. /\ cpc' \in [Callers -> {"idle", "locking", "check", "create", "start", "put"}]
        /\ UNCHANGED <<now, alerts, flows, lastFired, lastCleanup, ckey, ctime, cid>>
    BY <1>1, <1>5 DEF Duplicate, CheckWriter, CreateWriter, StartWriter, dedupVars
  <2> QED
    BY <1>1, <2>1 DEF CallersOK
<1>6. ASSUME NEW c \in Callers, Ends(c)
      PROVE  CallersOK'
  <2>1. /\ cpc' = [cpc EXCEPT ![c] = "idle"] /\ cid' = [cid EXCEPT ![c] = 0]
        /\ UNCHANGED <<now, flows, lastFired, lastCleanup, ckey, ctime>>
    BY <1>6 DEF Ends, StartTwice, Put, dedupVars
  <2>2. 0..Len(alerts) \subseteq 0..Len(alerts') /\ 0 \in 0..Len(alerts')
    BY <1>0
  <2> QED
    BY <1>1, <2>1, <2>2 DEF CallersOK
<1>7. ASSUME NEW w \in Writers, WriterStep(w)
      PROVE  UNCHANGED <<flows, lastFired, lastCleanup, cpc, ckey, ctime, cid>>
  BY <1>7 DEF WriterStep, Top, GetEmpty, Get, CacheStillGood, Query, Refresh, RefreshFails, Stamp, MatchRaises,
              Suppress, NoMatch, Commit, dedupVars, callerVars
<1>8. CASE World
  BY <1>2, <1>8 DEF World, BeginShutdown, Drain, TestWriter, Join, Leave, Exit, Tick, CreateRule, DeleteRule, dedupVars,
                    callerVars
<1> QED
  BY <1>2, <1>3, <1>4, <1>5, <1>6, <1>7, <1>8
  DEF Next, CallerStep, World, Ends, vars, dedupVars, callerVars

LEMMA WritersStep == ASSUME Types, HandsInv, [Next]_vars PROVE WritersOK'
<1>0. /\ now <= now' /\ now \in Nat /\ now' \in Nat
      /\ Len(alerts) <= Len(alerts') /\ Len(alerts) \in Nat /\ Len(alerts') \in Nat
      /\ 0..now \subseteq 0..now'
      /\ [Writers -> [rows : SUBSET Rules, at : 0..now]] \subseteq [Writers -> [rows : SUBSET Rules, at : 0..now']]
      /\ 0..Len(alerts) \subseteq 0..Len(alerts')
  <2>1. /\ now <= now' /\ now \in Nat /\ now' \in Nat
        /\ Len(alerts) <= Len(alerts') /\ Len(alerts) \in Nat /\ Len(alerts') \in Nat
    BY WorldStep, AlertsStep, Parameters DEF WorldOK
  <2>2. 0..now \subseteq 0..now' /\ 0..Len(alerts) \subseteq 0..Len(alerts')
    BY <2>1
  <2>3. [rows : SUBSET Rules, at : 0..now] \subseteq [rows : SUBSET Rules, at : 0..now']
    BY <2>2
  <2> QED
    BY <2>1, <2>2, <2>3
<1>1. /\ writer \in {0} \cup Writers /\ wpc \in [Writers -> Thread]
      /\ held \in [Writers -> 0..Len(alerts)]
      /\ cache \subseteq Rules /\ cacheTs \in 0..now /\ cacheSession \in {0} \cup Writers
      /\ cacheLoaded \in BOOLEAN /\ cacheRead \in 0..now
      /\ fetched \in [Writers -> [rows : SUBSET Rules, at : 0..now]]
  BY DEF Types, WritersOK
<1>2. CASE UNCHANGED <<writer, wpc, held, cache, cacheTs, cacheSession, cacheLoaded, fetched, cacheRead>>
  BY <1>0, <1>1, <1>2 DEF WritersOK
<1>3. ASSUME NEW c \in Callers, Detect(c) \/ Duplicate(c) \/ Fire(c) \/ CheckWriter(c) \/ Ends(c)
      PROVE  UNCHANGED <<writer, wpc, held, cache, cacheTs, cacheSession, cacheLoaded, fetched, cacheRead>>
  BY <1>3 DEF Detect, Duplicate, Fire, CheckWriter, Ends, StartTwice, Put, writerVars, cacheVars
<1>4. ASSUME NEW c \in Callers, CreateWriter(c) \/ StartWriter(c)
      PROVE  WritersOK'
  <2>1. /\ writer' \in {0} \cup Writers /\ wpc' \in [Writers -> Thread]
        /\ UNCHANGED <<held, cache, cacheTs, cacheSession, cacheLoaded, fetched, cacheRead>>
    BY <1>1, <1>4 DEF CreateWriter, StartWriter, cacheVars, Thread
  <2> QED
    BY <1>0, <1>1, <2>1 DEF WritersOK
<1>5. ASSUME NEW w \in Writers,
             Top(w) \/ GetEmpty(w) \/ CacheStillGood(w) \/ Query(w) \/ Refresh(w) \/ RefreshFails(w) \/ Stamp(w)
      PROVE  WritersOK'
  <2>1. /\ wpc' \in [Writers -> Thread] /\ UNCHANGED <<writer, held>>
        /\ cacheTs' \in {cacheTs, now} /\ cacheSession' \in {cacheSession, w}
    BY <1>1, <1>5
    DEF Top, GetEmpty, CacheStillGood, Query, Refresh, RefreshFails, Stamp, Goto, Thread, cacheVars
  <2>2. cacheLoaded' \in {cacheLoaded, TRUE}
    BY <1>5 DEF Top, GetEmpty, CacheStillGood, Query, Refresh, RefreshFails, Stamp, cacheVars
  <2>3. cacheTs' \in 0..now' /\ cacheLoaded' \in BOOLEAN
    <3>1. cacheTs' \in 0..now'
      BY <1>0, <1>1, <2>1
    <3> QED
      BY <1>1, <2>2, <3>1
  <2>4. fetched[w].rows \subseteq Rules /\ fetched[w].at \in 0..now
    BY <1>1
  <2>5. cache' \subseteq Rules /\ cacheRead' \in 0..now
    BY <1>1, <1>5, <2>4
    DEF Top, GetEmpty, CacheStillGood, Query, Refresh, RefreshFails, Stamp, cacheVars
  <2>6. /\ NoRows \in [rows : SUBSET Rules, at : 0..now]
        /\ [rows |-> {r \in Rules : Active(r)}, at |-> now] \in [rows : SUBSET Rules, at : 0..now]
    BY <1>0 DEF NoRows
  <2>7. fetched' \in [Writers -> [rows : SUBSET Rules, at : 0..now]]
    BY <1>1, <1>5, <2>6
    DEF Top, GetEmpty, CacheStillGood, Query, Refresh, RefreshFails, Stamp, cacheVars
  <2> QED
    BY <1>0, <1>1, <2>1, <2>3, <2>5, <2>7 DEF WritersOK
<1>6. ASSUME NEW w \in Writers, Get(w)
      PROVE  WritersOK'
  <2>1. queue[1] \in AlertIds /\ Head(queue) = queue[1]
    BY <1>6, GetFates DEF HandsInv, Fated
  <2>2. queue[1] \in 0..Len(alerts)
    BY <2>1, AlertFacts DEF Types
  <2>3. /\ held' = [held EXCEPT ![w] = queue[1]] /\ wpc' = [wpc EXCEPT ![w] = "refresh"]
        /\ UNCHANGED <<writer, cache, cacheTs, cacheSession, cacheLoaded, fetched, cacheRead>>
    BY <1>6, <2>1 DEF Get, Goto, cacheVars
  <2>4. wpc' \in [Writers -> Thread] /\ held' \in [Writers -> 0..Len(alerts)]
    BY <1>1, <2>2, <2>3 DEF Thread
  <2> QED
    BY <1>0, <1>1, <2>3, <2>4 DEF WritersOK
<1>7. ASSUME NEW w \in Writers, Decides(w)
      PROVE  WritersOK'
  <2>1. held' = [held EXCEPT ![w] = 0] \/ held' = held
    BY <1>7 DEF Decides, MatchRaises, Suppress, NoMatch, Commit, Done
  <2>2. held' \in [Writers -> 0..Len(alerts)]
    <3>1. 0 \in 0..Len(alerts)
      BY <1>0
    <3> QED
      BY <1>1, <2>1, <3>1
  <2>3. /\ wpc' \in [Writers -> Thread] /\ cacheSession' \in {0} \cup Writers
        /\ UNCHANGED <<writer, cache, cacheTs, fetched, cacheRead>>
    BY <1>1, <1>7
    DEF Decides, MatchRaises, Suppress, NoMatch, Commit, Done, Goto, CloseSession, Thread, cacheVars
  <2>4. cacheLoaded' \in BOOLEAN
    BY <1>1, <1>7 DEF Decides, MatchRaises, Suppress, NoMatch, Commit, cacheVars
  <2> QED
    BY <1>0, <1>1, <2>2, <2>3, <2>4 DEF WritersOK
<1>8. CASE World
  BY <1>2, <1>8 DEF World, BeginShutdown, Drain, TestWriter, Join, Leave, Exit, Tick, CreateRule, DeleteRule, writerVars,
                    cacheVars
<1> QED
  BY <1>2, <1>3, <1>4, <1>5, <1>6, <1>7, <1>8
  DEF Next, CallerStep, WriterStep, World, Ends, Decides, vars, writerVars, cacheVars

LEMMA MainStep == ASSUME Types, [Next]_vars PROVE MainOK'
<1>0. /\ joined \in {0} \cup Writers /\ writer \in {0} \cup Writers
      /\ phase \in {"joining", "waiting"} => writer \in Writers
      /\ phase = "waiting" => joined \in Writers
  BY DEF Types, MainOK, WritersOK
<1>1. CASE TestWriter
  <2>1. UNCHANGED <<joined, writer>> /\ phase' \in {"leaving", "joining"}
        /\ (phase' = "joining" => writer \in Writers)
    BY <1>1 DEF TestWriter, WriterGone, writerVars
  <2> QED
    BY <1>0, <2>1 DEF MainOK
<1>2. CASE Join
  <2>1. writer' = writer /\ writer \in Writers
    BY <1>0, <1>2 DEF Join, writerVars
  <2>2. \/ phase' = "leaving" /\ joined' = joined
        \/ phase' = "waiting" /\ joined' = writer
    BY <1>2 DEF Join
  <2> QED
    BY <1>0, <2>1, <2>2 DEF MainOK
<1>3. CASE BeginShutdown \/ Drain \/ Leave \/ Exit
  <2>1. joined' = joined /\ phase' \in {"flushing", "draining", "leaving", "exited"}
    BY <1>3 DEF BeginShutdown, Drain, Leave, Exit, mainVars
  <2> QED
    BY <1>0, <2>1 DEF MainOK
<1>4. CASE UNCHANGED <<joined, phase>> /\ (writer' = writer \/ writer' \in Writers)
  BY <1>0, <1>4 DEF MainOK
<1>5. ASSUME NEW c \in Callers, Detect(c) \/ CallerStep(c)
      PROVE  UNCHANGED <<joined, phase>> /\ (writer' = writer \/ writer' \in Writers)
  BY <1>5 DEF Detect, CallerStep, Duplicate, Fire, CheckWriter, CreateWriter, StartWriter, StartTwice, Put,
              mainVars, writerVars
<1>6. ASSUME NEW w \in Writers, WriterStep(w)
      PROVE  UNCHANGED <<joined, phase, writer>>
  BY <1>6 DEF WriterStep, Top, GetEmpty, Get, CacheStillGood, Query, Refresh, RefreshFails, Stamp, MatchRaises,
              Suppress, NoMatch, Commit, mainVars
<1>7. ASSUME Tick \/ (\E r \in Rules : CreateRule(r) \/ DeleteRule(r)) \/ UNCHANGED vars
      PROVE  UNCHANGED <<joined, phase, writer>>
  BY <1>7 DEF Tick, CreateRule, DeleteRule, mainVars, writerVars, vars
<1> QED
  BY <1>1, <1>2, <1>3, <1>4, <1>5, <1>6, <1>7 DEF Next

LEMMA TypesInit == Init => Types /\ HandsInv
<1> SUFFICES ASSUME Init PROVE Types /\ HandsInv
  OBVIOUS
<1>1. <<>> \in Seq(Alert) /\ Len(<<>>) = 0
  BY EmptySeq
<1>2. <<>> \in Seq(AlertIds)
  BY EmptySeq
<1>3. DOMAIN alerts = {} /\ Len(alerts) = 0 /\ Len(queue) = 0
  <2>1. DOMAIN alerts = 1..0
    BY <1>1, LenProperties DEF Init
  <2> QED
    BY <1>1, <2>1 DEF Init
<1>4. WorldOK
  <2>1. now \in StartTime..MaxTime /\ 0 \in 0..now
    BY Parameters DEF Init
  <2>2. stop \in BOOLEAN /\ rogue \in BOOLEAN /\ warned \in BOOLEAN
    BY Zenon DEF Init
  <2> QED
    BY <2>1, <2>2 DEF Init, WorldOK
<1>5. CallersOK
  <2>1. (CHOOSE k \in Keys : TRUE) \in Keys
    BY Parameters
  <2>2. ckey \in [Callers -> Keys]
    BY <2>1 DEF Init
  <2>3. 0 \in 0..now /\ 0 \in 0..MaxFlows /\ 0 \in 0..Len(alerts)
    BY <1>3, Parameters DEF Init
  <2> QED
    BY <2>2, <2>3 DEF Init, CallersOK
<1>6. AlertsOK
  BY <1>1, <1>2, <1>3, Parameters DEF Init, AlertsOK, AlertIds
<1>7. WritersOK
  <2>1. 0 \in 0..now /\ 0 \in 0..Len(alerts)
    BY <1>3, Parameters DEF Init
  <2>2. cacheLoaded \in BOOLEAN
    BY Zenon DEF Init
  <2>3. fetched \in [Writers -> [rows : SUBSET Rules, at : 0..now]]
    BY <2>1 DEF Init, NoRows
  <2> QED
    BY <2>1, <2>2, <2>3 DEF Init, WritersOK, Thread
<1>9. MainOK
  BY DEF Init, MainOK
<1>8. CallerHands /\ QueueHands /\ WriterHands
  BY <1>3 DEF Init, CallerHands, QueueHands, WriterHands, Carrying, Busy, Looking, AlertIds
<1> QED
  BY <1>4, <1>5, <1>6, <1>7, <1>8, <1>9 DEF Types, HandsInv

TypeInv == Types /\ HandsInv

LEMMA TypeStep == TypeInv /\ [Next]_vars => TypeInv'
BY WorldStep, AlertsStep, CallersStep, WritersStep, MainStep, HandsStep DEF TypeInv, Types

LEMMA TypeInvariant == Spec => []TypeInv
<1>1. Init => TypeInv
  BY TypesInit DEF TypeInv
<1> QED
  BY <1>1, TypeStep, PTL DEF Spec

LEMMA HandsFollow == TypeInv => HandsOK
<1> SUFFICES ASSUME TypeInv PROVE HandsOK
  OBVIOUS
<1> USE DEF TypeInv, HandsInv
<1>1. AlertsOK /\ WritersOK
  BY DEF Types
<1>2. DOMAIN queue = 1..Len(queue) /\ \A i \in 1..Len(queue) : queue[i] \in AlertIds
  BY <1>1, AlertFacts
<1>3. Range(queue) = {a \in AlertIds : alerts[a].fate = "queued"}
  BY <1>2 DEF QueueHands, Range
<1>4. \A w \in Writers : held[w] # 0 => alerts[held[w]].fate \in {"taken", "unmatched"}
  BY DEF WriterHands, Busy, Looking
<1> QED
  BY <1>3, <1>4 DEF HandsOK

(* Module variables, queue, threads and cache keep their types; the queue holds *)
(* exactly the alerts that are queued, and what a writer has in its hand is one *)
(* it has taken from the queue, with any number of callers and writers.         *)
THEOREM PipelineTypes == Spec => []TypeOK
<1>1. TypeInv => TypeOK
  BY HandsFollow DEF TypeInv, Types, TypeOK
<1> QED
  BY <1>1, TypeInvariant, PTL

-----------------------------------------------------------------------------
(* Deduplication: what is dropped as a repeat is one.                      *)

(* The strengthening: an entry of the cache is the time of an alert of its key, *)
(* and a clock that a caller has read is not from before the start.             *)
FiredInv ==
    /\ \A k \in Keys : lastFired[k] # 0 =>
          \E a \in AlertIds : alerts[a].key = k /\ alerts[a].time = lastFired[k]
    /\ \A c \in Callers : cpc[c] = "locking" => ctime[c] >= StartTime

(* Alerts keep their keys and times. *)
LEMMA AlertsKept ==
    ASSUME Types, HandsInv, [Next]_vars
    PROVE  \A a \in AlertIds : /\ a \in AlertIds'
                              /\ alerts'[a].key = alerts[a].key /\ alerts'[a].time = alerts[a].time
<1> USE DEF HandsInv
<1>1. CASE Quiet
  BY <1>1 DEF Quiet, AlertIds
<1>2. CASE \E c \in Callers : Fire(c)
  BY <1>2, FireAppends
<1>3. CASE \E c \in Callers : Ends(c)
  BY <1>3, EndsFates DEF Fated
<1>4. CASE \E w \in Writers : Get(w)
  BY <1>4, GetFates DEF Fated
<1>5. CASE \E w \in Writers : Decides(w)
  BY <1>5, DecidesFates DEF Fated
<1> QED
  BY <1>1, <1>2, <1>3, <1>4, <1>5, Steps

(* The steps that read the clock, fire or end in the lock section. *)
LEMMA DedupSteps ==
    ASSUME Types, [Next]_vars
    PROVE  \/ \E c \in Callers : Detect(c)
           \/ \E c \in Callers : Fire(c)
           \/ \E c \in Callers : Duplicate(c)
           \/ /\ UNCHANGED <<lastFired, lastCleanup, ctime, ckey>>
              /\ \A c \in Callers : cpc'[c] = cpc[c] \/ "locking" \notin {cpc[c], cpc'[c]}
<1>1. ASSUME NEW c \in Callers, CheckWriter(c) \/ CreateWriter(c) \/ StartWriter(c) \/ Ends(c)
      PROVE  /\ UNCHANGED <<lastFired, lastCleanup, ctime, ckey>>
             /\ \A d \in Callers : cpc'[d] = cpc[d] \/ "locking" \notin {cpc[d], cpc'[d]}
  <2>1. cpc \in [Callers -> {"idle", "locking", "check", "create", "start", "put"}]
    BY DEF Types, CallersOK
  <2>2. UNCHANGED <<lastFired, lastCleanup, ctime, ckey>>
    BY <1>1 DEF CheckWriter, CreateWriter, StartWriter, Ends, StartTwice, Put, dedupVars
  <2>3. /\ cpc[c] \in {"check", "create", "start", "put"}
        /\ \E pc \in {"idle", "create", "start", "put"} : cpc' = [cpc EXCEPT ![c] = pc]
    BY <1>1 DEF CheckWriter, CreateWriter, StartWriter, Ends, StartTwice, Put
  <2> QED
    BY <2>1, <2>2, <2>3
<1>2. ASSUME NEW w \in Writers, WriterStep(w)
      PROVE  UNCHANGED <<lastFired, lastCleanup, cpc, ctime, ckey>>
  BY <1>2 DEF WriterStep, Top, GetEmpty, Get, CacheStillGood, Query, Refresh, RefreshFails, Stamp, MatchRaises,
              Suppress, NoMatch, Commit, dedupVars, callerVars
<1>3. ASSUME World \/ UNCHANGED vars
      PROVE  UNCHANGED <<lastFired, lastCleanup, cpc, ctime, ckey>>
  BY <1>3 DEF World, BeginShutdown, Drain, TestWriter, Join, Leave, Exit, Tick, CreateRule, DeleteRule, dedupVars,
              callerVars, vars
<1> QED
  BY <1>1, <1>2, <1>3 DEF Next, CallerStep, World, Ends

LEMMA FiredStep ==
    ASSUME Types, HandsInv, FiredInv, [Next]_vars
    PROVE  FiredInv'
<1>0. /\ cpc \in [Callers -> {"idle", "locking", "check", "create", "start", "put"}]
      /\ lastFired \in [Keys -> 0..now] /\ ckey \in [Callers -> Keys]
      /\ ctime \in [Callers -> 0..now] /\ now \in Nat /\ now >= StartTime
  BY Parameters DEF Types, CallersOK, WorldOK
<1>1. \A a \in AlertIds : /\ a \in AlertIds'
                         /\ alerts'[a].key = alerts[a].key /\ alerts'[a].time = alerts[a].time
  BY AlertsKept
<1>2. ASSUME NEW k \in Keys, lastFired[k] # 0
      PROVE  \E a \in AlertIds' : alerts'[a].key = k /\ alerts'[a].time = lastFired[k]
  <2>1. PICK a \in AlertIds : alerts[a].key = k /\ alerts[a].time = lastFired[k]
    BY <1>2 DEF FiredInv
  <2> QED
    BY <1>1, <2>1
<1>3. CASE UNCHANGED lastFired
  <2>1. \A k \in Keys : lastFired'[k] # 0 =>
           \E a \in AlertIds' : alerts'[a].key = k /\ alerts'[a].time = lastFired'[k]
    BY <1>2, <1>3
  <2>2. \A c \in Callers : cpc'[c] = "locking" => ctime'[c] >= StartTime
    <3>1. ASSUME NEW c \in Callers, Detect(c)
          PROVE  cpc' = [cpc EXCEPT ![c] = "locking"] /\ ctime' = [ctime EXCEPT ![c] = now]
      BY <3>1 DEF Detect
    <3>2. ASSUME NEW c \in Callers, Fire(c) \/ Duplicate(c)
          PROVE  ctime' = ctime /\ \E pc \in {"check", "idle"} : cpc' = [cpc EXCEPT ![c] = pc]
      BY <3>2 DEF Fire, Duplicate
    <3> QED
      BY <1>0, <3>1, <3>2, DedupSteps DEF FiredInv
  <2> QED
    BY <2>1, <2>2 DEF FiredInv
<1>4. CASE \E c \in Callers : Fire(c)
  <2>1. PICK c \in Callers : Fire(c)
    BY <1>4
  <2> DEFINE fired == [lastFired EXCEPT ![ckey[c]] = ctime[c]]
  <2>2. /\ lastFired' = AfterCleanup(fired, ctime[c]) /\ fired \in [Keys -> 0..now]
        /\ ctime' = ctime /\ cpc' = [cpc EXCEPT ![c] = "check"]
    BY <1>0, <2>1 DEF Fire
  <2>3. \A k \in Keys : fired[k] = IF k = ckey[c] THEN ctime[c] ELSE lastFired[k]
    BY <1>0
  <2> HIDE DEF fired
  <2>4. \A k \in Keys : lastFired'[k] = fired[k] \/ lastFired'[k] = 0
    BY <1>0, <2>2, CleanupKeeps
  <2>5. /\ Len(alerts) + 1 \in AlertIds' /\ alerts'[Len(alerts) + 1].key = ckey[c]
        /\ alerts'[Len(alerts) + 1].time = ctime[c]
    BY <2>1, FireAppends
  <2>6. ASSUME NEW k \in Keys, lastFired'[k] # 0
        PROVE  \E a \in AlertIds' : alerts'[a].key = k /\ alerts'[a].time = lastFired'[k]
    <3>1. CASE k = ckey[c]
      BY <2>3, <2>4, <2>5, <2>6, <3>1
    <3>2. CASE k # ckey[c]
      BY <1>2, <2>3, <2>4, <2>6, <3>2
    <3> QED
      BY <3>1, <3>2
  <2>7. \A d \in Callers : cpc'[d] = "locking" => ctime'[d] >= StartTime
    BY <1>0, <2>2 DEF FiredInv
  <2> QED
    BY <2>6, <2>7 DEF FiredInv
<1>5. ASSUME NEW c \in Callers, Detect(c) \/ Duplicate(c)
      PROVE  UNCHANGED lastFired
  BY <1>5 DEF Detect, Duplicate, dedupVars
<1> QED
  BY <1>3, <1>4, <1>5, DedupSteps

LEMMA FiredInvariant == Spec => []FiredInv
<1>1. Init => FiredInv
  BY DEF Init, FiredInv
<1>2. TypeInv /\ FiredInv /\ [Next]_vars => FiredInv'
  BY FiredStep DEF TypeInv
<1> QED
  BY <1>1, <1>2, TypeInvariant, PTL DEF Spec

(* An anomaly is dropped as a repeat only if an alert of its key did fire less  *)
(* than a window before it, whatever the cleanup has removed from the cache and *)
(* in whatever order the threads take the lock.                                 *)
THEOREM OnlyRepeatsDroppedHolds == Spec => OnlyRepeatsDropped
<1>1. ASSUME TypeInv, FiredInv, [Next]_vars, NEW c \in Callers,
             cpc[c] = "locking", cpc'[c] = "idle"
      PROVE  \E a \in AlertIds : alerts[a].key = ckey[c] /\ ctime[c] - alerts[a].time < DedupWindow
  <2>0. /\ cpc \in [Callers -> {"idle", "locking", "check", "create", "start", "put"}]
        /\ ckey[c] \in Keys /\ lastFired[ckey[c]] \in Nat /\ ctime[c] \in Nat
    BY <1>1, Parameters DEF TypeInv, Types, CallersOK, WorldOK
  <2>1. Duplicate(c)
    <3>1. ASSUME NEW d \in Callers, Detect(d) \/ Fire(d) \/ Duplicate(d)
          PROVE  d = c /\ Duplicate(d)
      <4>1. \E pc \in {"locking", "check", "idle"} :
               cpc' = [cpc EXCEPT ![d] = pc] /\ (pc = "idle" => Duplicate(d))
        BY <3>1 DEF Detect, Fire, Duplicate
      <4> QED
        BY <1>1, <2>0, <4>1
    <3> QED
      BY <1>1, <3>1, DedupSteps DEF TypeInv
  <2>2. ctime[c] - lastFired[ckey[c]] < DedupWindow
    BY <2>1 DEF Duplicate, Repeats
  <2>3. ctime[c] >= StartTime
    BY <1>1 DEF FiredInv
  <2>4. lastFired[ckey[c]] # 0
    BY <2>0, <2>2, <2>3, Parameters
  <2> QED
    BY <1>1, <2>0, <2>2, <2>4 DEF FiredInv
<1>2. TypeInv /\ FiredInv /\ [Next]_vars =>
         [\A c \in Callers :
            (cpc[c] = "locking" /\ cpc'[c] = "idle") =>
                \E a \in AlertIds : /\ alerts[a].key = ckey[c]
                                    /\ ctime[c] - alerts[a].time < DedupWindow]_vars
  BY <1>1
<1> QED
  BY <1>2, TypeInvariant, FiredInvariant, PTL DEF Spec, OnlyRepeatsDropped

-----------------------------------------------------------------------------
(* Suppression: how old the rules are that decide about an alert.          *)

(* The strengthening.  Rows that were read hold every rule that was there       *)
(* before and still counts, and none that had ceased to count by then: the      *)
(* cached ones, and those a query has brought.                                  *)
Holds(rows, at) ==
    /\ \A r \in rows : rules[r].expires >= at
    /\ \A r \in Rules : rules[r].created # 0 /\ rules[r].created < at /\ rules[r].expires > now => r \in rows

RulesInv ==
    /\ Holds(cache, cacheRead)
    /\ \A w \in Writers : Holds(fetched[w].rows, fetched[w].at)

(* A writer that matches does it with a cache that was stamped less than a TTL   *)
(* before it took the alert, or later.                                           *)
MatchInv ==
    \A w \in Writers : wpc[w] = "match" => alerts[held[w]].taken < cacheTs + SuppressTTL

(* The steps that the rules and their cache can tell apart. *)
LEMMA CacheSteps ==
    ASSUME [Next]_vars
    PROVE  \/ Tick \/ \E r \in Rules : CreateRule(r) \/ DeleteRule(r)
           \/ \E w \in Writers : Query(w) \/ Refresh(w) \/ RefreshFails(w) \/ Stamp(w)
           \/ UNCHANGED <<now, rules, cache, cacheTs, fetched, cacheRead>>
<1>1. ASSUME NEW c \in Callers, Detect(c) \/ CallerStep(c)
      PROVE  UNCHANGED <<now, rules, cache, cacheTs, fetched, cacheRead>>
  BY <1>1 DEF Detect, CallerStep, Duplicate, Fire, CheckWriter, CreateWriter, StartWriter,
              StartTwice, Put, cacheVars
<1>2. ASSUME NEW w \in Writers, WriterStep(w), ~Query(w), ~Refresh(w), ~RefreshFails(w), ~Stamp(w)
      PROVE  UNCHANGED <<now, rules, cache, cacheTs, fetched, cacheRead>>
  BY <1>2 DEF WriterStep, Top, GetEmpty, Get, CacheStillGood, MatchRaises, Suppress, NoMatch,
              Commit, cacheVars
<1>3. ASSUME BeginShutdown \/ Drain \/ TestWriter \/ Join \/ Leave \/ Exit \/ UNCHANGED vars
      PROVE  UNCHANGED <<now, rules, cache, cacheTs, fetched, cacheRead>>
  BY <1>3 DEF BeginShutdown, Drain, TestWriter, Join, Leave, Exit, cacheVars, vars
<1> QED
  BY <1>1, <1>2, <1>3 DEF Next

(* Time passes, and a rule comes or goes: what was read still holds. *)
LEMMA HoldsOn ==
    ASSUME Types, Tick \/ \E r \in Rules : CreateRule(r) \/ DeleteRule(r),
           NEW rows \in SUBSET Rules, NEW at \in 0..now, Holds(rows, at)
    PROVE  /\ \A r \in rows : rules'[r].expires >= at
           /\ \A r \in Rules : rules'[r].created # 0 /\ rules'[r].created < at /\ rules'[r].expires > now'
                                 => r \in rows
<1>0. /\ now \in Nat /\ at \in Nat /\ at <= now
      /\ \A r \in Rules : rules[r].created \in 0..now /\ rules[r].expires \in Nat
  BY Parameters DEF Types, WorldOK
<1>1. CASE Tick
  <2>1. now' = now + 1 /\ rules' = rules
    BY <1>1 DEF Tick
  <2> QED
    BY <1>0, <2>1 DEF Holds
<1>2. ASSUME NEW r \in Rules, CreateRule(r)
      PROVE  /\ \A q \in rows : rules'[q].expires >= at
             /\ \A q \in Rules : rules'[q].created # 0 /\ rules'[q].created < at /\ rules'[q].expires > now'
                                   => q \in rows
  <2>1. PICK life \in Lifetimes :
           rules' = [rules EXCEPT ![r] = [created |-> now, expires |-> now + life]]
    BY <1>2 DEF CreateRule
  <2>2. /\ rules'[r].created = now /\ rules'[r].expires = now + life /\ life \in Nat
        /\ \A q \in Rules : q # r => rules'[q] = rules[q]
    BY <2>1, Parameters DEF Types, WorldOK
  <2>3. now' = now
    BY <1>2 DEF CreateRule
  <2> QED
    BY <1>0, <2>2, <2>3 DEF Holds
<1>3. ASSUME NEW r \in Rules, DeleteRule(r)
      PROVE  /\ \A q \in rows : rules'[q].expires >= at
             /\ \A q \in Rules : rules'[q].created # 0 /\ rules'[q].created < at /\ rules'[q].expires > now'
                                   => q \in rows
  <2>1. /\ rules'[r].expires = now /\ now' = now
        /\ \A q \in Rules : q # r => rules'[q] = rules[q]
    BY <1>3 DEF DeleteRule, Types, WorldOK
  <2> QED
    BY <1>0, <2>1 DEF Holds
<1> QED
  BY <1>1, <1>2, <1>3

LEMMA RulesStep ==
    ASSUME Types, RulesInv, [Next]_vars
    PROVE  RulesInv'
<1>0. /\ now \in Nat /\ cacheRead \in 0..now /\ cache \in SUBSET Rules
      /\ fetched \in [Writers -> [rows : SUBSET Rules, at : 0..now]]
      /\ \A w \in Writers : fetched[w].rows \in SUBSET Rules /\ fetched[w].at \in 0..now
      /\ \A r \in Rules : rules[r].created \in 0..now /\ rules[r].expires \in Nat
  BY Parameters DEF Types, WorldOK, WritersOK
<1>1. CASE Tick \/ \E r \in Rules : CreateRule(r) \/ DeleteRule(r)
  <2>1. UNCHANGED <<cache, fetched, cacheRead>>
    BY <1>1 DEF Tick, CreateRule, DeleteRule, cacheVars
  <2> QED
    <3>1. Holds(cache, cacheRead) /\ \A w \in Writers : Holds(fetched[w].rows, fetched[w].at)
      BY DEF RulesInv
    <3>2. /\ \A r \in cache : rules'[r].expires >= cacheRead
          /\ \A r \in Rules : rules'[r].created # 0 /\ rules'[r].created < cacheRead /\ rules'[r].expires > now'
                                => r \in cache
      BY <1>0, <1>1, <3>1, HoldsOn
    <3>3. \A w \in Writers :
             /\ \A r \in fetched[w].rows : rules'[r].expires >= fetched[w].at
             /\ \A r \in Rules : /\ rules'[r].created # 0 /\ rules'[r].created < fetched[w].at
                                  /\ rules'[r].expires > now'
                                  => r \in fetched[w].rows
      BY <1>0, <1>1, <3>1, HoldsOn
    <3> QED
      BY <2>1, <3>2, <3>3, Zenon DEF RulesInv, Holds
<1>2. Holds(NoRows.rows, NoRows.at)
  BY <1>0 DEF Holds, NoRows
<1>3. ASSUME NEW w \in Writers, Query(w)
      PROVE  RulesInv'
  <2> DEFINE got == [rows |-> {r \in Rules : rules[r].expires > now}, at |-> now]
  <2>1. /\ UNCHANGED <<now, rules, cache, cacheRead>>
        /\ fetched' = [fetched EXCEPT ![w] = got]
    BY <1>3 DEF Query, Active
  <2>2. Holds(got.rows, got.at)
    BY <1>0 DEF Holds
  <2> HIDE DEF got
  <2>3. \A v \in Writers : fetched'[v] = IF v = w THEN got ELSE fetched[v]
    BY <1>0, <2>1
  <2> QED
    BY <2>1, <2>2, <2>3 DEF RulesInv, Holds
<1>4. ASSUME NEW w \in Writers, Refresh(w) \/ RefreshFails(w)
      PROVE  RulesInv'
  <2>1. /\ UNCHANGED <<now, rules>> /\ fetched' = [fetched EXCEPT ![w] = NoRows]
        /\ \/ cache' = fetched[w].rows /\ cacheRead' = fetched[w].at
           \/ UNCHANGED <<cache, cacheRead>>
    BY <1>4 DEF Refresh, RefreshFails
  <2>2. \A v \in Writers : fetched'[v] = IF v = w THEN NoRows ELSE fetched[v]
    BY <1>0, <2>1
  <2> QED
    BY <1>2, <2>1, <2>2 DEF RulesInv, Holds
<1>5. ASSUME NEW w \in Writers, Stamp(w)
      PROVE  UNCHANGED <<now, rules, cache, fetched, cacheRead>>
  BY <1>5 DEF Stamp
<1>6. CASE UNCHANGED <<now, rules, cache, fetched, cacheRead>>
  BY <1>6 DEF RulesInv, Holds
<1> QED
  BY <1>1, <1>3, <1>4, <1>5, <1>6, CacheSteps

(* A writer that is to match, or comes to it, keeps its alert and when it took it. *)
LEMMA TakenKept ==
    ASSUME Types, HandsInv, [Next]_vars, NEW w \in Writers, wpc[w] \in Looking
    PROVE  alerts'[held[w]].taken = alerts[held[w]].taken
<1> USE DEF HandsInv
<1>1. held[w] \in AlertIds /\ alerts[held[w]].fate = "taken"
  BY AlertFacts DEF Types, WritersOK, WriterHands, Busy, Looking
<1>2. CASE Quiet
  BY <1>2 DEF Quiet
<1>3. CASE \E c \in Callers : Fire(c)
  BY <1>1, <1>3, FireAppends
<1>4. CASE \E c \in Callers : Ends(c)
  BY <1>1, <1>4, EndsFates
<1>5. CASE \E v \in Writers : Get(v)
  BY <1>1, <1>5, GetFates DEF Fated
<1>6. CASE \E v \in Writers : Decides(v)
  BY <1>1, <1>6, DecidesFates
<1> QED
  BY <1>2, <1>3, <1>4, <1>5, <1>6, Steps

LEMMA ToMatch ==
    ASSUME Types, [Next]_vars, NEW w \in Writers, wpc'[w] = "match"
    PROVE  /\ held'[w] = held[w]
           /\ \/ wpc[w] = "match"
              \/ wpc[w] \in {"refresh", "stamp"} /\ (CacheStillGood(w) \/ Stamp(w))
<1>0. /\ wpc \in [Writers -> Thread] /\ held \in [Writers -> 0..Len(alerts)]
      /\ cpc \in [Callers -> {"idle", "locking", "check", "create", "start", "put"}]
  BY DEF Types, WritersOK, CallersOK
<1>1. ASSUME NEW c \in Callers, Detect(c) \/ CallerStep(c)
      PROVE  held' = held /\ (wpc' = wpc \/ \E v \in Writers, pc \in {"created", "top"} :
                                                wpc' = [wpc EXCEPT ![v] = pc])
  <2>1. CASE CreateWriter(c)
    BY <2>1 DEF CreateWriter
  <2>2. CASE StartWriter(c)
    <3>1. wpc' = [wpc EXCEPT ![writer] = "top"] /\ held' = held
      BY <2>2 DEF StartWriter
    <3>2. writer \notin Writers => wpc' = wpc
      BY <1>0, <3>1
    <3> QED
      BY <3>1, <3>2
  <2>3. CASE Detect(c) \/ Duplicate(c) \/ Fire(c) \/ CheckWriter(c) \/ StartTwice(c) \/ Put(c)
    BY <2>3 DEF Detect, Duplicate, Fire, CheckWriter, StartTwice, Put, writerVars
  <2> QED
    BY <1>1, <2>1, <2>2, <2>3 DEF CallerStep
<1>2. ASSUME NEW v \in Writers,
             Top(v) \/ GetEmpty(v) \/ Get(v) \/ Decides(v)
      PROVE  /\ \E pc \in {"exited", "get", "top", "refresh", "commit"} : wpc' = [wpc EXCEPT ![v] = pc]
             /\ \A u \in Writers : u # v => held'[u] = held[u]
  BY <1>0, <1>2 DEF Top, GetEmpty, Get, Decides, MatchRaises, Suppress, NoMatch, Commit, Done, Goto
<1>3. ASSUME NEW v \in Writers, CacheStillGood(v) \/ Stamp(v)
      PROVE  held' = held /\ wpc[v] \in {"refresh", "stamp"} /\ wpc' = [wpc EXCEPT ![v] = "match"]
  BY <1>3 DEF CacheStillGood, Stamp, Goto
<1>8. ASSUME NEW v \in Writers, Query(v) \/ Refresh(v) \/ RefreshFails(v)
      PROVE  held' = held /\ \E pc \in {"query", "stamp"} : wpc' = [wpc EXCEPT ![v] = pc]
  BY <1>8 DEF Query, Refresh, RefreshFails, Goto
<1>4. ASSUME World \/ UNCHANGED vars
      PROVE  UNCHANGED <<wpc, held>>
  BY <1>4 DEF World, BeginShutdown, Drain, TestWriter, Join, Leave, Exit, Tick, CreateRule, DeleteRule, writerVars, vars
<1>5. CASE \E c \in Callers : Detect(c) \/ CallerStep(c)
  BY <1>0, <1>1, <1>5
<1>6. CASE \E v \in Writers : Top(v) \/ GetEmpty(v) \/ Get(v) \/ Decides(v)
  BY <1>0, <1>2, <1>6
<1>7. CASE \E v \in Writers : CacheStillGood(v) \/ Stamp(v)
  BY <1>0, <1>3, <1>7
<1>9. CASE \E v \in Writers : Query(v) \/ Refresh(v) \/ RefreshFails(v)
  BY <1>0, <1>8, <1>9
<1> QED
  BY <1>4, <1>5, <1>6, <1>7, <1>9 DEF Next, WriterStep, World, Decides

LEMMA MatchStep ==
    ASSUME Types, HandsInv, MatchInv, [Next]_vars
    PROVE  MatchInv'
<1> SUFFICES ASSUME NEW w \in Writers, wpc'[w] = "match"
              PROVE  alerts'[held'[w]].taken < cacheTs' + SuppressTTL
  BY Zenon DEF MatchInv
<1>0. /\ now \in Nat /\ cacheTs \in 0..now /\ SuppressTTL \in Nat /\ SuppressTTL > 0
  BY Parameters, AlertPipelineAssumption DEF AlertPipelineAssumption, Types, WorldOK, WritersOK
<1>1. held'[w] = held[w] /\ wpc[w] \in Looking
  BY ToMatch DEF Looking
<1>2. alerts'[held'[w]].taken = alerts[held[w]].taken
  BY <1>1, TakenKept
<1>3. alerts[held[w]].taken \in Nat /\ alerts[held[w]].taken <= now
  <2>1. held[w] \in AlertIds
    BY <1>1, AlertFacts DEF Types, WritersOK, HandsInv, WriterHands, Busy, Looking
  <2>2. alerts[held[w]].taken \in 0..MaxTime
    BY <2>1, AlertFacts DEF Types, Alert
  <2> QED
    BY <2>1, <2>2, Parameters DEF Types, AlertsOK
<1>4. CASE \E v \in Writers : Stamp(v)
  <2>1. cacheTs' = now
    BY <1>4 DEF Stamp
  <2> QED
    BY <1>0, <1>2, <1>3, <2>1
<1>5. CASE UNCHANGED cacheTs
  <2>1. CASE wpc[w] = "match"
    BY <1>2, <1>5, <2>1 DEF MatchInv
  <2>2. CASE CacheStillGood(w)
    <3>1. now - cacheTs < SuppressTTL
      BY <1>0, <2>2 DEF CacheStillGood, CacheIsOld
    <3> QED
      BY <1>0, <1>2, <1>3, <1>5, <3>1
  <2> QED
    BY <1>4, <2>1, <2>2, ToMatch
<1>6. ASSUME \/ Tick \/ \E r \in Rules : CreateRule(r) \/ DeleteRule(r)
             \/ \E v \in Writers : Query(v) \/ Refresh(v) \/ RefreshFails(v)
      PROVE  UNCHANGED cacheTs
  BY <1>6 DEF Tick, CreateRule, DeleteRule, Query, Refresh, RefreshFails, cacheVars
<1> QED
  BY <1>4, <1>5, <1>6, CacheSteps

CacheInv == RulesInv /\ MatchInv

LEMMA CacheInvariant == Spec => []CacheInv
<1>1. Init => CacheInv
  BY DEF Init, CacheInv, RulesInv, MatchInv, Holds, NoRows
<1>2. TypeInv /\ CacheInv /\ [Next]_vars => CacheInv'
  BY RulesStep, MatchStep DEF TypeInv, CacheInv
<1> QED
  BY <1>1, <1>2, TypeInvariant, PTL DEF Spec

(* Which step gives an alert the fate "unmatched", and which "suppressed". *)
LEMMA Becoming ==
    ASSUME Types, HandsInv, [Next]_vars, NEW a, NEW fate \in {"unmatched", "suppressed"},
           Became(a, fate)
    PROVE  \E w \in Writers : /\ a = held[w] /\ wpc[w] = "match"
                             /\ (fate = "unmatched" => NoMatch(w))
                             /\ (fate = "suppressed" => Suppress(w))
<1> USE DEF HandsInv
<1>0. a \in AlertIds /\ alerts[a].fate # fate /\ alerts'[a].fate = fate
  BY DEF Became
<1>1. ~Quiet /\ ~ \E c \in Callers : Fire(c)
  BY <1>0, FireAppends DEF Quiet
<1>2. ~ \E c \in Callers : Ends(c)
  BY <1>0, EndsFates DEF Fated
<1>3. ~ \E w \in Writers : Get(w)
  BY <1>0, GetFates DEF Fated
<1>4. PICK w \in Writers : Decides(w)
  BY <1>1, <1>2, <1>3, Steps
<1>5. a = held[w]
  BY <1>0, <1>4, DecidesFates DEF Fated
<1>6. held[w] \in AlertIds /\ AlertsOK /\ wpc[w] \in {"match", "commit"}
      /\ {"unmatched", "detached", "suppressed", "stored", "uncommitted"} \subseteq Fates
  BY <1>4, DecidesFates DEF Types, Fates, Lost, Waiting
<1>7. ASSUME NEW f \in {"unmatched", "detached", "suppressed", "stored", "uncommitted"},
             SetFate(held[w], f)
      PROVE  f = fate
  BY <1>0, <1>5, <1>6, <1>7, SetFateFates DEF Fated
<1>8. fate = "unmatched" => NoMatch(w)
  BY <1>4, <1>7 DEF Decides, MatchRaises, Suppress, Commit, Done
<1>9. fate = "suppressed" => Suppress(w)
  BY <1>4, <1>7 DEF Decides, MatchRaises, NoMatch, Commit, Done
<1> QED
  BY <1>5, <1>8, <1>9 DEF NoMatch, Suppress

(* The facts both theorems compare: when the alert was taken and the cache read. *)
LEMMA TakenBounds ==
    ASSUME Types, HandsInv, MatchInv, NEW w \in Writers, wpc[w] = "match"
    PROVE  /\ alerts[held[w]].taken - SuppressTTL - Delay \in Int /\ cacheRead \in Nat
           /\ alerts[held[w]].taken - SuppressTTL - Delay < cacheRead
           /\ \A r \in Rules : rules[r].created \in Nat /\ rules[r].expires \in Nat
           /\ cache \subseteq Rules
<1>1. held[w] \in AlertIds
  BY AlertFacts DEF Types, WritersOK, HandsInv, WriterHands, Busy, Looking
<1>2. alerts[held[w]].taken \in 0..MaxTime
  BY <1>1, AlertFacts DEF Types, Alert
<1>3. cacheTs \in Nat /\ cacheRead \in Nat /\ cache \subseteq Rules
      /\ \A r \in Rules : rules[r].created \in Nat /\ rules[r].expires \in Nat
  BY Parameters DEF Types, WorldOK, WritersOK
<1> QED
  BY <1>2, <1>3, Parameters DEF MatchInv, Delay

(* A rule that existed a TTL, and the delay with which the age of the cache was  *)
(* counted, before the writer took the alert, and still counts, suppresses it.   *)
THEOREM RuleTakesEffectHolds == Spec => RuleTakesEffect
<1>1. ASSUME TypeInv, CacheInv, [Next]_vars, NEW a \in AlertIds, Became(a, "unmatched"),
             NEW r \in Rules, alerts[a].key \in Covers[r], rules[r].expires > now,
             rules[r].created # 0, rules[r].created <= alerts[a].taken - SuppressTTL - Delay
      PROVE  FALSE
  <2>1. PICK w \in Writers : a = held[w] /\ wpc[w] = "match" /\ NoMatch(w)
    BY <1>1, Becoming DEF TypeInv
  <2>2. rules[r].created < cacheRead
    BY <1>1, <2>1, TakenBounds DEF TypeInv, CacheInv
  <2>3. r \in cache
    BY <1>1, <2>2 DEF CacheInv, RulesInv, Holds
  <2>4. r \in Matching(alerts[held[w]].key)
    BY <1>1, <2>1, <2>3 DEF Matching
  <2> QED
    BY <2>1, <2>4 DEF NoMatch
<1>2. TypeInv /\ CacheInv /\ [Next]_vars =>
         [\A a \in AlertIds : Became(a, "unmatched") =>
            ~ \E r \in Rules :
                /\ alerts[a].key \in Covers[r] /\ rules[r].expires > now
                /\ rules[r].created # 0
                /\ rules[r].created <= alerts[a].taken - SuppressTTL - Delay]_vars
  BY <1>1
<1> QED
  BY <1>2, TypeInvariant, CacheInvariant, PTL DEF Spec, RuleTakesEffect

(* An alert is suppressed only by a rule that counted less than a TTL, and the   *)
(* delay with which the age of the cache was counted, before the writer took it: *)
(* the cache keeps no rule alive for longer.                                     *)
THEOREM SuppressionIsFreshHolds == Spec => SuppressionIsFresh
<1>1. ASSUME TypeInv, CacheInv, [Next]_vars, NEW a \in AlertIds, Became(a, "suppressed")
      PROVE  \E r \in cache : /\ alerts[a].key \in Covers[r]
                              /\ rules[r].expires > alerts[a].taken - SuppressTTL - Delay
  <2>1. PICK w \in Writers : a = held[w] /\ wpc[w] = "match" /\ Suppress(w)
    BY <1>1, Becoming DEF TypeInv
  <2>2. PICK r \in cache : alerts[a].key \in Covers[r]
    BY <2>1 DEF Suppress, Matching
  <2>3. rules[r].expires >= cacheRead
    BY <1>1 DEF CacheInv, RulesInv, Holds
  <2>4. rules[r].expires > alerts[a].taken - SuppressTTL - Delay
    BY <1>1, <2>1, <2>3, TakenBounds DEF TypeInv, CacheInv
  <2> QED
    BY <2>2, <2>4
<1>2. TypeInv /\ CacheInv /\ [Next]_vars =>
         [\A a \in AlertIds : Became(a, "suppressed") =>
            \E r \in cache : /\ alerts[a].key \in Covers[r]
                             /\ rules[r].expires > alerts[a].taken - SuppressTTL - Delay]_vars
  BY <1>1
<1> QED
  BY <1>2, TypeInvariant, CacheInvariant, PTL DEF Spec, SuppressionIsFresh

-----------------------------------------------------------------------------
(* Shutdown.                                                               *)

(* The strengthening.  As long as no writer was created beside another, nor      *)
(* after the drain began, there is at most the one _writer_thread holds; the     *)
(* stop flag stays set; and once main leaves without a warning every thread has  *)
(* ended, or will at its first look at the flag.                                 *)
Over == {"none", "created", "top", "exited"}

ShutdownInv ==
    ~rogue =>
        /\ \A w \in Writers : w # writer => wpc[w] = "none"
        /\ phase = "waiting" => joined = writer
        /\ phase \notin {"running", "flushing"} => stop
        /\ phase \in {"leaving", "exited"} /\ ~warned => \A w \in Writers : wpc[w] \in Over

LEMMA ShutdownStep ==
    ASSUME TypeInv, ShutdownInv, [Next]_vars
    PROVE  ShutdownInv'
<1> SUFFICES ASSUME ~rogue' PROVE ShutdownInv'
  BY DEF ShutdownInv
<1>0. /\ wpc \in [Writers -> Thread] /\ writer \in {0} \cup Writers
      /\ phase \in {"joining", "waiting"} => writer \in Writers
      /\ 0 \notin Writers
  BY Parameters DEF TypeInv, Types, WritersOK, MainOK
<1>1. ASSUME NEW c \in Callers, CreateWriter(c)
      PROVE  ShutdownInv'
  <2>1. ~rogue /\ writer = 0 /\ phase \in {"running", "flushing"} /\ phase' = phase
    BY <1>1 DEF CreateWriter, mainVars
  <2>2. PICK w \in Writers : writer' = w /\ wpc' = [wpc EXCEPT ![w] = "created"]
    BY <1>1 DEF CreateWriter
  <2> QED
    BY <1>0, <2>1, <2>2 DEF ShutdownInv
<1>2. ~(\E c \in Callers : CreateWriter(c)) => rogue' = rogue
  BY DEF Next, Detect, CallerStep, Duplicate, Fire, CheckWriter, StartWriter, StartTwice, Put, WriterStep, Top,
         GetEmpty, Get, CacheStillGood, Query, Refresh, RefreshFails, Stamp, MatchRaises, Suppress, NoMatch,
         Commit, BeginShutdown, Drain, TestWriter, Join, Leave, Exit, Tick, CreateRule, DeleteRule, stopVars, vars
<1>3. ASSUME NEW c \in Callers, StartWriter(c), rogue' = rogue
      PROVE  ShutdownInv'
  <2>1. /\ UNCHANGED <<writer, stop, phase, joined, warned>>
        /\ wpc' = [wpc EXCEPT ![writer] = "top"] /\ wpc[writer] = "created"
    BY <1>3 DEF StartWriter, mainVars, stopVars
  <2>2. \A w \in Writers : wpc'[w] = wpc[w] \/ (w = writer /\ wpc'[w] = "top")
    BY <1>0, <2>1
  <2> QED
    BY <1>0, <1>3, <2>1, <2>2 DEF ShutdownInv, Over
<1>4. ASSUME NEW w \in Writers, WriterStep(w), rogue' = rogue
      PROVE  ShutdownInv'
  <2>1. UNCHANGED <<writer, stop, phase, joined, warned>>
    BY <1>4 DEF WriterStep, Top, GetEmpty, Get, CacheStillGood, Query, Refresh, RefreshFails, Stamp, MatchRaises,
                Suppress, NoMatch, Commit, mainVars, stopVars
  <2>2. /\ wpc[w] \in Thread \ {"none", "created", "exited"}
        /\ \E pc \in Thread : wpc' = [wpc EXCEPT ![w] = pc] /\ (stop /\ wpc[w] = "top" => pc = "exited")
    BY <1>4 DEF WriterStep, Top, GetEmpty, Get, CacheStillGood, Query, Refresh, RefreshFails, Stamp, MatchRaises,
                Suppress, NoMatch, Commit, Done, Goto, Thread
  <2>3. \A v \in Writers : \/ wpc'[v] = wpc[v]
                           \/ v = w /\ wpc[w] # "none" /\ (stop /\ wpc[w] = "top" => wpc'[w] = "exited")
    BY <1>0, <2>2
  <2>4. \A v \in Writers : v # writer => wpc'[v] = "none"
    BY <1>4, <2>3 DEF ShutdownInv
  <2>5. stop /\ (\A v \in Writers : wpc[v] \in Over) => \A v \in Writers : wpc'[v] \in Over
    BY <2>2, <2>3 DEF Over, Thread
  <2> QED
    BY <1>4, <2>1, <2>4, <2>5 DEF ShutdownInv
<1>5. CASE TestWriter
  <2>1. /\ UNCHANGED <<writer, wpc, stop, rogue, joined, warned>> /\ phase = "draining"
        /\ phase' = IF WriterGone THEN "leaving" ELSE "joining"
    BY <1>5 DEF TestWriter, writerVars, stopVars
  <2>2. WriterGone => \A w \in Writers : w = writer => wpc[w] \in {"none", "created", "exited"}
    BY DEF WriterGone
  <2> QED
    BY <2>1, <2>2 DEF ShutdownInv, Over
<1>6. CASE Join
  <2>1. /\ UNCHANGED <<writer, wpc, stop, rogue, warned>> /\ phase = "joining"
        /\ \/ wpc[writer] = "created" /\ phase' = "leaving"
           \/ phase' = "waiting" /\ joined' = writer
    BY <1>6 DEF Join, writerVars, stopVars
  <2> QED
    BY <2>1 DEF ShutdownInv, Over
<1>7. CASE Leave
  <2>1. /\ UNCHANGED <<writer, wpc, stop, rogue>> /\ phase = "waiting" /\ phase' = "leaving"
        /\ ~warned' => wpc[writer] \in {"created", "exited"}
    BY <1>7 DEF Leave, writerVars, stopVars
  <2> QED
    BY <2>1 DEF ShutdownInv, Over
<1>8. CASE BeginShutdown \/ Drain \/ Exit
  <2>1. /\ UNCHANGED <<writer, wpc, rogue, joined, warned>>
        /\ \/ phase' = "flushing"
           \/ phase' = "draining" /\ stop'
           \/ phase = "leaving" /\ phase' = "exited" /\ stop' = stop
    BY <1>8, Zenon DEF BeginShutdown, Drain, Exit, writerVars, stopVars
  <2> QED
    BY <2>1 DEF ShutdownInv
<1>9. CASE UNCHANGED <<writer, wpc, stop, rogue, phase, joined, warned>>
  BY <1>9 DEF ShutdownInv
<1>10. ASSUME NEW c \in Callers, Detect(c) \/ Duplicate(c) \/ Fire(c) \/ CheckWriter(c) \/ StartTwice(c) \/ Put(c)
       PROVE  UNCHANGED <<writer, wpc, stop, rogue, phase, joined, warned>>
  BY <1>10 DEF Detect, Duplicate, Fire, CheckWriter, StartTwice, Put, writerVars, stopVars, mainVars
<1>11. ASSUME Tick \/ (\E r \in Rules : CreateRule(r) \/ DeleteRule(r)) \/ UNCHANGED vars
       PROVE  UNCHANGED <<writer, wpc, stop, rogue, phase, joined, warned>>
  BY <1>11 DEF Tick, CreateRule, DeleteRule, writerVars, stopVars, mainVars, vars
<1> QED
  BY <1>1, <1>2, <1>3, <1>4, <1>5, <1>6, <1>7, <1>8, <1>9, <1>10, <1>11 DEF Next, CallerStep

(* The process ends under an alert that a writer has taken only after main has    *)
(* warned, or when a writer was created beside another or after the drain began.  *)
THEOREM InHandIsFinishedHolds == Spec => []InHandIsFinished
<1>1. Init => ShutdownInv
  BY DEF Init, ShutdownInv
<1>2. TypeInv /\ ShutdownInv /\ [Next]_vars => ShutdownInv'
  BY ShutdownStep
<1>3. TypeInv /\ ShutdownInv => InHandIsFinished
  BY DEF ShutdownInv, InHandIsFinished, Over, TypeInv, HandsInv, WriterHands, Busy, Looking
<1> QED
  BY <1>1, <1>2, <1>3, TypeInvariant, PTL DEF Spec

-----------------------------------------------------------------------------
(* With one thread in on_flow_complete, the detector is an AlertSink.      *)

OneCaller == \A c, d \in Callers : c = d

(* The strengthening: the clock a caller has read is not before any entry of    *)
(* the cache nor its last cleanup, and an alert is no newer than the entry of   *)
(* its key unless it was more than a window old at the last cleanup.            *)
OrderInv ==
    /\ \A c \in Callers : cpc[c] = "locking" =>
          lastCleanup <= ctime[c] /\ \A k \in Keys : lastFired[k] <= ctime[c]
    /\ \A a \in AlertIds : \/ alerts[a].time <= lastFired[alerts[a].key]
                          \/ alerts[a].time < lastCleanup - DedupWindow

LEMMA AlertFields ==
    ASSUME AlertsOK
    PROVE  \A a \in AlertIds : /\ alerts[a].key \in Keys /\ alerts[a].time \in Nat
                              /\ alerts[a].time \in 0..MaxTime /\ alerts[a].fate \in Fates
<1>1. \A a \in AlertIds : alerts[a].key \in Keys /\ alerts[a].time \in 0..MaxTime
                         /\ alerts[a].fate \in Fates
  BY AlertFacts DEF Alert
<1> QED
  BY <1>1, Parameters

LEMMA LaterBound ==
    ASSUME NEW x \in Int, NEW y \in Int, NEW z \in Int, NEW d \in Int, x <= y, z < x - d
    PROVE  z < y - d
OBVIOUS

LEMMA OrderFire ==
    ASSUME Types, OneCaller, OrderInv, NEW c \in Callers, Fire(c)
    PROVE  OrderInv'
<1> DEFINE t == ctime[c]
           fired == [lastFired EXCEPT ![ckey[c]] = t]
<1>0. /\ now \in Nat /\ t \in Nat /\ lastCleanup \in Nat /\ ckey[c] \in Keys
      /\ DedupWindow \in Nat /\ fired \in [Keys -> 0..now]
      /\ \A k \in Keys : lastFired[k] \in Nat /\ fired[k] \in Nat
  <2>1. now \in Nat /\ t \in 0..now /\ lastCleanup \in 0..now /\ ckey[c] \in Keys
        /\ lastFired \in [Keys -> 0..now]
    BY Parameters DEF Types, WorldOK, CallersOK
  <2>2. fired \in [Keys -> 0..now]
    BY <2>1
  <2> QED
    BY <2>1, <2>2, Parameters
<1>1. \A k \in Keys : fired[k] = IF k = ckey[c] THEN t ELSE lastFired[k]
  BY DEF Types, CallersOK
<1>2. /\ lastFired' = AfterCleanup(fired, t) /\ cpc' = [cpc EXCEPT ![c] = "check"]
      /\ lastCleanup' = IF t - lastCleanup > CleanupEvery THEN t ELSE lastCleanup
      /\ cpc[c] = "locking"
  BY DEF Fire
<1> HIDE DEF fired
<1>3. lastCleanup <= t /\ \A k \in Keys : lastFired[k] <= t
  BY <1>2 DEF OrderInv
<1> HIDE DEF t
<1>4. \A k \in Keys : \/ lastFired'[k] = fired[k]
                     \/ /\ lastFired'[k] = 0
                        /\ lastCleanup' = t /\ fired[k] < t - DedupWindow
  BY <1>0, <1>2, CleanupKeeps
<1>5. lastCleanup <= lastCleanup' /\ lastCleanup' \in Nat
  BY <1>0, <1>2, <1>3
<1>6. ASSUME NEW k \in Keys, NEW when \in Nat,
             when <= lastFired[k] \/ when < lastCleanup - DedupWindow
      PROVE  when <= lastFired'[k] \/ when < lastCleanup' - DedupWindow
  <2>1. lastFired[k] <= fired[k]
    BY <1>0, <1>1, <1>3
  <2>2. CASE when <= lastFired[k]
    BY <1>0, <1>4, <2>1, <2>2
  <2>3. CASE when < lastCleanup - DedupWindow
    <3>1. /\ lastCleanup \in Int /\ lastCleanup' \in Int /\ when \in Int /\ DedupWindow \in Int
          /\ lastCleanup <= lastCleanup'
      BY <1>0, <1>5
    <3>2. when < lastCleanup' - DedupWindow
      BY <2>3, <3>1, LaterBound
    <3> QED
      BY <3>2
  <2> QED
    BY <1>6, <2>2, <2>3
<1>7. t <= lastFired'[ckey[c]] \/ t < lastCleanup' - DedupWindow
  BY <1>0, <1>1, <1>4
<1>8. /\ AlertIds' = AlertIds \cup {Len(alerts) + 1}
      /\ \A a \in AlertIds : alerts'[a] = alerts[a]
      /\ alerts'[Len(alerts) + 1].key = ckey[c] /\ alerts'[Len(alerts) + 1].time = t
  BY FireAppends DEF t
<1>9. \A a \in AlertIds : /\ alerts[a].key \in Keys /\ alerts[a].time \in Nat
                         /\ \/ alerts[a].time <= lastFired[alerts[a].key]
                            \/ alerts[a].time < lastCleanup - DedupWindow
  BY AlertFields DEF Types, OrderInv
<1>10. \A a \in AlertIds' : \/ alerts'[a].time <= lastFired'[alerts'[a].key]
                          \/ alerts'[a].time < lastCleanup' - DedupWindow
  <2> TAKE a \in AlertIds'
  <2>1. CASE a \in AlertIds
    BY <1>6, <1>8, <1>9, <2>1
  <2>2. CASE a = Len(alerts) + 1
    BY <1>7, <1>8, <2>2
  <2> QED
    BY <1>8, <2>1, <2>2
<1>11. \A d \in Callers : cpc'[d] # "locking"
  <2>1. cpc'[c] = "check"
    BY <1>2 DEF Types, CallersOK
  <2> QED
    BY <2>1 DEF OneCaller
<1> QED
  BY <1>10, <1>11 DEF OrderInv

LEMMA OrderStep ==
    ASSUME Types, HandsInv, OneCaller, OrderInv, [Next]_vars
    PROVE  OrderInv'
<1>0. /\ cpc \in [Callers -> {"idle", "locking", "check", "create", "start", "put"}]
      /\ now \in Nat /\ lastFired \in [Keys -> 0..now] /\ lastCleanup \in 0..now
      /\ ctime \in [Callers -> 0..now]
  BY Parameters DEF Types, CallersOK, WorldOK
<1>1. CASE \E c \in Callers : Fire(c)
  BY <1>1, OrderFire
<1>2. CASE UNCHANGED <<lastFired, lastCleanup>> /\ ~ \E c \in Callers : Fire(c)
  <2>1. AlertIds' = AlertIds
    <3>1. CASE Quiet
      BY <3>1 DEF Quiet, AlertIds
    <3>2. CASE \E c \in Callers : Ends(c)
      BY <3>2, EndsFates DEF HandsInv, Fated
    <3>3. CASE \E w \in Writers : Get(w)
      BY <3>3, GetFates DEF HandsInv, Fated
    <3>4. CASE \E w \in Writers : Decides(w)
      BY <3>4, DecidesFates DEF HandsInv, Fated
    <3> QED
      BY <1>2, <3>1, <3>2, <3>3, <3>4, Steps
  <2>2. \A a \in AlertIds' : \/ alerts'[a].time <= lastFired'[alerts'[a].key]
                           \/ alerts'[a].time < lastCleanup' - DedupWindow
    BY <1>2, <2>1, AlertsKept DEF OrderInv
  <2>3. ASSUME NEW c \in Callers, cpc'[c] = "locking"
        PROVE  lastCleanup' <= ctime'[c] /\ \A k \in Keys : lastFired'[k] <= ctime'[c]
    <3>1. CASE Detect(c)
      <4>1. ctime'[c] = now
        BY <1>0, <3>1 DEF Detect
      <4> QED
        BY <1>0, <1>2, <4>1
    <3>2. CASE cpc[c] = "locking" /\ ctime' = ctime
      BY <1>2, <3>2 DEF OrderInv
    <3>3. ASSUME NEW d \in Callers, Duplicate(d)
          PROVE  cpc'[c] = "idle"
      <4>1. cpc' = [cpc EXCEPT ![d] = "idle"] /\ d = c
        BY <3>3 DEF Duplicate, OneCaller
      <4> QED
        BY <1>0, <4>1
    <3>4. ASSUME NEW d \in Callers, Detect(d)
          PROVE  Detect(c)
      BY <3>4 DEF OneCaller
    <3> QED
      BY <1>2, <2>3, <3>1, <3>2, <3>3, <3>4, DedupSteps
  <2> QED
    BY <2>2, <2>3 DEF OrderInv
<1>3. ASSUME NEW c \in Callers, Detect(c) \/ Duplicate(c)
      PROVE  UNCHANGED <<lastFired, lastCleanup>>
  BY <1>3 DEF Detect, Duplicate, dedupVars
<1> QED
  BY <1>1, <1>2, <1>3, DedupSteps

(* The alerts as the sink sees them. *)
Mapped == [a \in AlertIds |-> [key   |-> alerts[a].key, time |-> alerts[a].time,
                              state |-> SinkState(alerts[a].fate)]]

LEMMA SinkStates ==
    /\ \A fate \in Waiting : SinkState(fate) = "open"
    /\ SinkState("stored") = "stored"
    /\ \A fate \in Lost \cup {"suppressed"} : SinkState(fate) = "dropped"
BY DEF SinkState, Waiting, Lost

LEMMA SinkSame ==
    ASSUME AlertIds' = AlertIds,
           \A a \in AlertIds : /\ alerts'[a].key = alerts[a].key /\ alerts'[a].time = alerts[a].time
                              /\ SinkState(alerts'[a].fate) = SinkState(alerts[a].fate)
    PROVE  Mapped' = Mapped
BY DEF Mapped

LEMMA SinkFated ==
    ASSUME NEW a, NEW fate, Fated(a, fate), SinkState(alerts[a].fate) = "open",
           SinkState(fate) \in {"open", "stored", "dropped"}
    PROVE  Sink!Next \/ Mapped' = Mapped
<1>1. /\ a \in AlertIds /\ AlertIds' = AlertIds /\ alerts'[a].fate = fate
      /\ \A b \in AlertIds : alerts'[b].key = alerts[b].key /\ alerts'[b].time = alerts[b].time
      /\ \A b \in AlertIds : b # a => alerts'[b] = alerts[b]
  BY DEF Fated
<1>2. CASE SinkState(fate) = "open"
  <2>1. \A b \in AlertIds : SinkState(alerts'[b].fate) = SinkState(alerts[b].fate)
    BY <1>1, <1>2
  <2> QED
    BY <1>1, <2>1, SinkSame
<1>3. CASE SinkState(fate) \in {"stored", "dropped"}
  <2>1. Mapped[a].state = "open" /\ a \in DOMAIN Mapped
    BY <1>1 DEF Mapped
  <2>2. \A b \in AlertIds : b # a => Mapped'[b] = Mapped[b]
    BY <1>1 DEF Mapped
  <2>3. Mapped'[a] = [Mapped[a] EXCEPT !.state = SinkState(fate)]
    BY <1>1 DEF Mapped
  <2>4. Mapped' = [Mapped EXCEPT ![a].state = SinkState(fate)]
    <3>1. DOMAIN Mapped' = AlertIds /\ DOMAIN Mapped = AlertIds
      BY <1>1 DEF Mapped
    <3>2. Mapped' = [b \in AlertIds |-> Mapped'[b]]
      BY <1>1 DEF Mapped
    <3>3. \A b \in AlertIds : [Mapped EXCEPT ![a].state = SinkState(fate)][b] = Mapped'[b]
      BY <2>2, <2>3, <3>1
    <3> QED
      BY <3>1, <3>2, <3>3
  <2>5. Sink!Decide(a, SinkState(fate))
    BY <2>1, <2>4 DEF Sink!Decide, Mapped
  <2> QED
    BY <1>3, <2>1, <2>5 DEF Sink!Next, Mapped
<1> QED
  BY <1>2, <1>3

LEMMA SinkFire ==
    ASSUME Types, OrderInv, NEW c \in Callers, Fire(c)
    PROVE  Sink!Next
<1> DEFINE k == ckey[c]
           t == ctime[c]
           row == [key |-> k, time |-> t, state |-> "open"]
           Row == [key : Keys, time : 0..MaxTime, state : {"open", "stored", "dropped"}]
<1>1. /\ k \in Keys /\ t \in 0..MaxTime /\ t \in Nat /\ lastCleanup \in Nat /\ lastFired[k] \in Nat
      /\ DedupWindow \in Nat
  <2>1. now \in 0..MaxTime /\ MaxTime \in Nat /\ t \in 0..now /\ k \in Keys
        /\ lastFired \in [Keys -> 0..now] /\ lastCleanup \in 0..now
    BY Parameters DEF Types, WorldOK, CallersOK
  <2> QED
    BY <2>1, Parameters
<1>2. cpc[c] = "locking" /\ t - lastFired[k] >= DedupWindow
  BY <1>1 DEF Fire, Repeats
<1>3. ASSUME NEW a \in AlertIds, alerts[a].key = k
      PROVE  t - alerts[a].time >= DedupWindow
  <2>1. alerts[a].time \in Nat
    BY AlertFields DEF Types
  <2>2. lastCleanup <= t
    BY <1>2 DEF OrderInv
  <2>3. alerts[a].time <= lastFired[k] \/ alerts[a].time < lastCleanup - DedupWindow
    BY <1>3 DEF OrderInv
  <2> QED
    BY <1>1, <1>2, <2>1, <2>2, <2>3
<1>4. /\ Len(alerts) \in Nat /\ AlertIds = 1..Len(alerts) /\ AlertIds' = 1..(Len(alerts) + 1)
      /\ \A a \in AlertIds : alerts'[a] = alerts[a]
      /\ alerts'[Len(alerts) + 1].key = k /\ alerts'[Len(alerts) + 1].time = t
      /\ alerts'[Len(alerts) + 1].fate = "fired"
  <2>1. Len(alerts) \in Nat /\ AlertIds = 1..Len(alerts)
    BY AlertFacts DEF Types
  <2>2. AlertIds' = AlertIds \cup {Len(alerts) + 1}
    BY FireAppends
  <2>3. AlertIds' = 1..(Len(alerts) + 1)
    BY <2>1, <2>2
  <2> QED
    BY <2>1, <2>3, FireAppends
<1>5. row \in Row
  BY <1>1
<1>6. \A a \in AlertIds : SinkState(alerts[a].fate) \in {"open", "stored", "dropped"}
  BY AlertFields, SinkStates DEF Types, Fates
<1>7. Mapped \in [1..Len(alerts) -> Row]
  BY <1>4, <1>6, AlertFields DEF Mapped, Types
<1>8. /\ \A a \in 1..Len(alerts) : Mapped'[a] = Mapped[a]
      /\ Mapped'[Len(alerts) + 1] = row /\ DOMAIN Mapped' = 1..(Len(alerts) + 1)
      /\ Mapped' = [a \in 1..(Len(alerts) + 1) |-> Mapped'[a]]
  <2>1. SinkState("fired") = "open"
    BY SinkStates DEF Waiting
  <2> QED
    BY <1>4, <2>1 DEF Mapped
<1> HIDE DEF row, Row
<1>9. Mapped' \in [1..(Len(alerts) + 1) -> Row]
  BY <1>4, <1>5, <1>7, <1>8
<1>10. Mapped \in Seq(Row) /\ Mapped' \in Seq(Row)
  BY <1>4, <1>7, <1>9, SeqDef
<1>11. Len(Mapped) = Len(alerts) /\ Len(Mapped') = Len(alerts) + 1
  BY <1>4, <1>7, <1>9, <1>10, LenProperties
<1>12. Mapped' = Append(Mapped, row)
  <2>1. /\ Append(Mapped, row) \in Seq(Row) /\ Len(Append(Mapped, row)) = Len(alerts) + 1
        /\ \A a \in 1..Len(alerts) : Append(Mapped, row)[a] = Mapped[a]
        /\ Append(Mapped, row)[Len(alerts) + 1] = row
    BY <1>5, <1>10, <1>11, AppendProperties
  <2>2. \A a \in 1..(Len(alerts) + 1) : Mapped'[a] = Append(Mapped, row)[a]
    BY <1>4, <1>8, <2>1
  <2> QED
    BY <1>10, <1>11, <2>1, <2>2, SeqEqual
<1>13. \A a \in DOMAIN Mapped : Mapped[a].key = k => t - Mapped[a].time >= DedupWindow
  BY <1>3 DEF Mapped
<1>14. PICK key \in Keys, time \in 0..MaxTime : key = k /\ time = t
  BY <1>1
<1>15. Sink!Accept(key, time)
  BY <1>12, <1>13, <1>14 DEF Sink!Accept, Mapped, row
<1> QED
  BY <1>15 DEF Sink!Next

LEMMA SinkStep ==
    ASSUME Types, HandsInv, OrderInv, [Next]_vars
    PROVE  Sink!Next \/ Mapped' = Mapped
<1> USE DEF HandsInv
<1>0. /\ {"fired", "queued", "taken", "unmatched"} = Waiting
      /\ {"full", "unstarted", "detached", "uncommitted", "suppressed"} = Lost \cup {"suppressed"}
  BY DEF Waiting, Lost
<1>1. CASE Quiet
  BY <1>1 DEF Quiet, Mapped, AlertIds
<1>2. CASE \E c \in Callers : Fire(c)
  BY <1>2, SinkFire
<1>3. CASE \E c \in Callers : Ends(c)
  <2>1. PICK c \in Callers, fate \in {"unstarted", "full", "queued"} :
           Fated(cid[c], fate) /\ alerts[cid[c]].fate = "fired"
    BY <1>3, EndsFates
  <2> QED
    BY <1>0, <2>1, SinkFated, SinkStates
<1>4. CASE \E w \in Writers : Get(w)
  <2>1. Fated(queue[1], "taken") /\ alerts[queue[1]].fate = "queued"
    BY <1>4, GetFates
  <2> QED
    BY <1>0, <2>1, SinkFated, SinkStates
<1>5. CASE \E w \in Writers : Decides(w)
  <2>1. PICK w \in Writers, fate \in {"unmatched", "detached", "suppressed", "stored", "uncommitted"} :
           Fated(held[w], fate) /\ alerts[held[w]].fate \in {"taken", "unmatched"}
    BY <1>5, DecidesFates
  <2> QED
    BY <1>0, <2>1, SinkFated, SinkStates
<1> QED
  BY <1>1, <1>2, <1>3, <1>4, <1>5, Steps

(* The detector accepts, stores and drops alerts as AlertSink says: with one     *)
(* thread in on_flow_complete, for any number of keys, rules and writers, and    *)
(* through every failure, two alerts of a key are a window apart whatever the    *)
(* cleanup removed, and each is stored at most once or dropped for good.         *)
THEOREM PipelineIsSink == ASSUME OneCaller PROVE Spec => ImplementsSink
<1>1. Init => OrderInv
  <2>1. Init => AlertIds = {}
    <3>1. <<>> \in Seq({}) /\ Len(<<>>) = 0
      BY EmptySeq
    <3>2. DOMAIN <<>> = 1..0
      BY <3>1, LenProperties
    <3> QED
      BY <3>2 DEF Init, AlertIds
  <2> QED
    BY <2>1 DEF Init, OrderInv
<1>2. TypeInv /\ OrderInv /\ [Next]_vars => OrderInv'
  BY OrderStep DEF TypeInv
<1>3. Init => Sink!Init
  <2>1. <<>> \in Seq({}) /\ Len(<<>>) = 0
    BY EmptySeq
  <2>2. DOMAIN <<>> = 1..0
    BY <2>1, LenProperties
  <2>3. ASSUME Init PROVE Mapped = <<>>
    <3>1. AlertIds = {} /\ DOMAIN <<>> = {}
      BY <2>2, <2>3 DEF Init, AlertIds
    <3>2. Mapped \in [1..0 -> {}]
      BY <3>1 DEF Mapped
    <3>3. Mapped \in Seq({}) /\ Len(Mapped) = 0
      BY <3>2, SeqDef, LenProperties
    <3> QED
      BY <3>3, EmptySeq
  <2> QED
    BY <2>3 DEF Sink!Init, Mapped
<1>4. TypeInv /\ OrderInv /\ [Next]_vars => [Sink!Next]_Mapped
  BY SinkStep DEF TypeInv
<1> QED
  BY <1>1, <1>2, <1>3, <1>4, TypeInvariant, PTL DEF Spec, ImplementsSink, Sink!Spec, Mapped
=============================================================================
