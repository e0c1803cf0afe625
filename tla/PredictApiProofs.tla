-------------------------- MODULE PredictApiProofs --------------------------
(* Proofs about PredictApi, for every value of its constants. *)
EXTENDS PredictApi, SequenceTheorems, FiniteSetTheorems, WellFoundedInduction, TLAPS

(* The types proper; HoldsOK relates them and is the inductive part of TypeOK. *)
Types == WorldOK /\ CacheOK /\ TablesOK /\ DraftsOK /\ RequestsOK

AlertIds == DOMAIN alerts

LEMMA Parameters ==
    /\ NoRequest \notin Requests
    /\ \A ip \in IPs : ip \in Mentions[ip]
    /\ \A ip \in IPs : \A r \in Readings[ip] : r.attack \in Attacks
    /\ Lifetimes \subseteq Nat
    /\ DedupWindow \in Nat /\ CacheTTL \in Nat /\ MaxTime \in Nat /\ StartTime \in Nat
    /\ CacheTTL > 0 /\ StartTime <= MaxTime /\ StartTime > DedupWindow
<1>1. /\ DedupWindow \in Nat /\ MaxTime \in Nat /\ CacheTTL \in Nat \ {0}
      /\ StartTime \in 0..MaxTime /\ StartTime > DedupWindow
  BY PredictApiAssumption DEF PredictApiAssumption
<1>2. CacheTTL \in Nat /\ CacheTTL > 0 /\ StartTime \in Nat /\ StartTime <= MaxTime
  BY <1>1
<1> QED
  BY <1>1, <1>2, PredictApiAssumption DEF PredictApiAssumption

LEMMA TableFacts ==
    ASSUME TablesOK
    PROVE  /\ Len(alerts) \in Nat /\ AlertIds = 1..Len(alerts)
           /\ \A a \in AlertIds : alerts[a] \in AlertRow
           /\ Len(incidents) \in Nat /\ DOMAIN incidents = 1..Len(incidents)
           /\ \A i \in 1..Len(incidents) : incidents[i] \in Incident
BY LenProperties, ElementOfSeq DEF TablesOK, AlertIds

-----------------------------------------------------------------------------
(* What a step makes of the alerts and of the request that takes it.       *)

(* Alert a gets a fate; the rows of the others may be linked to an incident. *)
Fated(a, fate) ==
    /\ a \in AlertIds /\ AlertIds' = AlertIds /\ alerts' \in Seq(AlertRow)
    /\ Len(alerts') = Len(alerts) /\ alerts'[a].fate = fate
    /\ \A b \in AlertIds : alerts'[b].key = alerts[b].key /\ alerts'[b].time = alerts[b].time
    /\ \A b \in AlertIds : b # a => alerts'[b].fate = alerts[b].fate

Quiet == UNCHANGED <<alerts, pc, req>>

(* The request goes on with its alert as it is. *)
Stays(q) ==
    /\ UNCHANGED alerts /\ pc[q] \in Working
    /\ \E label \in Working : pc' = [pc EXCEPT ![q] = label] /\ FateAt(label) = FateAt(pc[q])
    /\ \E new \in Locals : /\ req' = [req EXCEPT ![q] = new] /\ new.alert = req[q].alert
                           /\ new.readAt \in {req[q].readAt, now}
                           /\ Lookup(q) \/ new.incident = req[q].incident
    /\ pc[q] \notin {"commit", "announce"} /\ pc'[q] # "announce"

(* The request decides about its alert and goes on. *)
Moves(q) ==
    /\ UNCHANGED req /\ pc[q] \in Working
    /\ \E label \in {"rollback", "correlate", "announce"} :
                              /\ pc' = [pc EXCEPT ![q] = label] /\ label \in Working
                              /\ label = "announce" <=> pc[q] = "commit"
                              /\ Fated(MyAlert(q), FateAt(label))
                              /\ FateAt(pc[q]) \in {"open", "unmatched"}
    /\ UseCache(q) \/ Fill(q) \/ Commit(q)

Leaves(q) ==
    /\ pc[q] \in Working /\ pc' = [pc EXCEPT ![q] = "idle"] /\ req' = [req EXCEPT ![q] = Idle]

Ends(q)  == UNCHANGED alerts /\ Leaves(q)
Fails(q) == /\ Fated(MyAlert(q), "failed") /\ Leaves(q)
            /\ FateAt(pc[q]) \in {"open", "unmatched"}

LEMMA FateValues ==
    /\ \A label \in {"flush", "check", "query", "fill"} : label \in Working /\ FateAt(label) = "open"
    /\ \A label \in {"correlate", "lookup", "commit"} : label \in Working /\ FateAt(label) = "unmatched"
    /\ "rollback" \in Working /\ FateAt("rollback") = "suppressed"
    /\ "announce" \in Working /\ FateAt("announce") = "stored"
    /\ "idle" \notin Working
    /\ \A label \in Working : FateAt(label) \in Fates
BY DEF FateAt, Working, Fates

LEMMA SetFateFates ==
    ASSUME TablesOK, NEW a \in AlertIds, NEW fate \in Fates, SetFate(a, fate)
    PROVE  Fated(a, fate)
<1> DEFINE new == [alerts[a] EXCEPT !.fate = fate]
<1>1. new \in AlertRow /\ new.key = alerts[a].key /\ new.time = alerts[a].time /\ new.fate = fate
  BY TableFacts DEF AlertRow
<1>2. alerts' = [alerts EXCEPT ![a] = new]
  BY DEF SetFate
<1>3. alerts \in Seq(AlertRow) /\ a \in 1..Len(alerts)
  BY TableFacts DEF TablesOK
<1> HIDE DEF new
<1>4. /\ alerts' \in Seq(AlertRow) /\ Len(alerts') = Len(alerts)
      /\ \A b \in 1..Len(alerts) : alerts'[b] = IF b = a THEN new ELSE alerts[b]
  BY <1>1, <1>2, <1>3, ExceptSeq
<1>5. AlertIds' = AlertIds /\ AlertIds = 1..Len(alerts)
  BY <1>4, TableFacts, LenProperties DEF AlertIds
<1> QED
  BY <1>1, <1>4, <1>5 DEF Fated

LEMMA FailFates ==
    ASSUME TablesOK, HoldsOK, NEW q \in Requests, Fail(q), pc[q] \in Working,
           FateAt(pc[q]) \in {"open", "unmatched"}
    PROVE  Fails(q)
<1>1. SetFate(MyAlert(q), "failed") /\ pc' = [pc EXCEPT ![q] = "idle"] /\ req' = [req EXCEPT ![q] = Idle]
  BY DEF Fail, End, Goto
<1>2. MyAlert(q) \in AlertIds /\ "failed" \in Fates
  BY DEF HoldsOK, AlertIds, Fates
<1>3. Fated(MyAlert(q), "failed")
  BY <1>1, <1>2, SetFateFates
<1> QED
  BY <1>1, <1>3 DEF Fails, Leaves

(* The loop over the rules: raises, suppresses, or finds no rule. *)
LEMMA MatchFates ==
    ASSUME TablesOK, HoldsOK, NEW q \in Requests, pc[q] \in {"check", "fill"},
           NEW rows, NEW readable, Match(q, rows, readable), UseCache(q) \/ Fill(q)
    PROVE  Fails(q) \/ Moves(q)
<1>0. pc[q] \in Working /\ FateAt(pc[q]) = "open" /\ MyAlert(q) \in AlertIds
  BY FateValues DEF HoldsOK, AlertIds
<1>1. CASE Fail(q)
  BY <1>0, <1>1, FailFates
<1>2. CASE SetFate(MyAlert(q), "suppressed") /\ Goto(q, "rollback") /\ UNCHANGED req
  <2>1. Fated(MyAlert(q), "suppressed")
    BY <1>0, <1>2, SetFateFates DEF Fates
  <2> QED
    BY <1>0, <1>2, <2>1, FateValues DEF Moves, Goto
<1>3. CASE SetFate(MyAlert(q), "unmatched") /\ Goto(q, "correlate") /\ UNCHANGED req
  <2>1. Fated(MyAlert(q), "unmatched")
    BY <1>0, <1>3, SetFateFates DEF Fates
  <2> QED
    BY <1>0, <1>3, <2>1, FateValues DEF Moves, Goto
<1> QED
  BY <1>1, <1>2, <1>3 DEF Match

(* The commit stores the alert and links the recent ones to its incident. *)
LEMMA CommitFates ==
    ASSUME TablesOK, RequestsOK, HoldsOK, NEW q \in Requests, Commit(q)
    PROVE  Moves(q)
<1> DEFINE number == IF req[q].incident = NewIncident THEN Len(incidents) + 1 ELSE req[q].incident
           stored(a) == [alerts[a] EXCEPT !.fate = "stored", !.incident = number]
           linked(a) == [alerts[a] EXCEPT !.incident = number]
<1>0. pc[q] = "commit" /\ pc[q] \in Working /\ FateAt(pc[q]) = "unmatched" /\ MyAlert(q) \in AlertIds
  BY FateValues DEF Commit, HoldsOK, AlertIds
<1>1. number \in Numbers
  <2>1. req[q].incident \in Numbers
    BY DEF RequestsOK, Locals
  <2> QED
    BY <2>1, TableFacts DEF Numbers
<1>2. alerts' = [a \in AlertIds |-> IF a = MyAlert(q) THEN stored(a)
                                    ELSE IF a \in req[q].recent THEN linked(a) ELSE alerts[a]]
  BY DEF Commit, AlertIds
<1> HIDE DEF number
<1>3. \A a \in AlertIds : /\ stored(a) \in AlertRow /\ linked(a) \in AlertRow
                          /\ stored(a).key = alerts[a].key /\ stored(a).time = alerts[a].time
                          /\ linked(a).key = alerts[a].key /\ linked(a).time = alerts[a].time
                          /\ stored(a).fate = "stored" /\ linked(a).fate = alerts[a].fate
  BY <1>1, TableFacts DEF AlertRow, Fates
<1> HIDE DEF stored, linked
<1>4. alerts' \in [1..Len(alerts) -> AlertRow] /\ Len(alerts) \in Nat
  BY <1>2, <1>3, TableFacts
<1>5. alerts' \in Seq(AlertRow)
  BY <1>4, SeqDef
<1>6. Len(alerts') = Len(alerts) /\ AlertIds' = AlertIds
  BY <1>4, <1>5, LenProperties, TableFacts DEF AlertIds
<1>7. Fated(MyAlert(q), "stored")
  BY <1>0, <1>2, <1>3, <1>5, <1>6 DEF Fated
<1> QED
  BY <1>0, <1>7, FateValues DEF Moves, Commit, Goto, Fates

LEMMA StaysWith ==
    ASSUME Types, NEW q \in Requests, NEW label \in {"check", "query", "fill", "lookup", "commit"},
           NEW new \in Locals, pc' = [pc EXCEPT ![q] = label], req' = [req EXCEPT ![q] = new],
           new.alert = req[q].alert, new.readAt \in {req[q].readAt, now},
           Lookup(q) \/ new.incident = req[q].incident, UNCHANGED alerts,
           pc[q] \in {"flush", "check", "query", "correlate", "lookup"},
           FateAt(label) = FateAt(pc[q])
    PROVE  Stays(q)
<1>1. pc[q] \in Working /\ label \in Working /\ pc[q] \notin {"commit", "announce"}
  BY FateValues
<1>2. pc'[q] = label
  BY DEF Types, RequestsOK
<1> QED
  BY <1>1, <1>2 DEF Stays

LEMMA Staying ==
    ASSUME Types, HoldsOK, NEW q \in Requests,
           \/ Flush(q) /\ ~Fail(q)
           \/ StartRefresh(q)
           \/ Query(q) /\ ~Fail(q)
           \/ Count(q)
           \/ Lookup(q)
    PROVE  Stays(q)
<1>0. req \in [Requests -> Locals] /\ req[q] \in Locals /\ now \in Nat
      /\ req = [req EXCEPT ![q] = req[q]]
  BY Parameters DEF Types, RequestsOK, WorldOK
<1>1. CASE Flush(q) /\ ~Fail(q)
  <2>1. UNCHANGED <<alerts, req>> /\ pc[q] = "flush" /\ pc' = [pc EXCEPT ![q] = "check"]
    BY <1>1 DEF Flush, Goto
  <2> QED
    BY <1>0, <2>1, StaysWith, FateValues
<1>2. CASE StartRefresh(q)
  <2> DEFINE new == [req[q] EXCEPT !.readAt = now]
  <2>1. /\ new \in Locals /\ new.alert = req[q].alert /\ new.readAt = now
        /\ new.incident = req[q].incident /\ req' = [req EXCEPT ![q] = new]
    BY <1>0, <1>2 DEF StartRefresh, Locals
  <2>2. UNCHANGED alerts /\ pc[q] = "check" /\ pc' = [pc EXCEPT ![q] = "query"]
    BY <1>2 DEF StartRefresh, Goto, tableVars
  <2> HIDE DEF new
  <2> QED
    BY <2>1, <2>2, StaysWith, FateValues
<1>3. CASE Query(q) /\ ~Fail(q)
  <2> DEFINE new == [req[q] EXCEPT !.read = {r \in Rules : Active(r)}]
  <2>1. /\ new \in Locals /\ new.alert = req[q].alert /\ new.readAt = req[q].readAt
        /\ new.incident = req[q].incident /\ req' = [req EXCEPT ![q] = new]
    BY <1>0, <1>3 DEF Query, Locals
  <2>2. UNCHANGED alerts /\ pc[q] = "query" /\ pc' = [pc EXCEPT ![q] = "fill"]
    BY <1>3 DEF Query, Goto
  <2> HIDE DEF new
  <2> QED
    BY <2>1, <2>2, StaysWith, FateValues
<1>4. CASE Count(q)
  <2>0. UNCHANGED alerts /\ pc[q] = "correlate"
    BY <1>4 DEF Count, tableVars
  <2>1. CASE req' = req /\ pc' = [pc EXCEPT ![q] = "commit"]
    BY <1>0, <2>0, <2>1, StaysWith, FateValues
  <2>2. CASE /\ req' = [req EXCEPT ![q].recent = {a \in RecentAlerts(q) : alerts[a].incident = 0}]
             /\ pc' = [pc EXCEPT ![q] = "lookup"]
    <3> DEFINE new == [req[q] EXCEPT !.recent = {a \in RecentAlerts(q) : alerts[a].incident = 0}]
    <3>1. RecentAlerts(q) \subseteq Nat
      <4>1. AlertIds \subseteq Nat
        BY TableFacts DEF Types
      <4> QED
        BY <4>1 DEF RecentAlerts, AlertIds
    <3>2. /\ new \in Locals /\ new.alert = req[q].alert /\ new.readAt = req[q].readAt
          /\ new.incident = req[q].incident
      BY <1>0, <3>1 DEF Locals
    <3>3. req' = [req EXCEPT ![q] = new]
      BY <1>0, <2>2
    <3> HIDE DEF new
    <3> QED
      BY <2>0, <2>2, <3>2, <3>3, StaysWith, FateValues
  <2> QED
    BY <1>4, <2>1, <2>2 DEF Count, Goto
<1>5. CASE Lookup(q)
  <2>0. UNCHANGED alerts /\ pc[q] = "lookup" /\ pc' = [pc EXCEPT ![q] = "commit"]
    BY <1>5 DEF Lookup, Goto, tableVars
  <2>1. ASSUME NEW new \in Locals, req' = [req EXCEPT ![q] = new], new.alert = req[q].alert,
               new.readAt = req[q].readAt
        PROVE  Stays(q)
    BY <1>5, <2>0, <2>1, StaysWith, FateValues
  <2>2. CASE req' = [req EXCEPT ![q].incident = NewIncident,
                                ![q].looked = [seen |-> Len(incidents), at |-> now]]
    <3> DEFINE new == [req[q] EXCEPT !.incident = NewIncident, !.looked = [seen |-> Len(incidents), at |-> now]]
    <3>1. new \in Locals /\ new.alert = req[q].alert /\ new.readAt = req[q].readAt
      BY <1>0, TableFacts DEF Types, Locals, Numbers
    <3>2. req' = [req EXCEPT ![q] = new]
      BY <1>0, <2>2
    <3> QED
      BY <2>1, <3>1, <3>2
  <2>3. ASSUME NEW i \in DOMAIN incidents, req' = [req EXCEPT ![q].incident = i, ![q].recent = {}]
        PROVE  Stays(q)
    <3> DEFINE new == [req[q] EXCEPT !.incident = i, !.recent = {}]
    <3>1. i \in Nat
      BY TableFacts DEF Types
    <3>2. new \in Locals /\ new.alert = req[q].alert /\ new.readAt = req[q].readAt
      BY <1>0, <3>1 DEF Locals, Numbers
    <3>3. req' = [req EXCEPT ![q] = new]
      BY <1>0, <2>3
    <3> QED
      BY <2>1, <3>2, <3>3
  <2> QED
    BY <1>5, <2>2, <2>3 DEF Lookup, OpenIncidents
<1> QED
  BY <1>1, <1>2, <1>3, <1>4, <1>5

(* Every step of a request after its first, and every other step. *)
LEMMA RequestKinds ==
    ASSUME Types, HoldsOK, NEW q \in Requests, RequestStep(q)
    PROVE  Stays(q) \/ Moves(q) \/ Ends(q) \/ Fails(q)
<1> USE FateValues DEF Types
<1>1. CASE Flush(q) \/ Query(q)
  <2>1. CASE Fail(q)
    BY <1>1, <2>1, FailFates DEF Flush, Query
  <2>2. CASE ~Fail(q)
    BY <1>1, <2>2, Staying
  <2> QED
    BY <2>1, <2>2
<1>2. CASE StartRefresh(q) \/ Count(q) \/ Lookup(q)
  BY <1>2, Staying
<1>3. CASE UseCache(q)
  BY <1>3, MatchFates DEF UseCache
<1>4. CASE Fill(q)
  BY <1>4, MatchFates DEF Fill
<1>5. CASE Commit(q)
  BY <1>5, CommitFates
<1>6. CASE CommitFails(q)
  BY <1>6, FailFates DEF CommitFails
<1>7. CASE Rollback(q) \/ Announce(q)
  BY <1>7 DEF Rollback, Announce, Ends, Leaves, End, Goto, tableVars
<1> QED
  BY <1>1, <1>2, <1>3, <1>4, <1>5, <1>6, <1>7 DEF RequestStep

World == Tick \/ Invalidate \/ (\E r \in Rules : CreateRule(r) \/ DeleteRule(r))

Edits == \E e \in Analysts : WriteIncident(e) \/ \E i \in DOMAIN incidents : ReadIncident(e, i)

LEMMA Steps ==
    ASSUME Types, HoldsOK, [Next]_vars
    PROVE  Quiet \/ \E q \in Requests : Fire(q) \/ Stays(q) \/ Moves(q) \/ Ends(q) \/ Fails(q)
<1>1. CASE \E q \in Requests : Answer(q)
  BY <1>1 DEF Answer, Quiet, tableVars
<1>2. CASE World \/ Edits \/ UNCHANGED vars
  BY <1>2 DEF World, Edits, Tick, Invalidate, CreateRule, DeleteRule, ReadIncident, WriteIncident, Quiet,
              tableVars, vars
<1> QED
  BY <1>1, <1>2, RequestKinds DEF Next, World, Edits

(* A request fires: a new alert is appended, its key takes the current time. *)
NewAlert(k) == [key |-> k, time |-> now, fate |-> "open", incident |-> 0]

LEMMA FireAppends ==
    ASSUME Types, NEW q \in Requests, Fire(q)
    PROVE  \E k \in Keys :
              /\ ~Repeats(k) /\ dedup' = [dedup EXCEPT ![k] = now] /\ now' = now
              /\ alerts' = Append(alerts, NewAlert(k)) /\ alerts' \in Seq(AlertRow)
              /\ Len(alerts') = Len(alerts) + 1
              /\ AlertIds' = AlertIds \cup {Len(alerts) + 1} /\ Len(alerts) + 1 \notin AlertIds
              /\ \A a \in AlertIds : alerts'[a] = alerts[a]
              /\ alerts'[Len(alerts) + 1].key = k /\ alerts'[Len(alerts) + 1].time = now
              /\ alerts'[Len(alerts) + 1].fate = "open"
              /\ pc[q] = "idle" /\ pc' = [pc EXCEPT ![q] = "flush"]
              /\ \E new \in Locals : /\ new.alert = Len(alerts) + 1 /\ new.incident = 0
                                     /\ new.readAt = 0 /\ req' = [req EXCEPT ![q] = new]
              /\ UNCHANGED <<analystVars, cacheVars, incidents>>
<1>0. PICK ip \in IPs : \E reading \in Readings[ip] :
         LET k == <<ip, reading.attack>>
         IN  /\ ~Repeats(k) /\ dedup' = [dedup EXCEPT ![k] = now]
             /\ alerts' = Append(alerts, [key |-> k, time |-> now, fate |-> "open", incident |-> 0])
  BY DEF Fire
<1>1. PICK reading \in Readings[ip] :
         LET k == <<ip, reading.attack>>
         IN  /\ ~Repeats(k) /\ dedup' = [dedup EXCEPT ![k] = now]
             /\ alerts' = Append(alerts, [key |-> k, time |-> now, fate |-> "open", incident |-> 0])
  BY <1>0
<1>2. PICK k \in Keys : k = <<ip, reading.attack>>
  BY Parameters DEF Keys
<1>3. now \in 0..MaxTime /\ now \in Nat
  <2>1. now \in StartTime..MaxTime
    BY DEF Types, WorldOK
  <2> QED
    BY <2>1, Parameters
<1>4. NewAlert(k) \in AlertRow
  BY <1>3 DEF NewAlert, AlertRow, Fates, Numbers
<1>5. alerts' = Append(alerts, NewAlert(k)) /\ alerts \in Seq(AlertRow)
  BY <1>1, <1>2 DEF NewAlert, Types, TablesOK
<1>6. /\ alerts' \in Seq(AlertRow) /\ Len(alerts') = Len(alerts) + 1
      /\ \A a \in 1..Len(alerts) : alerts'[a] = alerts[a]
      /\ alerts'[Len(alerts) + 1] = NewAlert(k)
  BY <1>4, <1>5, AppendProperties
<1>7. DOMAIN alerts' = 1..(Len(alerts) + 1) /\ Len(alerts) \in Nat /\ DOMAIN alerts = 1..Len(alerts)
  BY <1>5, <1>6, LenProperties
<1>8. \E new \in Locals : /\ new.alert = Len(alerts) + 1 /\ new.incident = 0
                          /\ new.readAt = 0 /\ req' = [req EXCEPT ![q] = new]
  <2> DEFINE new == [Idle EXCEPT !.alert = Len(alerts) + 1]
  <2>1. new \in Locals /\ new.alert = Len(alerts) + 1 /\ new.incident = 0 /\ new.readAt = 0
    BY <1>7 DEF Idle, Locals, Numbers
  <2>2. req' = [req EXCEPT ![q] = new]
    BY DEF Fire
  <2> QED
    BY <2>1, <2>2
<1>9. /\ pc[q] = "idle" /\ pc' = [pc EXCEPT ![q] = "flush"] /\ now' = now
      /\ UNCHANGED <<analystVars, cacheVars, incidents>>
  BY DEF Fire, Goto
<1>10. /\ AlertIds' = AlertIds \cup {Len(alerts) + 1} /\ Len(alerts) + 1 \notin AlertIds
       /\ \A a \in AlertIds : alerts'[a] = alerts[a]
       /\ alerts'[Len(alerts) + 1].key = k /\ alerts'[Len(alerts) + 1].time = now
       /\ alerts'[Len(alerts) + 1].fate = "open"
  BY <1>6, <1>7 DEF AlertIds, NewAlert
<1>11. ~Repeats(k) /\ dedup' = [dedup EXCEPT ![k] = now]
  BY <1>1, <1>2
<1> QED
  BY <1>5, <1>6, <1>8, <1>9, <1>10, <1>11

LEMMA HoldsStep ==
    ASSUME Types, HoldsOK, [Next]_vars
    PROVE  HoldsOK'
<1>0. pc \in [Requests -> {"idle"} \cup Working] /\ req \in [Requests -> Locals]
  BY DEF Types, RequestsOK
<1>1. CASE Quiet
  BY <1>1 DEF Quiet, HoldsOK, MyAlert
<1>2. ASSUME NEW q \in Requests, Fire(q)
      PROVE  HoldsOK'
  <2>1. /\ AlertIds' = AlertIds \cup {Len(alerts) + 1} /\ Len(alerts) + 1 \notin AlertIds
        /\ \A a \in AlertIds : alerts'[a] = alerts[a]
        /\ alerts'[Len(alerts) + 1].fate = "open"
        /\ pc' = [pc EXCEPT ![q] = "flush"]
        /\ \E new \in Locals : new.alert = Len(alerts) + 1 /\ req' = [req EXCEPT ![q] = new]
    BY <1>2, FireAppends
  <2>2. \A p \in Requests : p # q => pc'[p] = pc[p] /\ MyAlert(p)' = MyAlert(p)
    BY <1>0, <2>1 DEF MyAlert
  <2>3. pc'[q] = "flush" /\ MyAlert(q)' = Len(alerts) + 1
    BY <1>0, <2>1 DEF MyAlert
  <2> QED
    BY <2>1, <2>2, <2>3, FateValues DEF HoldsOK, AlertIds
<1>3. ASSUME NEW q \in Requests, Stays(q)
      PROVE  HoldsOK'
  <2>1. \A p \in Requests : p # q => pc'[p] = pc[p] /\ MyAlert(p)' = MyAlert(p)
    BY <1>0, <1>3 DEF Stays, MyAlert
  <2>2. MyAlert(q)' = MyAlert(q) /\ FateAt(pc'[q]) = FateAt(pc[q]) /\ pc[q] \in Working
    BY <1>0, <1>3 DEF Stays, MyAlert
  <2>3. alerts' = alerts
    BY <1>3 DEF Stays
  <2> QED
    BY <2>1, <2>2, <2>3 DEF HoldsOK
<1>4. ASSUME NEW q \in Requests, NEW fate, Fated(MyAlert(q), fate), pc[q] \in Working,
             \A p \in Requests : p # q => pc'[p] = pc[p] /\ MyAlert(p)' = MyAlert(p),
             pc'[q] \in Working => FateAt(pc'[q]) = fate /\ MyAlert(q)' = MyAlert(q)
      PROVE  HoldsOK'
  <2>1. \A p \in Requests : p # q /\ pc[p] \in Working => MyAlert(p) # MyAlert(q)
    BY <1>4 DEF HoldsOK
  <2> QED
    BY <1>4, <2>1 DEF HoldsOK, Fated, AlertIds
<1>5. ASSUME NEW q \in Requests, Moves(q)
      PROVE  HoldsOK'
  <2>1. PICK label \in Working : /\ pc' = [pc EXCEPT ![q] = label]
                                 /\ Fated(MyAlert(q), FateAt(label))
    BY <1>5 DEF Moves
  <2>2. /\ \A p \in Requests : p # q => pc'[p] = pc[p]
        /\ \A p \in Requests : MyAlert(p)' = MyAlert(p)
        /\ pc'[q] = label /\ pc[q] \in Working
    BY <1>0, <1>5, <2>1 DEF Moves, MyAlert
  <2> QED
    BY <1>4, <2>1, <2>2
<1>6. ASSUME NEW q \in Requests, Leaves(q)
      PROVE  /\ \A p \in Requests : p # q => pc'[p] = pc[p] /\ MyAlert(p)' = MyAlert(p)
             /\ pc'[q] \notin Working /\ pc[q] \in Working
  BY <1>0, <1>6, FateValues DEF Leaves, MyAlert
<1>7. ASSUME NEW q \in Requests, Fails(q)
      PROVE  HoldsOK'
  BY <1>4, <1>6, <1>7 DEF Fails
<1>8. ASSUME NEW q \in Requests, Ends(q)
      PROVE  HoldsOK'
  <2>1. alerts' = alerts
    BY <1>8 DEF Ends
  <2> QED
    BY <1>6, <1>8, <2>1 DEF Ends, HoldsOK
<1> QED
  BY <1>1, <1>2, <1>3, <1>5, <1>7, <1>8, Steps

-----------------------------------------------------------------------------
(* The types.                                                              *)

LEMMA TypeInit == Init => Types /\ HoldsOK
<1> SUFFICES ASSUME Init PROVE Types /\ HoldsOK
  OBVIOUS
<1> USE DEF Init
<1>1. WorldOK
  <2>1. now \in StartTime..MaxTime /\ 0 \in 0..now
    BY Parameters
  <2>2. rules \in [Rules -> [created : Nat, expires : Nat]] /\ dedup \in [Keys -> 0..now]
    BY <2>1
  <2> QED
    BY <2>1, <2>2 DEF WorldOK
<1>2. CacheOK
  BY Parameters DEF CacheOK
<1>3. TablesOK
  BY EmptySeq DEF TablesOK
<1>4. RequestsOK
  <2>1. Idle \in Locals /\ Idle.readAt = 0
    BY DEF Idle, Locals, Numbers
  <2>2. now \in Nat
    BY Parameters
  <2> QED
    BY <2>1, <2>2 DEF RequestsOK
<1>5. HoldsOK
  BY FateValues DEF HoldsOK
<1>6. DraftsOK
  BY DEF DraftsOK
<1> QED
  BY <1>1, <1>2, <1>3, <1>4, <1>5, <1>6 DEF Types

LEMMA WorldStep ==
    ASSUME Types, [Next]_vars
    PROVE  WorldOK' /\ now <= now' /\ now \in Nat /\ now' \in Nat
<1>0. /\ now \in StartTime..MaxTime /\ now \in Nat /\ editing \in BOOLEAN /\ dedup \in [Keys -> 0..now]
      /\ rules \in [Rules -> [created : Nat, expires : Nat]]
  BY Parameters DEF Types, WorldOK
<1>1. CASE \E q \in Requests : Fire(q)
  <2>1. PICK k \in Keys : dedup' = [dedup EXCEPT ![k] = now] /\ UNCHANGED <<now, rules, editing>>
    BY <1>1, FireAppends DEF analystVars
  <2>2. dedup' \in [Keys -> 0..now]
    BY <1>0, <2>1
  <2> QED
    BY <1>0, <2>1, <2>2 DEF WorldOK
<1>2. CASE Tick
  <2>1. /\ now' = now + 1 /\ now < MaxTime /\ UNCHANGED <<dedup, rules, editing>>
    BY <1>2 DEF Tick, analystVars
  <2>2. now' \in StartTime..MaxTime /\ 0..now \subseteq 0..now'
    BY <1>0, <2>1, Parameters
  <2> QED
    BY <1>0, <2>1, <2>2 DEF WorldOK
<1>3. ASSUME NEW r \in Rules, CreateRule(r)
      PROVE  WorldOK' /\ now' = now
  <2>1. PICK life \in Lifetimes : rules' = [rules EXCEPT ![r] = [created |-> now, expires |-> now + life]]
    BY <1>3 DEF CreateRule
  <2>2. now + life \in Nat
    BY <1>0, Parameters
  <2>3. rules' \in [Rules -> [created : Nat, expires : Nat]]
    BY <1>0, <2>1, <2>2
  <2>4. UNCHANGED <<now, dedup>> /\ editing' = TRUE
    BY <1>3 DEF CreateRule
  <2> QED
    BY <1>0, <2>3, <2>4 DEF WorldOK
<1>4. ASSUME NEW r \in Rules, DeleteRule(r)
      PROVE  WorldOK' /\ now' = now
  <2>1. rules' = [rules EXCEPT ![r] = [rules[r] EXCEPT !.expires = now]]
    BY <1>4 DEF DeleteRule
  <2>2. rules' \in [Rules -> [created : Nat, expires : Nat]]
    BY <1>0, <2>1
  <2>3. UNCHANGED <<now, dedup>> /\ editing' = TRUE
    BY <1>4 DEF DeleteRule
  <2> QED
    BY <1>0, <2>2, <2>3 DEF WorldOK
<1>5. CASE Invalidate
  <2>1. UNCHANGED <<now, rules, dedup>> /\ editing' \in BOOLEAN
    BY <1>5 DEF Invalidate
  <2> QED
    BY <1>0, <2>1 DEF WorldOK
<1>6. CASE UNCHANGED <<now, dedup, rules, editing>>
  BY <1>0, <1>6 DEF WorldOK
<1>7. ASSUME NEW q \in Requests, Answer(q) \/ RequestStep(q)
      PROVE  UNCHANGED <<now, dedup, rules, editing>>
  BY <1>7 DEF Answer, RequestStep, Flush, UseCache, StartRefresh, Query, Fill, Rollback, Count,
              Lookup, Commit, CommitFails, Announce, analystVars
<1>8. CASE Edits \/ UNCHANGED vars
  BY <1>6, <1>8 DEF Edits, ReadIncident, WriteIncident, vars, analystVars
<1> QED
  BY <1>0, <1>1, <1>2, <1>3, <1>4, <1>5, <1>6, <1>7, <1>8 DEF Next, Edits

LEMMA RequestsStep ==
    ASSUME Types, HoldsOK, [Next]_vars
    PROVE  RequestsOK'
<1>0. /\ pc \in [Requests -> {"idle"} \cup Working] /\ req \in [Requests -> Locals]
      /\ \A q \in Requests : req[q].readAt <= now /\ req[q].readAt \in Nat
      /\ now <= now' /\ now \in Nat /\ now' \in Nat
  BY WorldStep DEF Types, RequestsOK, Locals
<1>1. CASE Quiet \/ \E q \in Requests : Moves(q)
  <2>1. req' = req /\ pc' \in [Requests -> {"idle"} \cup Working]
    BY <1>0, <1>1 DEF Quiet, Moves
  <2> QED
    BY <1>0, <2>1 DEF RequestsOK
<1>2. ASSUME NEW q \in Requests, NEW label \in {"idle"} \cup Working, NEW new \in Locals,
             pc' = [pc EXCEPT ![q] = label], req' = [req EXCEPT ![q] = new], new.readAt <= now
      PROVE  RequestsOK'
  <2>1. /\ pc' \in [Requests -> {"idle"} \cup Working] /\ req' \in [Requests -> Locals]
        /\ \A p \in Requests : req'[p] = IF p = q THEN new ELSE req[p]
    BY <1>0, <1>2
  <2>2. new.readAt \in Nat
    BY DEF Locals
  <2> QED
    BY <1>0, <1>2, <2>1, <2>2 DEF RequestsOK
<1>3. ASSUME NEW q \in Requests, Fire(q)
      PROVE  RequestsOK'
  <2>1. PICK new \in Locals : req' = [req EXCEPT ![q] = new] /\ new.readAt = 0
    BY <1>3, FireAppends
  <2>2. pc' = [pc EXCEPT ![q] = "flush"] /\ new.readAt <= now
    BY <1>0, <1>3, <2>1 DEF Fire, Goto
  <2> QED
    BY <1>2, <2>1, <2>2, FateValues
<1>4. ASSUME NEW q \in Requests, Stays(q)
      PROVE  RequestsOK'
  <2>1. PICK new \in Locals : /\ req' = [req EXCEPT ![q] = new] /\ new.readAt \in {req[q].readAt, now}
    BY <1>4 DEF Stays
  <2>2. new.readAt <= now
    BY <1>0, <2>1
  <2> QED
    BY <1>2, <1>4, <2>1, <2>2 DEF Stays
<1>5. ASSUME NEW q \in Requests, Ends(q) \/ Fails(q)
      PROVE  RequestsOK'
  <2>1. Idle \in Locals /\ Idle.readAt = 0
    BY DEF Idle, Locals, Numbers
  <2>2. pc' = [pc EXCEPT ![q] = "idle"] /\ req' = [req EXCEPT ![q] = Idle]
    BY <1>5 DEF Ends, Fails, Leaves
  <2>3. Idle.readAt <= now
    BY <1>0, <2>1
  <2> QED
    BY <1>2, <2>1, <2>2, <2>3
<1> QED
  BY <1>1, <1>3, <1>4, <1>5, Steps

(* The incidents change when a request opens one and when an analyst edits one. *)
Opens(q) == /\ pc[q] = "commit" /\ req[q].incident = NewIncident /\ UNCHANGED req
            /\ pc' = [pc EXCEPT ![q] = "announce"]
            /\ incidents' = Append(incidents, [ip |-> MyIp(q), status |-> "open", made |-> req[q].looked.at,
                                               seen |-> req[q].looked.seen, back |-> 0])

LEMMA IncidentSteps ==
    ASSUME [Next]_vars
    PROVE  incidents' = incidents \/ Edits \/ \E q \in Requests : Opens(q)
<1>1. ASSUME NEW q \in Requests, Commit(q)
      PROVE  incidents' = incidents \/ Opens(q)
  BY <1>1 DEF Commit, Opens, Goto
<1>2. ASSUME NEW q \in Requests, Answer(q) \/ Fire(q) \/ (RequestStep(q) /\ ~Commit(q))
      PROVE  incidents' = incidents
  BY <1>2 DEF Answer, Fire, RequestStep, Flush, UseCache, StartRefresh, Query, Fill, Rollback, Count,
              Lookup, CommitFails, Announce, tableVars
<1>3. CASE World \/ UNCHANGED vars
  BY <1>3 DEF World, Tick, Invalidate, CreateRule, DeleteRule, tableVars, vars
<1> QED
  BY <1>1, <1>2, <1>3 DEF Next, World, Edits

LEMMA OpensAppends ==
    ASSUME Types, HoldsOK, NEW q \in Requests, Opens(q)
    PROVE  /\ incidents' \in Seq(Incident) /\ Len(incidents') = Len(incidents) + 1
           /\ \A i \in 1..Len(incidents) : incidents'[i] = incidents[i]
           /\ incidents'[Len(incidents) + 1].ip = MyIp(q)
           /\ incidents'[Len(incidents) + 1].seen = req[q].looked.seen
<1> DEFINE new == [ip |-> MyIp(q), status |-> "open", made |-> req[q].looked.at,
                   seen |-> req[q].looked.seen, back |-> 0]
<1>1. MyAlert(q) \in AlertIds
  BY FateValues DEF Opens, HoldsOK, AlertIds
<1>2. alerts[MyAlert(q)] \in AlertRow
  BY <1>1, TableFacts DEF Types
<1>3. MyIp(q) \in IPs
  BY <1>2 DEF MyIp, MyKey, AlertRow, Keys
<1>4. req[q] \in Locals
  BY DEF Types, RequestsOK
<1>5. new \in Incident
  BY <1>3, <1>4 DEF Incident, Locals, Order
<1>6. new.ip = MyIp(q) /\ new.seen = req[q].looked.seen
  OBVIOUS
<1>7. incidents' = Append(incidents, new) /\ incidents \in Seq(Incident)
  BY DEF Opens, Types, TablesOK
<1> HIDE DEF new
<1> QED
  BY <1>5, <1>6, <1>7, AppendProperties

LEMMA EditsKeep ==
    ASSUME Types, Edits
    PROVE  /\ incidents' \in Seq(Incident) /\ Len(incidents') = Len(incidents)
           /\ \A i \in 1..Len(incidents) :
                 /\ incidents'[i].ip = incidents[i].ip /\ incidents'[i].seen = incidents[i].seen
                 /\ incidents'[i].back \in {incidents[i].back, Len(incidents)}
                 /\ \/ IsOpen(incidents'[i].status) => IsOpen(incidents[i].status)
                    \/ incidents'[i].back = Len(incidents)
<1>0. incidents \in Seq(Incident) /\ Len(incidents) \in Nat /\ DOMAIN incidents = 1..Len(incidents)
  BY TableFacts DEF Types, TablesOK
<1>1. CASE incidents' = incidents
  BY <1>0, <1>1
<1>2. ASSUME NEW e \in Analysts, WriteIncident(e), incidents' # incidents
      PROVE  \E i \in DOMAIN incidents, new \in Incident :
                /\ incidents' = [incidents EXCEPT ![i] = new]
                /\ new.ip = incidents[i].ip /\ new.seen = incidents[i].seen
                /\ new.back \in {incidents[i].back, Len(incidents)}
                /\ (IsOpen(new.status) => IsOpen(incidents[i].status)) \/ new.back = Len(incidents)
  <2> DEFINE i == drafts[e].incident
             reopens == IsOpen(drafts[e].status) /\ ~IsOpen(incidents[i].status)
             new == [incidents[i] EXCEPT !.status = drafts[e].status,
                                         !.back = IF reopens THEN Len(incidents) ELSE incidents[i].back]
  <2>1. drafts[e] \in [incident : DOMAIN incidents, status : DOMAIN Order]
    BY <1>2 DEF WriteIncident, Types, DraftsOK
  <2>2. i \in DOMAIN incidents /\ drafts[e].status \in DOMAIN Order
    BY <2>1
  <2>3. incidents[i] \in Incident
    BY <1>0, <2>2, ElementOfSeq
  <2>4. incidents' = [incidents EXCEPT ![i] = new]
    BY <1>2 DEF WriteIncident
  <2>5. /\ new \in Incident /\ new.ip = incidents[i].ip /\ new.seen = incidents[i].seen
        /\ new.status = drafts[e].status
        /\ new.back = IF reopens THEN Len(incidents) ELSE incidents[i].back
    BY <1>0, <2>2, <2>3 DEF Incident
  <2> HIDE DEF new
  <2> QED
    BY <2>2, <2>4, <2>5
<1>3. CASE \E e \in Analysts : WriteIncident(e) /\ incidents' # incidents
  <2>1. PICK i \in DOMAIN incidents, new \in Incident :
                /\ incidents' = [incidents EXCEPT ![i] = new]
                /\ new.ip = incidents[i].ip /\ new.seen = incidents[i].seen
                /\ new.back \in {incidents[i].back, Len(incidents)}
                /\ (IsOpen(new.status) => IsOpen(incidents[i].status)) \/ new.back = Len(incidents)
    BY <1>2, <1>3
  <2>2. /\ incidents' \in Seq(Incident) /\ Len(incidents') = Len(incidents)
        /\ \A j \in 1..Len(incidents) : incidents'[j] = IF j = i THEN new ELSE incidents[j]
    BY <1>0, <2>1, ExceptSeq
  <2> QED
    BY <2>1, <2>2
<1> QED
  BY <1>1, <1>3 DEF Edits, ReadIncident, tableVars

LEMMA TablesStep ==
    ASSUME Types, HoldsOK, [Next]_vars
    PROVE  TablesOK'
<1>0. alerts \in Seq(AlertRow) /\ incidents \in Seq(Incident)
  BY DEF Types, TablesOK
<1>1. alerts' \in Seq(AlertRow)
  <2>1. CASE \E q \in Requests : Fire(q)
    BY <2>1, FireAppends
  <2>2. CASE Quiet \/ \E q \in Requests : Stays(q) \/ Ends(q)
    BY <1>0, <2>2 DEF Quiet, Stays, Ends
  <2>3. CASE \E q \in Requests : Moves(q) \/ Fails(q)
    BY <2>3 DEF Moves, Fails, Fated
  <2> QED
    BY <2>1, <2>2, <2>3, Steps
<1>2. incidents' \in Seq(Incident)
  BY <1>0, IncidentSteps, OpensAppends, EditsKeep
<1> QED
  BY <1>1, <1>2 DEF TablesOK

(* What a step does to the cache of rules. *)
LEMMA CacheSteps ==
    ASSUME [Next]_vars
    PROVE  \/ UNCHANGED <<cache, cacheTs>>
           \/ Invalidate
           \/ \E q \in Requests : Fill(q)
<1>1. ASSUME NEW q \in Requests, Answer(q) \/ Fire(q) \/ (RequestStep(q) /\ ~Fill(q))
      PROVE  UNCHANGED <<cache, cacheTs>>
  BY <1>1 DEF Answer, Fire, RequestStep, Flush, UseCache, StartRefresh, Query, Rollback, Count,
              Lookup, Commit, CommitFails, Announce, cacheVars
<1>2. CASE Tick \/ Edits \/ (\E r \in Rules : CreateRule(r) \/ DeleteRule(r)) \/ UNCHANGED vars
  BY <1>2 DEF Tick, Edits, ReadIncident, WriteIncident, CreateRule, DeleteRule, cacheVars, vars
<1> QED
  BY <1>1, <1>2 DEF Next, RequestStep, Edits

(* Who holds the cache's lock, whose session its rules belong to, and whether   *)
(* they can be read.                                                            *)
LEMMA OwnerStep ==
    ASSUME Types, [Next]_vars
    PROVE  loaded' \in BOOLEAN /\ {owner', lock'} \subseteq Requests \cup {NoRequest}
<1>0. loaded \in BOOLEAN /\ owner \in Requests \cup {NoRequest} /\ lock \in Requests \cup {NoRequest}
  BY DEF Types, CacheOK
<1>1. ASSUME NEW q \in Requests, RequestStep(q)
      PROVE  /\ loaded' = loaded \/ ExpireRulesOf(q) \/ loaded' = TRUE
             /\ owner' \in {owner, q, NoRequest} /\ lock' \in {lock, q, NoRequest}
  BY <1>1 DEF RequestStep, Flush, UseCache, StartRefresh, Query, Fill, Rollback, Count, Lookup, Commit,
              CommitFails, Announce, Match, Fail, End, cacheVars
<1>2. CASE \E q \in Requests : RequestStep(q)
  <2>1. PICK q \in Requests : RequestStep(q)
    BY <1>2
  <2>2. loaded' \in BOOLEAN
    BY <1>0, <1>1, <2>1 DEF ExpireRulesOf
  <2> QED
    BY <1>0, <1>1, <2>1, <2>2
<1>3. CASE UNCHANGED <<owner, loaded, lock>>
  BY <1>0, <1>3
<1>4. CASE World \/ Edits \/ UNCHANGED vars \/ \E q \in Requests : Answer(q) \/ Fire(q)
  BY <1>3, <1>4 DEF World, Edits, Answer, Fire, Tick, Invalidate, CreateRule, DeleteRule,
                    ReadIncident, WriteIncident, cacheVars, vars
<1> QED
  BY <1>2, <1>4 DEF Next, World, Edits

LEMMA CacheStep ==
    ASSUME Types, HoldsOK, [Next]_vars
    PROVE  CacheOK'
<1>0. /\ cache \subseteq Rules /\ cacheTs \in 0..now /\ now \in Nat /\ now' \in Nat /\ now <= now'
  BY WorldStep DEF Types, CacheOK
<1>1. cache' \subseteq Rules /\ cacheTs' \in 0..now'
  <2>1. CASE UNCHANGED <<cache, cacheTs>>
    BY <1>0, <2>1
  <2>2. CASE Invalidate
    <3>1. cache' = cache /\ cacheTs' = 0
      BY <2>2 DEF Invalidate
    <3> QED
      BY <1>0, <3>1
  <2>3. ASSUME NEW q \in Requests, Fill(q)
        PROVE  cache' \subseteq Rules /\ cacheTs' \in 0..now'
    <3>1. cache' = req[q].read /\ cacheTs' = req[q].readAt
      BY <2>3 DEF Fill, Filled
    <3>2. req[q].readAt \in Nat /\ req[q].readAt <= now /\ req[q].read \subseteq Rules
      BY DEF Types, RequestsOK, Locals
    <3> QED
      BY <1>0, <3>1, <3>2
  <2> QED
    BY <2>1, <2>2, <2>3, CacheSteps
<1> QED
  BY <1>1, OwnerStep DEF CacheOK

(* What an analyst holds names an incident that exists and stays. *)
LEMMA DraftsStep ==
    ASSUME Types, HoldsOK, [Next]_vars
    PROVE  DraftsOK'
<1>0. /\ edits \in Nat /\ drafts \in [Analysts -> {NoDraft} \cup [incident : DOMAIN incidents, status : DOMAIN Order]]
      /\ Len(incidents) \in Nat /\ DOMAIN incidents = 1..Len(incidents)
  BY TableFacts DEF Types, DraftsOK
<1>1. DOMAIN incidents \subseteq DOMAIN incidents'
  <2>1. Len(incidents') \in Nat /\ DOMAIN incidents' = 1..Len(incidents')
    BY TablesStep, LenProperties DEF TablesOK
  <2>2. Len(incidents) <= Len(incidents')
    BY <1>0, IncidentSteps, OpensAppends, EditsKeep
  <2> QED
    BY <1>0, <2>1, <2>2
<1>2. CASE UNCHANGED <<drafts, edits>>
  BY <1>0, <1>1, <1>2 DEF DraftsOK
<1>3. ASSUME NEW e \in Analysts, WriteIncident(e)
      PROVE  DraftsOK'
  <2>1. drafts' = [drafts EXCEPT ![e] = NoDraft] /\ edits' = edits
    BY <1>3 DEF WriteIncident
  <2> QED
    BY <1>0, <1>1, <2>1 DEF DraftsOK
<1>4. ASSUME NEW e \in Analysts, NEW i \in DOMAIN incidents, ReadIncident(e, i)
      PROVE  DraftsOK'
  <2>1. PICK new \in DOMAIN Order : drafts' = [drafts EXCEPT ![e] = [incident |-> i, status |-> new]]
    BY <1>4 DEF ReadIncident
  <2>2. edits' = edits + 1
    BY <1>4 DEF ReadIncident
  <2> QED
    BY <1>0, <1>1, <2>1, <2>2 DEF DraftsOK
<1>5. CASE World \/ UNCHANGED vars \/ \E q \in Requests : Answer(q) \/ Fire(q) \/ RequestStep(q)
  BY <1>2, <1>5 DEF World, Tick, Invalidate, CreateRule, DeleteRule, Answer, Fire, RequestStep, Flush, UseCache,
              StartRefresh, Query, Fill, Rollback, Count, Lookup, Commit, CommitFails, Announce, analystVars, vars
<1> QED
  BY <1>3, <1>4, <1>5 DEF Next, World

LEMMA TypeStep ==
    ASSUME Types, HoldsOK, [Next]_vars
    PROVE  Types' /\ HoldsOK'
BY WorldStep, CacheStep, TablesStep, DraftsStep, RequestsStep, HoldsStep DEF Types

-----------------------------------------------------------------------------
(* The decay of repeated scores.                                           *)

(* Every nonempty set of numbers has a least one: the sets of the numbers below  *)
(* each are finite, and inclusion of finite sets is well-founded.                *)
LEMMA LeastNumber ==
    ASSUME NEW T, T \subseteq Nat, T # {}
    PROVE  \E m \in T : \A k \in T : m <= k
<1> DEFINE Below(m) == {n \in Nat : n < m}
           Sets == {Below(m) : m \in T}
           R == StrictSubsetOrdering(Nat)
<1>1. ASSUME NEW m \in Nat
      PROVE  Below(m) \in FiniteSubsetsOf(Nat)
  <2>1. IsFiniteSet(Below(m))
    BY FS_BoundedSetOfNaturals
  <2> QED
    BY <2>1 DEF FiniteSubsetsOf
<1>2. PICK x \in Sets : \A y \in Sets : ~(<<y, x>> \in R)
  <2> HIDE DEF Below, R
  <2>1. Sets \subseteq FiniteSubsetsOf(Nat) /\ Sets # {}
    BY <1>1
  <2>2. IsWellFoundedOn(R, FiniteSubsetsOf(Nat))
    BY FS_StrictSubsetOrderingWellFounded DEF R
  <2> QED
    BY <2>1, <2>2, WFMin
<1>3. PICK m \in T : x = Below(m)
  OBVIOUS
<1>4. ASSUME NEW k \in T, k < m
      PROVE  <<Below(k), Below(m)>> \in R
  <2>1. k \in Below(m) /\ k \notin Below(k) /\ Below(k) \subseteq Below(m)
    BY <1>4
  <2> QED
    BY <2>1 DEF StrictSubsetOrdering
<1>5. ASSUME NEW k \in T
      PROVE  ~(k < m)
  <2> HIDE DEF Below, R
  <2> QED
    BY <1>2, <1>3, <1>4
<1> QED
  BY <1>5

(* Request m is the last one of an address in log, and in its list. *)
Latest(lists, log, ip, m) == m \in lists[ip] /\ \A i \in DOMAIN log : log[i].ip = ip => i <= m

(* How the lists relate to the requests that were scored: a list has requests of *)
(* its address, the last one among them, and whoever asked later has a list too.  *)
Listed(lists, log) ==
    /\ DOMAIN log \subseteq Nat /\ \A i \in DOMAIN log : log[i].ip \in IPs
    /\ \A ip \in IPs : \A n \in lists[ip] : n \in DOMAIN log /\ log[n].ip = ip
    /\ \A ip \in Tracked(lists) : \E m \in DOMAIN log : Latest(lists, log, ip, m)
    /\ \A ip \in IPs : \A m, l \in DOMAIN log :
            Latest(lists, log, ip, m) /\ l > m => log[l].ip \in Tracked(lists)

LEMMA OldestExists ==
    ASSUME NEW lists, NEW log, Listed(lists, log), Tracked(lists) # {}
    PROVE  Oldest(lists) # {}
<1> DEFINE LastOnes == {m \in DOMAIN log : \E ip \in Tracked(lists) : Latest(lists, log, ip, m)}
<1>1. LastOnes \subseteq Nat /\ LastOnes # {}
  BY DEF Listed
<1>2. PICK m \in LastOnes : \A k \in LastOnes : m <= k
  BY <1>1, LeastNumber
<1>3. PICK ip \in Tracked(lists) : Latest(lists, log, ip, m)
  OBVIOUS
<1>4. ASSUME NEW x \in Tracked(lists) \ {ip}
      PROVE  \E n \in lists[x] : \A i \in lists[ip] : i < n
  <2>1. PICK k \in DOMAIN log : Latest(lists, log, x, k)
    BY DEF Listed
  <2>2. m <= k /\ m # k /\ m \in Nat /\ k \in Nat
    BY <1>1, <1>2, <1>3, <2>1 DEF Latest, Listed, Tracked
  <2>3. \A i \in lists[ip] : i \in Nat /\ i <= m
    BY <1>3 DEF Latest, Listed, Tracked
  <2> QED
    BY <2>1, <2>2, <2>3 DEF Latest
<1> QED
  BY <1>3, <1>4 DEF Oldest

(* An address whose request is later than all those of another is not the oldest. *)
LEMMA NotOldest ==
    ASSUME NEW lists, NEW log, Listed(lists, log), NEW ip \in Tracked(lists),
           NEW x \in Tracked(lists), x # ip, NEW n \in lists[ip], \A i \in lists[x] : i <= n
    PROVE  ip \notin Oldest(lists)
<1>1. n \in Nat /\ \A i \in lists[x] : i \in Nat
  BY DEF Listed, Tracked
<1>2. ASSUME ip \in Oldest(lists)
      PROVE  FALSE
  <2>1. PICK i \in lists[x] : \A m \in lists[ip] : m < i
    BY <1>2 DEF Oldest
  <2> QED
    BY <1>1, <2>1
<1> QED
  BY <1>2

(* The eviction keeps whole lists, no more than the capacity, and their order. *)
LEMMA BoundedLists ==
    ASSUME NEW lists \in [IPs -> SUBSET Nat], NEW log, Listed(lists, log),
           IsFiniteSet(Tracked(lists)), Cardinality(Tracked(lists)) <= MaxTracked + 1
    PROVE  /\ \A ip \in IPs : \/ Bounded(lists)[ip] = lists[ip]
                              \/ Bounded(lists)[ip] = {} /\ ip \in Oldest(lists)
           /\ IsFiniteSet(Tracked(Bounded(lists))) /\ Cardinality(Tracked(Bounded(lists))) <= MaxTracked
           /\ Listed(Bounded(lists), log)
<1> DEFINE full == Cardinality(Tracked(lists)) > MaxTracked
           kept == Bounded(lists)
<1>0. MaxTracked \in Nat \ {0} /\ Cardinality(Tracked(lists)) \in Nat
  BY FS_CardinalityType, PredictApiAssumption DEF PredictApiAssumption
<1>1. \A ip \in IPs : kept[ip] = IF full /\ ip \in Oldest(lists) THEN {} ELSE lists[ip]
  BY DEF Bounded
<1> HIDE DEF kept
<1>2. Tracked(kept) = Tracked(lists) \ (IF full THEN Oldest(lists) ELSE {})
  BY <1>1 DEF Tracked
<1>3. IsFiniteSet(Tracked(kept)) /\ Cardinality(Tracked(kept)) <= MaxTracked
  <2>1. CASE ~full
    <3>1. Tracked(kept) = Tracked(lists)
      BY <1>2, <2>1
    <3> QED
      BY <1>0, <2>1, <3>1
  <2>2. CASE full
    <3>1. Tracked(lists) # {}
      BY <1>0, <2>2, FS_EmptySet
    <3>2. PICK old \in Oldest(lists) : TRUE
      BY <3>1, OldestExists
    <3>3. old \in Tracked(lists) /\ Tracked(kept) \in SUBSET (Tracked(lists) \ {old})
      BY <1>2, <2>2, <3>2 DEF Oldest
    <3>4. /\ IsFiniteSet(Tracked(lists) \ {old})
          /\ Cardinality(Tracked(lists) \ {old}) = Cardinality(Tracked(lists)) - 1
      BY <3>3, FS_RemoveElement
    <3>5. /\ IsFiniteSet(Tracked(kept))
          /\ Cardinality(Tracked(kept)) <= Cardinality(Tracked(lists) \ {old})
      BY <3>3, <3>4, FS_Subset
    <3>6. Cardinality(Tracked(kept)) \in Nat
      BY <3>5, FS_CardinalityType
    <3> QED
      BY <1>0, <3>4, <3>5, <3>6
  <2> QED
    BY <2>1, <2>2
<1>4. Listed(kept, log)
  <2>1. \A ip \in IPs : \A n \in kept[ip] : n \in DOMAIN log /\ log[n].ip = ip
    BY <1>1 DEF Listed
  <2>2. \A ip \in IPs : \A m : Latest(kept, log, ip, m) => /\ Latest(lists, log, ip, m)
                                                         /\ ip \in Tracked(kept)
    BY <1>1 DEF Latest, Tracked
  <2>3. \A ip \in Tracked(kept) : kept[ip] = lists[ip] /\ ip \in Tracked(lists) /\ ip \in IPs
    BY <1>1, <1>2 DEF Tracked
  <2>4. \A ip \in Tracked(kept) : \E m \in DOMAIN log : Latest(kept, log, ip, m)
    BY <2>3 DEF Listed, Latest
  <2>5. ASSUME NEW ip \in IPs, NEW m \in DOMAIN log, NEW l \in DOMAIN log,
               Latest(kept, log, ip, m), l > m
        PROVE  log[l].ip \in Tracked(kept)
    <3>1. Latest(lists, log, ip, m) /\ ip \in Tracked(lists) /\ log[l].ip \in Tracked(lists)
      BY <2>2, <2>3, <2>5 DEF Listed
    <3>2. PICK k \in DOMAIN log : Latest(lists, log, log[l].ip, k)
      BY <3>1 DEF Listed
    <3>3. m \in Nat /\ l \in Nat /\ k \in Nat /\ l <= k
      BY <3>2 DEF Listed, Latest
    <3>4. \A i \in lists[ip] : i \in Nat /\ i <= m
      BY <3>1 DEF Listed, Latest
    <3>5. log[l].ip # ip
      BY <2>5, <3>1, <3>3 DEF Latest
    <3>6. k \in lists[log[l].ip] /\ \A i \in lists[ip] : i <= k
      BY <2>5, <3>2, <3>3, <3>4 DEF Latest
    <3>7. log[l].ip \notin Oldest(lists)
      BY <3>1, <3>5, <3>6, NotOldest
    <3> QED
      BY <1>2, <3>1, <3>7
  <2> QED
    BY <2>1, <2>4, <2>5 DEF Listed
<1> QED
  BY <1>1, <1>3, <1>4 DEF kept

(* The lists after a request of the address, before the eviction. *)
Appended(ip) == [hits EXCEPT ![ip] = Recent(ip) \cup {Len(asked) + 1}]

Entry  == [ip : IPs, time : 0..now, reading : AllReadings, repeats : Nat, anomaly : BOOLEAN]
Lists  == [IPs -> SUBSET Nat]

DecayTypes == asked \in Seq(Entry) /\ hits \in Lists

LEMMA DecayFacts ==
    ASSUME DecayTypes, now \in Nat
    PROVE  /\ Len(asked) \in Nat /\ DOMAIN asked = 1..Len(asked)
           /\ \A i \in 1..Len(asked) : asked[i].ip \in IPs /\ asked[i].time \in Nat
           /\ MaxTracked \in Nat \ {0} /\ DecayWindow \in Nat
<1>1. \A i \in 1..Len(asked) : asked[i] \in Entry
  BY ElementOfSeq DEF DecayTypes
<1>2. \A i \in 1..Len(asked) : asked[i].ip \in IPs /\ asked[i].time \in Nat
  BY <1>1 DEF Entry
<1> QED
  BY <1>2, LenProperties, PredictApiAssumption DEF DecayTypes, PredictApiAssumption

LEMMA DecaySteps ==
    ASSUME [Next]_vars
    PROVE  \/ UNCHANGED decayVars
           \/ now' = now /\ \E ip \in IPs : \E reading \in Readings[ip] : Track(ip, reading)
<1>1. ASSUME NEW q \in Requests, Answer(q) \/ Fire(q)
      PROVE  now' = now /\ \E ip \in IPs : \E reading \in Readings[ip] : Track(ip, reading)
  BY <1>1 DEF Answer, Fire
<1>2. ASSUME NEW q \in Requests, RequestStep(q)
      PROVE  UNCHANGED decayVars
  BY <1>2 DEF RequestStep, Flush, UseCache, StartRefresh, Query, Fill, Rollback, Count,
              Lookup, Commit, CommitFails, Announce
<1>3. CASE Tick \/ Invalidate \/ Edits \/ (\E r \in Rules : CreateRule(r) \/ DeleteRule(r)) \/ UNCHANGED vars
  BY <1>3 DEF Tick, Invalidate, Edits, ReadIncident, WriteIncident, CreateRule, DeleteRule, vars
<1> QED
  BY <1>1, <1>2, <1>3 DEF Next, Edits

(* What is asked of a step that scores a request: the log grows by it, ... *)
LEMMA LogGrows ==
    ASSUME DecayTypes, Listed(hits, asked), IsFiniteSet(Tracked(hits)), now \in Nat, now' = now,
           NEW ip \in IPs, NEW reading \in Readings[ip], Track(ip, reading)
    PROVE  /\ DOMAIN asked' = 1..(Len(asked) + 1) /\ asked' \in Seq(Entry) /\ Len(asked') = Len(asked) + 1
           /\ \A i \in 1..Len(asked) : asked'[i] = asked[i]
           /\ asked'[Len(asked) + 1].ip = ip /\ asked'[Len(asked) + 1].time = now
           /\ asked'[Len(asked) + 1].repeats = Cardinality(Recent(ip))
           /\ asked'[Len(asked) + 1].anomaly = Verdict(asked'[Len(asked) + 1].reading, Cardinality(Recent(ip)))
<1> DEFINE new == [ip |-> ip, time |-> now, reading |-> reading, repeats |-> Cardinality(Recent(ip)),
                   anomaly |-> Verdict(reading, Cardinality(Recent(ip)))]
<1>1. new \in Entry
  <2>1. Recent(ip) \in SUBSET (1..Len(asked)) /\ IsFiniteSet(1..Len(asked))
    BY DecayFacts, FS_Interval DEF Recent, Listed
  <2>2. Cardinality(Recent(ip)) \in Nat
    BY <2>1, FS_Subset, FS_CardinalityType
  <2>3. Verdict(reading, Cardinality(Recent(ip))) \in BOOLEAN
    BY DEF Verdict, IsAnomaly, AtLeast
  <2>4. reading \in AllReadings
    BY DEF AllReadings
  <2> QED
    BY <2>2, <2>3, <2>4 DEF Entry
<1>2. asked' = Append(asked, new) /\ asked \in Seq(Entry)
  BY DEF Track, DecayTypes
<1>3. /\ new.ip = ip /\ new.time = now /\ new.repeats = Cardinality(Recent(ip))
      /\ new.anomaly = Verdict(new.reading, Cardinality(Recent(ip)))
  OBVIOUS
<1> HIDE DEF new
<1>4. /\ asked' \in Seq(Entry) /\ Len(asked') = Len(asked) + 1
      /\ \A i \in 1..Len(asked) : asked'[i] = asked[i]
      /\ asked'[Len(asked) + 1] = new
  BY <1>1, <1>2, AppendProperties
<1>5. DOMAIN asked' = 1..(Len(asked) + 1)
  BY <1>4, LenProperties
<1> QED
  BY <1>3, <1>4, <1>5

(* ... the list of its address gets its number, and the order of the lists stays. *)
LEMMA AppendedLists ==
    ASSUME DecayTypes, Listed(hits, asked), IsFiniteSet(Tracked(hits)), now \in Nat, now' = now,
           NEW ip \in IPs, NEW reading \in Readings[ip], Track(ip, reading)
    PROVE  /\ Appended(ip) \in Lists /\ Listed(Appended(ip), asked')
           /\ Tracked(Appended(ip)) = Tracked(hits) \cup {ip}
           /\ Latest(Appended(ip), asked', ip, Len(asked) + 1)
           /\ \A x \in IPs \ {ip} : Appended(ip)[x] = hits[x]
           /\ Appended(ip)[ip] = Recent(ip) \cup {Len(asked) + 1}
<1> DEFINE lists == Appended(ip)
           new == Len(asked) + 1
<1>0. Len(asked) \in Nat /\ DOMAIN asked = 1..Len(asked) /\ new \in Nat /\ new > Len(asked)
  BY DecayFacts
<1>1. DOMAIN asked' = 1..new /\ asked'[new].ip = ip /\ \A i \in 1..Len(asked) : asked'[i] = asked[i]
  BY LogGrows
<1>2. Recent(ip) \subseteq hits[ip] /\ hits[ip] \subseteq DOMAIN asked /\ hits \in Lists
  BY DEF Recent, Listed, DecayTypes
<1>3. /\ lists \in Lists /\ lists[ip] = Recent(ip) \cup {new}
      /\ \A x \in IPs \ {ip} : lists[x] = hits[x]
  BY <1>0, <1>2 DEF Appended, Lists
<1> HIDE DEF lists
<1>4. Tracked(lists) = Tracked(hits) \cup {ip}
  BY <1>3 DEF Tracked
<1>5. DOMAIN asked' \subseteq Nat /\ \A i \in DOMAIN asked' : asked'[i].ip \in IPs
  <2>1. ASSUME NEW i \in 1..new
        PROVE  asked'[i].ip \in IPs
    BY <1>0, <1>1, DecayFacts
  <2> QED
    BY <1>0, <1>1, <2>1
<1>6. \A x \in IPs : \A n \in lists[x] : n \in DOMAIN asked' /\ asked'[n].ip = x
  <2>1. ASSUME NEW x \in IPs, NEW n \in lists[x]
        PROVE  n \in DOMAIN asked' /\ asked'[n].ip = x
    <3>1. CASE x = ip /\ n = new
      BY <1>0, <1>1, <3>1
    <3>2. CASE n \in hits[x]
      <4>1. n \in 1..Len(asked) /\ asked[n].ip = x
        BY <1>0, <3>2 DEF Listed
      <4> QED
        BY <1>0, <1>1, <4>1
    <3> QED
      BY <1>2, <1>3, <3>1, <3>2
  <2> QED
    BY <2>1
<1>7. Latest(lists, asked', ip, new)
  BY <1>0, <1>1, <1>3 DEF Latest
<1>8. \A x \in IPs \ {ip} : \A m \in DOMAIN asked : Latest(hits, asked, x, m) <=> Latest(lists, asked', x, m)
  <2>1. ASSUME NEW x \in IPs \ {ip}, NEW m \in DOMAIN asked
        PROVE  (\A i \in DOMAIN asked : asked[i].ip = x => i <= m)
                 <=> (\A i \in DOMAIN asked' : asked'[i].ip = x => i <= m)
    <3>1. \A i \in 1..new : asked'[i].ip = x => i \in 1..Len(asked)
      BY <1>0, <1>1, <2>1
    <3>2. 1..Len(asked) \subseteq 1..new
      BY <1>0
    <3> QED
      BY <1>0, <1>1, <3>1, <3>2
  <2> QED
    BY <1>3, <2>1 DEF Latest
<1>9. \A x \in Tracked(lists) : \E m \in DOMAIN asked' : Latest(lists, asked', x, m)
  <2>1. CASE \E x \in Tracked(lists) : x = ip
    <3>1. new \in DOMAIN asked'
      BY <1>0, <1>1
    <3>2. ASSUME NEW x \in Tracked(lists), x # ip
          PROVE  \E m \in DOMAIN asked' : Latest(lists, asked', x, m)
      <4>1. x \in Tracked(hits) /\ x \in IPs \ {ip}
        BY <1>4, <3>2 DEF Tracked
      <4>2. PICK m \in DOMAIN asked : Latest(hits, asked, x, m)
        BY <4>1 DEF Listed
      <4>3. m \in DOMAIN asked'
        BY <1>0, <1>1
      <4> QED
        BY <1>8, <4>1, <4>2, <4>3
    <3> QED
      BY <1>7, <3>1, <3>2
  <2> QED
    BY <1>4, <2>1
<1>10. ASSUME NEW x \in IPs, NEW m \in DOMAIN asked', NEW l \in DOMAIN asked',
              Latest(lists, asked', x, m), l > m
       PROVE  asked'[l].ip \in Tracked(lists)
  <2>1. CASE l = new
    BY <1>1, <1>4, <2>1
  <2>2. CASE l # new
    <3>1. l \in 1..Len(asked) /\ m \in 1..Len(asked)
      BY <1>0, <1>1, <1>10, <2>2
    <3>2. x # ip
      BY <1>0, <1>1, <1>10, <3>1 DEF Latest
    <3>3. Latest(hits, asked, x, m)
      BY <1>0, <1>8, <1>10, <3>1, <3>2
    <3>4. asked[l].ip \in Tracked(hits)
      BY <1>0, <1>10, <3>1, <3>3 DEF Listed
    <3> QED
      BY <1>1, <1>4, <3>1, <3>4
  <2> QED
    BY <2>1, <2>2
<1>11. Listed(lists, asked')
  BY <1>5, <1>6, <1>9, <1>10 DEF Listed
<1> QED
  BY <1>3, <1>4, <1>7, <1>11 DEF lists

(* The strengthening of DecayMatchesHistory: a list has exactly the requests of  *)
(* the window that the history counts, were its address to be asked about now.    *)
Held == \A ip \in IPs : \A i \in hits[ip] : Undisturbed(i, Len(asked) + 1)
Kept == \A i \in DOMAIN asked :
            asked[i].time > now - DecayWindow /\ Undisturbed(i, Len(asked) + 1) => i \in hits[asked[i].ip]

Earlier(n) ==
    {i \in 1..(n - 1) : /\ asked[i].ip = asked[n].ip
                        /\ asked[i].time > asked[n].time - DecayWindow
                        /\ Undisturbed(i, n)}

RepeatsOK == \A n \in DOMAIN asked : asked[n].repeats = Cardinality(Earlier(n))
AnswersOK == \A n \in DOMAIN asked : asked[n].anomaly = Verdict(asked[n].reading, asked[n].repeats)

DecayInv ==
    /\ Listed(hits, asked)
    /\ IsFiniteSet(Tracked(hits)) /\ Cardinality(Tracked(hits)) <= MaxTracked
    /\ Held /\ Kept /\ RepeatsOK /\ AnswersOK

(* Those who came in a row after a request of a tracked address, none of them its  *)
(* own, are tracked beside it.                                                     *)
LEMMA CrowdBehind ==
    ASSUME NEW lists, NEW log, Listed(lists, log), NEW ip \in Tracked(lists), NEW i \in lists[ip],
           NEW k \in Nat, DOMAIN log = 1..k, NEW j \in (i + 1)..k, ip \notin {log[l].ip : l \in j..k}
    PROVE  {log[l].ip : l \in j..k} \subseteq Tracked(lists) \ {ip}
<1>1. PICK m \in DOMAIN log : Latest(lists, log, ip, m)
  BY DEF Listed
<1>2. ip \in IPs /\ i \in 1..k /\ m \in 1..k /\ log[m].ip = ip
  BY <1>1 DEF Listed, Latest, Tracked
<1>3. m < j
  BY <1>2
<1>4. ASSUME NEW l \in j..k
      PROVE  log[l].ip \in Tracked(lists)
  <2>1. l \in DOMAIN log /\ l > m
    BY <1>2, <1>3
  <2> QED
    BY <1>1, <1>2, <2>1 DEF Listed
<1> QED
  BY <1>4

LEMMA FewerThanTracked ==
    ASSUME NEW S, IsFiniteSet(S), NEW x \in S, NEW C \in SUBSET (S \ {x})
    PROVE  Cardinality(C) < Cardinality(S) /\ Cardinality(S \ {x}) = Cardinality(S) - 1
<1>1. IsFiniteSet(S \ {x}) /\ Cardinality(S \ {x}) = Cardinality(S) - 1
  BY FS_RemoveElement
<1>2. IsFiniteSet(C) /\ Cardinality(C) <= Cardinality(S \ {x})
  BY <1>1, FS_Subset
<1>3. Cardinality(C) \in Nat /\ Cardinality(S) \in Nat
  BY <1>2, FS_CardinalityType
<1> QED
  BY <1>1, <1>2, <1>3

(* Everything that a step which scores a request makes of the decay's state. *)
LEMMA Tracks ==
    ASSUME DecayTypes, DecayInv, now \in Nat, now' = now, NEW ip \in IPs, NEW reading \in Readings[ip], Track(ip, reading)
    PROVE  /\ Listed(hits, asked)' /\ IsFiniteSet(Tracked(hits)') /\ Cardinality(Tracked(hits)') <= MaxTracked
           /\ hits' \in Lists
           /\ \A x \in IPs : hits'[x] = Appended(ip)[x] \/ (hits'[x] = {} /\ x \in Oldest(Appended(ip)))
           /\ hits' = Appended(ip) \/ Cardinality(Tracked(Appended(ip))) > MaxTracked
           /\ IsFiniteSet(Tracked(Appended(ip))) /\ Cardinality(Tracked(Appended(ip))) \in Nat
<1> DEFINE lists == Appended(ip)
<1>0. Listed(hits, asked) /\ IsFiniteSet(Tracked(hits)) /\ Cardinality(Tracked(hits)) <= MaxTracked
  BY DEF DecayInv
<1>1. /\ lists \in Lists /\ Listed(lists, asked') /\ Tracked(lists) = Tracked(hits) \cup {ip}
  BY <1>0, AppendedLists
<1>2. IsFiniteSet(Tracked(lists)) /\ Cardinality(Tracked(lists)) <= MaxTracked + 1 /\ Cardinality(Tracked(lists)) \in Nat
  <2>1. /\ IsFiniteSet(Tracked(hits) \cup {ip})
        /\ \/ Cardinality(Tracked(hits) \cup {ip}) = Cardinality(Tracked(hits))
           \/ Cardinality(Tracked(hits) \cup {ip}) = Cardinality(Tracked(hits)) + 1
    BY <1>0, FS_AddElement
  <2>2. Cardinality(Tracked(hits)) \in Nat /\ MaxTracked \in Nat
    BY <1>0, FS_CardinalityType, DecayFacts
  <2> QED
    BY <1>0, <1>1, <2>1, <2>2
<1>3. hits' = Bounded(lists)
  BY DEF Track, Appended
<1> HIDE DEF lists
<1>4. lists \in [IPs -> SUBSET Nat]
  BY <1>1 DEF Lists
<1>5. /\ \A x \in IPs : Bounded(lists)[x] = lists[x] \/ (Bounded(lists)[x] = {} /\ x \in Oldest(lists))
      /\ IsFiniteSet(Tracked(Bounded(lists))) /\ Cardinality(Tracked(Bounded(lists))) <= MaxTracked
      /\ Listed(Bounded(lists), asked')
  BY <1>1, <1>2, <1>4, BoundedLists
<1>6. Bounded(lists) \in Lists
  BY <1>4 DEF Bounded, Lists
<1>7. Listed(hits', asked') /\ IsFiniteSet(Tracked(hits')) /\ Cardinality(Tracked(hits')) <= MaxTracked
  BY <1>3, <1>5
<1>8. hits' = lists \/ Cardinality(Tracked(lists)) > MaxTracked
  BY <1>3 DEF Bounded
<1>9. Listed(hits, asked)' /\ Tracked(hits)' = Tracked(hits')
  BY <1>7 DEF Listed, Tracked, Latest
<1> QED
  BY <1>2, <1>3, <1>5, <1>6, <1>7, <1>8, <1>9 DEF lists

(* What is undisturbed is said of the requests there were. *)
LEMMA CrowdsStay ==
    ASSUME DecayTypes, DecayInv, now \in Nat, now' = now, NEW ip \in IPs, NEW reading \in Readings[ip], Track(ip, reading),
           NEW i \in 1..Len(asked), NEW n \in 1..(Len(asked) + 1)
    PROVE  (Undisturbed(i, n))' <=> Undisturbed(i, n)
<1>0. Len(asked) \in Nat /\ DOMAIN asked = 1..Len(asked)
  BY DecayFacts
<1>1. \A l \in 1..Len(asked) : asked'[l] = asked[l]
  BY LogGrows DEF DecayInv
<1>2. ASSUME NEW j \in (i + 1)..(n - 1), NEW k \in (i + 1)..(n - 1)
      PROVE  Crowd(j, k)' = Crowd(j, k)
  <2>1. \A l \in j..k : asked'[l] = asked[l]
    BY <1>0, <1>1
  <2> QED
    BY <2>1 DEF Crowd
<1> QED
  BY <1>1, <1>2 DEF Undisturbed

LEMMA HeldStep ==
    ASSUME DecayTypes, DecayInv, now \in Nat, now' = now, NEW ip \in IPs, NEW reading \in Readings[ip], Track(ip, reading)
    PROVE  Held'
<1> PICK new : new = Len(asked) + 1
  OBVIOUS
<1>0. /\ Len(asked) \in Nat /\ new \in Nat /\ MaxTracked \in Nat /\ DOMAIN asked = 1..Len(asked)
      /\ DOMAIN asked' = 1..new /\ Len(asked') = new
      /\ \A l \in 1..Len(asked) : asked'[l] = asked[l]
  BY DecayFacts, LogGrows DEF DecayInv
<1>1. Listed(hits', asked') /\ IsFiniteSet(Tracked(hits')) /\ Cardinality(Tracked(hits')) <= MaxTracked
  BY Tracks DEF Listed, Tracked, Latest
<1>2. ASSUME NEW x \in IPs, NEW i \in hits'[x]
      PROVE  Undisturbed(i, new + 1)'
  <2>1. i \in 1..new /\ asked'[i].ip = x /\ x \in Tracked(hits')
    BY <1>0, <1>1, <1>2 DEF Listed, Tracked
  <2>2. ASSUME NEW j \in (i + 1)..new, NEW k \in (i + 1)..new, x \notin Crowd(j, k)'
        PROVE  Cardinality(Crowd(j, k)') < MaxTracked
    <3>1. CASE k = new
      <4>1. Crowd(j, k)' = {asked'[l].ip : l \in j..new}
        BY <3>1 DEF Crowd
      <4>2. Crowd(j, k)' \subseteq Tracked(hits') \ {x}
        <5>1. x \notin {asked'[l].ip : l \in j..new} /\ i \in hits'[x]
          BY <1>2, <2>2, <4>1
        <5>2. {asked'[l].ip : l \in j..new} \subseteq Tracked(hits') \ {x}
          BY ONLY <1>0, <1>1, <2>1, <5>1, j \in (i + 1)..new, CrowdBehind
        <5> QED
          BY <4>1, <5>2
      <4>3. Cardinality(Crowd(j, k)') < Cardinality(Tracked(hits'))
        <5>1. Crowd(j, k)' \in SUBSET (Tracked(hits') \ {x})
          BY <4>2
        <5> QED
          BY <1>1, <2>1, <5>1, FewerThanTracked
      <4>4. Cardinality(Tracked(hits')) \in Nat /\ Cardinality(Crowd(j, k)') \in Nat
        <5>1. IsFiniteSet(Tracked(hits') \ {x}) /\ Crowd(j, k)' \in SUBSET (Tracked(hits') \ {x})
          BY <1>1, <4>2, FS_RemoveElement
        <5>2. IsFiniteSet(Crowd(j, k)')
          BY <5>1, FS_Subset
        <5> QED
          BY <1>1, <5>2, FS_CardinalityType
      <4> QED
        BY <1>0, <1>1, <4>3, <4>4
    <3>2. CASE k # new
      <4>1. i \in 1..Len(asked) /\ k \in (i + 1)..Len(asked)
        BY <1>0, <2>1, <3>2
      <4>2. i \in Appended(ip)[x]
        BY <1>2, Tracks
      <4>3. i \in hits[x]
        <5>1. Recent(ip) \subseteq hits[ip] /\ Listed(hits, asked) /\ IsFiniteSet(Tracked(hits))
          BY DEF Recent, DecayInv
        <5>2. CASE x = ip
          <6>1. i \in Recent(ip) \cup {new}
            BY <4>2, <5>1, <5>2, AppendedLists
          <6> QED
            BY <1>0, <4>1, <5>1, <5>2, <6>1
        <5>3. CASE x # ip
          BY <4>2, <5>1, <5>3, AppendedLists
        <5> QED
          BY <5>2, <5>3
      <4>4. Undisturbed(i, new) /\ asked[i].ip = x
        BY <1>0, <2>1, <4>1, <4>3 DEF DecayInv, Held
      <4>5. CASE j <= Len(asked)
        <5>1. \A l \in j..k : asked'[l] = asked[l]
          BY <1>0, <2>1, <4>1
        <5>2. Crowd(j, k)' = Crowd(j, k)
          BY <5>1 DEF Crowd
        <5>3. j \in (i + 1)..(new - 1) /\ k \in (i + 1)..(new - 1)
          BY <1>0, <4>1, <4>5
        <5> QED
          BY <2>2, <4>4, <5>2, <5>3 DEF Undisturbed
      <4>6. CASE j > Len(asked)
        <5>1. j..k = {}
          BY <1>0, <2>1, <4>1, <4>6
        <5>2. Crowd(j, k)' = {}
          BY <5>1 DEF Crowd
        <5> QED
          BY <5>2, FS_EmptySet, DecayFacts
      <4> QED
        BY <1>0, <2>1, <4>5, <4>6
    <3> QED
      BY <3>1, <3>2
  <2>3. (i + 1)..((new + 1) - 1) = (i + 1)..new
    BY <1>0
  <2> QED
    BY <2>1, <2>2, <2>3 DEF Undisturbed
<1> QED
  BY <1>0, <1>2 DEF Held

(* The address whose requests are all that is undisturbed is never the one to go. *)
LEMMA Survives ==
    ASSUME DecayTypes, DecayInv, now \in Nat, now' = now, NEW ip \in IPs, NEW reading \in Readings[ip], Track(ip, reading),
           NEW new, new = Len(asked) + 1, NEW i \in 1..new, Undisturbed(i, new + 1)',
           i \in Appended(ip)[asked'[i].ip], asked'[i].ip \in IPs
    PROVE  i \in hits'[asked'[i].ip]
<1> DEFINE x == asked'[i].ip
           lists == Appended(ip)
<1>0. /\ Len(asked) \in Nat /\ new \in Nat /\ MaxTracked \in Nat \ {0}
      /\ DOMAIN asked' = 1..new /\ Len(asked') = new
  BY DecayFacts, LogGrows DEF DecayInv
<1>1. /\ Listed(lists, asked') /\ Latest(lists, asked', ip, new) /\ ip \in Tracked(lists)
  BY AppendedLists DEF DecayInv
<1>2. /\ hits'[x] = lists[x] \/ (hits'[x] = {} /\ x \in Oldest(lists))
      /\ hits' = lists \/ Cardinality(Tracked(lists)) > MaxTracked
      /\ IsFiniteSet(Tracked(lists)) /\ Cardinality(Tracked(lists)) \in Nat
  BY Tracks
<1> HIDE DEF lists
<1>3. x \in Tracked(lists) /\ i \in lists[x] /\ i \in 1..new
  BY <1>0 DEF Tracked, lists
<1>4. ASSUME x \in Oldest(lists), Cardinality(Tracked(lists)) > MaxTracked
      PROVE  FALSE
  <2>1. PICK m \in DOMAIN asked' : Latest(lists, asked', x, m)
    BY <1>1, <1>3 DEF Listed
  <2>2. m \in 1..new /\ asked'[m].ip = x /\ i <= m /\ m \in lists[x]
    BY <1>0, <1>1, <1>3, <2>1 DEF Latest, Listed, Tracked
  <2>3. \A y \in Tracked(lists) \ {x} : \E n \in (m + 1)..new : asked'[n].ip = y
    <3>1. ASSUME NEW y \in Tracked(lists) \ {x}
          PROVE  \E n \in (m + 1)..new : asked'[n].ip = y
      <4>1. PICK n \in lists[y] : \A l \in lists[x] : l < n
        BY <1>4 DEF Oldest
      <4>2. n \in 1..new /\ asked'[n].ip = y /\ m < n
        BY <1>0, <1>1, <2>2, <4>1 DEF Listed, Tracked
      <4> QED
        BY <2>2, <4>2
    <3> QED
      BY <3>1
  <2>4. \A l \in (m + 1)..new : asked'[l].ip # x /\ asked'[l].ip \in Tracked(lists)
    <3>1. ASSUME NEW l \in (m + 1)..new
          PROVE  asked'[l].ip # x /\ asked'[l].ip \in Tracked(lists)
      <4>1. l \in DOMAIN asked' /\ l > m /\ ~(l <= m)
        BY <1>0, <2>2, <3>1
      <4>2. x \in IPs
        BY <1>3 DEF Tracked
      <4> QED
        BY <1>1, <2>1, <4>1, <4>2 DEF Latest, Listed
    <3> QED
      BY <3>1
  <2>5. Crowd(m + 1, new)' = Tracked(lists) \ {x}
    <3>1. Crowd(m + 1, new)' = {asked'[l].ip : l \in (m + 1)..new}
      BY DEF Crowd
    <3> QED
      BY <2>3, <2>4, <3>1
  <2>6. Cardinality(Crowd(m + 1, new)') = Cardinality(Tracked(lists)) - 1
    BY <1>2, <1>3, <2>5, FewerThanTracked
  <2>7. Tracked(lists) \ {x} # {}
    <3>1. CASE Tracked(lists) = {x}
      <4>1. Cardinality({x}) = 1
        BY FS_Singleton
      <4>2. Cardinality(Tracked(lists)) = 1
        BY <3>1, <4>1
      <4> QED
        BY <1>0, <1>4, <4>2
    <3> QED
      BY <1>3, <3>1
  <2>8. m + 1 \in (i + 1)..new /\ new \in (i + 1)..new
    BY <1>0, <1>3, <2>2, <2>3, <2>7
  <2>9. (i + 1)..((new + 1) - 1) = (i + 1)..new
    BY <1>0
  <2>10. x \notin Crowd(m + 1, new)'
    BY <2>5
  <2>11. Cardinality(Crowd(m + 1, new)') < MaxTracked
    BY <1>0, <2>8, <2>9, <2>10 DEF Undisturbed
  <2> QED
    BY <1>0, <1>2, <1>4, <2>6, <2>11
<1> QED
  BY <1>2, <1>3, <1>4

LEMMA KeptStep ==
    ASSUME DecayTypes, DecayInv, now \in Nat, now' = now, NEW ip \in IPs, NEW reading \in Readings[ip], Track(ip, reading)
    PROVE  Kept'
<1> PICK new : new = Len(asked) + 1
  OBVIOUS
<1>0. /\ Len(asked) \in Nat /\ new \in Nat /\ DOMAIN asked = 1..Len(asked)
      /\ DOMAIN asked' = 1..new /\ Len(asked') = new
      /\ asked'[new].ip = ip /\ \A l \in 1..Len(asked) : asked'[l] = asked[l]
  BY DecayFacts, LogGrows DEF DecayInv
<1>1. /\ Appended(ip)[ip] = Recent(ip) \cup {new}
      /\ \A x \in IPs \ {ip} : Appended(ip)[x] = hits[x]
  BY AppendedLists DEF DecayInv
<1>2. ASSUME NEW i \in 1..new, asked'[i].time > now - DecayWindow, Undisturbed(i, new + 1)'
      PROVE  i \in hits'[asked'[i].ip]
  <2>1. asked'[i].ip \in IPs /\ i \in Appended(ip)[asked'[i].ip]
    <3>1. CASE i = new
      BY <1>0, <1>1, <3>1
    <3>2. CASE i # new
      <4>1. i \in 1..Len(asked) /\ asked[i] = asked'[i] /\ asked[i].ip \in IPs
        BY <1>0, <3>2, DecayFacts
      <4>2. Undisturbed(i, new)'
        <5>1. (i + 1)..(new - 1) \subseteq (i + 1)..((new + 1) - 1)
          BY <1>0
        <5> QED
          BY <1>2, <5>1 DEF Undisturbed
      <4>3. Undisturbed(i, new)
        <5>1. new \in 1..(Len(asked) + 1)
          BY <1>0
        <5> QED
          BY <4>1, <4>2, <5>1, CrowdsStay
      <4>4. i \in hits[asked[i].ip]
        BY <1>0, <1>2, <4>1, <4>3 DEF DecayInv, Kept
      <4>5. CASE asked[i].ip = ip
        <5>1. i \in Recent(ip)
          BY <1>2, <4>1, <4>4, <4>5 DEF Recent
        <5> QED
          BY <1>1, <4>1, <4>5, <5>1
      <4>6. CASE asked[i].ip # ip
        BY <1>1, <4>1, <4>4, <4>6
      <4> QED
        BY <4>5, <4>6
    <3> QED
      BY <3>1, <3>2
  <2> QED
    BY <1>0, <1>2, <2>1, Survives
<1>3. DecayWindow' = DecayWindow
  OBVIOUS
<1> QED
  BY <1>0, <1>2 DEF Kept

(* The list of an address is then exactly what the history counts. *)
LEMMA HistoryStep ==
    ASSUME DecayTypes, DecayInv, now \in Nat, now' = now, NEW ip \in IPs, NEW reading \in Readings[ip], Track(ip, reading)
    PROVE  RepeatsOK' /\ AnswersOK'
<1> PICK new : new = Len(asked) + 1
  OBVIOUS
<1>0. /\ Len(asked) \in Nat /\ new \in Nat /\ DOMAIN asked = 1..Len(asked) /\ new - 1 = Len(asked)
      /\ DOMAIN asked' = 1..new /\ \A l \in 1..Len(asked) : asked'[l] = asked[l]
      /\ asked'[new].ip = ip /\ asked'[new].time = now
      /\ asked'[new].repeats = Cardinality(Recent(ip))
  BY DecayFacts, LogGrows DEF DecayInv
<1> DEFINE Counted(log, n, i) == log[i].ip = log[n].ip /\ log[i].time > log[n].time - DecayWindow
<1>1. ASSUME NEW n \in 1..new
      PROVE  {i \in 1..(n - 1) : Counted(asked', n, i) /\ Undisturbed(i, n)'}
                = {i \in 1..(n - 1) : Counted(asked', n, i) /\ Undisturbed(i, n)}
  <2>1. ASSUME NEW i \in 1..(n - 1)
        PROVE  Undisturbed(i, n)' <=> Undisturbed(i, n)
    <3>1. i \in 1..Len(asked) /\ n \in 1..(Len(asked) + 1)
      BY <1>0
    <3> QED
      BY <3>1, CrowdsStay
  <2> QED
    BY <2>1
<1>2. ASSUME NEW n \in 1..Len(asked)
      PROVE  asked'[n].repeats = Cardinality({i \in 1..(n - 1) : Counted(asked', n, i) /\ Undisturbed(i, n)'})
  <2>1. \A i \in 1..(n - 1) : asked'[i] = asked[i]
    BY <1>0
  <2>2. asked'[n] = asked[n] /\ n \in 1..new
    BY <1>0
  <2>3. {i \in 1..(n - 1) : Counted(asked', n, i) /\ Undisturbed(i, n)}
          = {i \in 1..(n - 1) : Counted(asked, n, i) /\ Undisturbed(i, n)}
    BY <2>1, <2>2
  <2>4. asked[n].repeats = Cardinality({i \in 1..(n - 1) : Counted(asked, n, i) /\ Undisturbed(i, n)})
    BY <1>0 DEF DecayInv, RepeatsOK, Earlier
  <2> QED
    BY <1>1, <2>2, <2>3, <2>4
<1>3. asked'[new].repeats = Cardinality({i \in 1..(new - 1) : Counted(asked', new, i) /\ Undisturbed(i, new)'})
  <2>1. {i \in 1..(new - 1) : Counted(asked', new, i) /\ Undisturbed(i, new)} = Recent(ip)
    <3>1. ASSUME NEW i \in 1..Len(asked), asked[i].ip = ip, asked[i].time > now - DecayWindow, Undisturbed(i, new)
          PROVE  i \in Recent(ip)
      BY <1>0, <3>1 DEF DecayInv, Kept, Recent
    <3>2. ASSUME NEW i \in Recent(ip)
          PROVE  /\ i \in 1..Len(asked) /\ asked[i].ip = ip /\ asked[i].time > now - DecayWindow
                 /\ Undisturbed(i, new)
      BY <1>0, <3>2 DEF DecayInv, Held, Listed, Recent
    <3>3. \A i \in 1..Len(asked) : asked'[i] = asked[i]
      BY <1>0
    <3> QED
      BY <1>0, <3>1, <3>2, <3>3
  <2>2. new \in 1..new
    BY <1>0
  <2> QED
    BY <1>0, <1>1, <2>1, <2>2
<1>4. ASSUME NEW n \in 1..new
      PROVE  asked'[n].repeats = Cardinality({i \in 1..(n - 1) : Counted(asked', n, i) /\ Undisturbed(i, n)'})
  <2>1. n \in 1..Len(asked) \/ n = new
    BY <1>0
  <2> QED
    BY <1>2, <1>3, <2>1
<1>5. RepeatsOK'
  BY <1>0, <1>4 DEF RepeatsOK, Earlier
<1>6. AnswersOK'
  <2>1. asked'[new].anomaly = Verdict(asked'[new].reading, asked'[new].repeats)
    BY <1>0, LogGrows DEF DecayInv
  <2>2. \A n \in 1..Len(asked) : asked'[n].anomaly = Verdict(asked'[n].reading, asked'[n].repeats)
    BY <1>0 DEF DecayInv, AnswersOK
  <2>3. \A n \in 1..new : n \in 1..Len(asked) \/ n = new
    BY <1>0
  <2>4. \A n \in DOMAIN asked' : asked'[n].anomaly = Verdict(asked'[n].reading, asked'[n].repeats)
    BY <1>0, <2>1, <2>2, <2>3
  <2> QED
    BY <2>4 DEF AnswersOK, Verdict
<1> QED
  BY <1>5, <1>6

LEMMA DecayStep ==
    ASSUME Types, DecayTypes, DecayInv, [Next]_vars
    PROVE  DecayTypes' /\ DecayInv'
<1>0. now \in Nat /\ now' \in Nat /\ now <= now' /\ DecayWindow \in Nat
  BY WorldStep, PredictApiAssumption DEF PredictApiAssumption
<1>1. ASSUME now' = now, NEW ip \in IPs, NEW reading \in Readings[ip], Track(ip, reading)
      PROVE  DecayTypes' /\ DecayInv'
  <2>1. asked' \in Seq(Entry) /\ hits' \in Lists
    BY <1>0, <1>1, LogGrows, Tracks DEF DecayInv
  <2>2. DecayTypes'
    BY <1>1, <2>1 DEF DecayTypes, Entry, Lists
  <2> QED
    BY <1>0, <1>1, <2>2, Tracks, HeldStep, KeptStep, HistoryStep DEF DecayInv
<1>2. CASE UNCHANGED decayVars
  <2>1. hits' = hits /\ asked' = asked
    BY <1>2 DEF decayVars
  <2>2. DecayTypes'
    <3>1. Entry \subseteq Entry'
      BY <1>0 DEF Entry
    <3>2. \A i \in 1..Len(asked) : asked[i] \in Entry'
      BY <3>1, ElementOfSeq DEF DecayTypes
    <3>3. asked \in Seq(Entry')
      BY <3>2, SeqDef DEF DecayTypes
    <3> QED
      BY <2>1, <3>3 DEF DecayTypes, Lists
  <2>3. \A i, n : Undisturbed(i, n)' <=> Undisturbed(i, n)
    BY <2>1 DEF Undisturbed, Crowd
  <2>4. Listed(hits, asked)' /\ (Tracked(hits))' = Tracked(hits) /\ Held' /\ RepeatsOK' /\ AnswersOK'
    BY <2>1, <2>3 DEF DecayInv, Listed, Tracked, Latest, Held, RepeatsOK, Earlier, AnswersOK
  <2>5. Kept'
    <3>1. ASSUME NEW i \in DOMAIN asked, asked[i].time > now' - DecayWindow
          PROVE  asked[i].time > now - DecayWindow
      BY <1>0, <3>1, DecayFacts
    <3> QED
      BY <2>1, <2>3, <3>1 DEF DecayInv, Kept
  <2> QED
    BY <2>2, <2>4, <2>5 DEF DecayInv
<1> QED
  BY <1>1, <1>2, DecaySteps

LEMMA DecayInit == Init => DecayTypes /\ DecayInv
<1> SUFFICES ASSUME Init
             PROVE  DecayTypes /\ DecayInv
  OBVIOUS
<1>1. hits = [ip \in IPs |-> {}] /\ asked = <<>> /\ Tracked(hits) = {}
  BY DEF Init, Tracked
<1>2. asked \in Seq(Entry) /\ Len(asked) = 0 /\ DOMAIN asked = 1..0
  BY <1>1, EmptySeq, LenProperties
<1>3. DOMAIN asked = {}
  BY <1>2
<1>4. DecayTypes
  BY <1>1, <1>2 DEF DecayTypes, Lists
<1>5. IsFiniteSet(Tracked(hits)) /\ Cardinality(Tracked(hits)) <= MaxTracked
  <2>1. IsFiniteSet(Tracked(hits)) /\ Cardinality(Tracked(hits)) = 0
    BY <1>1, FS_EmptySet
  <2>2. MaxTracked \in Nat
    BY PredictApiAssumption DEF PredictApiAssumption
  <2> QED
    BY <2>1, <2>2
<1> QED
  BY <1>1, <1>3, <1>4, <1>5 DEF DecayInv, Listed, Held, Kept, RepeatsOK, AnswersOK

(* Whatever requests interleave, fail or are suppressed, the process's tables  *)
(* keep their types, no two requests decide about the same alert, and what the  *)
(* decay remembers of an address are requests of that address.                  *)
THEOREM PredictTypes == Spec => []TypeOK
<1>1. Types /\ HoldsOK /\ DecayTypes /\ DecayInv /\ [Next]_vars => (Types /\ HoldsOK /\ DecayTypes /\ DecayInv)'
  BY TypeStep, DecayStep
<1>2. ASSUME Types, HoldsOK, DecayTypes, DecayInv
      PROVE  TypeOK
  <2>1. /\ asked \in Seq([ip : IPs, time : 0..now, reading : AllReadings, repeats : Nat, anomaly : BOOLEAN])
        /\ hits \in [IPs -> SUBSET Nat]
    BY <1>2 DEF DecayTypes, Entry, Lists
  <2>2. \A ip \in IPs : \A n \in hits[ip] : n \in DOMAIN asked /\ asked[n].ip = ip
    BY <1>2 DEF DecayInv, Listed
  <2>3. DecayOK
    BY <2>1, <2>2 DEF DecayOK
  <2> QED
    BY <1>2, <2>3 DEF Types, TypeOK
<1> QED
  BY <1>1, <1>2, TypeInit, DecayInit, PTL DEF Spec

(* confidence_decay: the list of an address, cut to the window and evicted with the *)
(* address, has at every request exactly the earlier ones the history counts, and    *)
(* the answer is that of the score decayed as often.                                  *)
THEOREM DecayMatchesHistoryHolds == Spec => []DecayMatchesHistory
<1>1. Types /\ HoldsOK /\ DecayTypes /\ DecayInv /\ [Next]_vars => (Types /\ HoldsOK /\ DecayTypes /\ DecayInv)'
  BY TypeStep, DecayStep
<1>2. DecayInv => DecayMatchesHistory
  BY DEF DecayInv, RepeatsOK, AnswersOK, Earlier, DecayMatchesHistory
<1> QED
  BY <1>1, <1>2, TypeInit, DecayInit, PTL DEF Spec

-----------------------------------------------------------------------------
(* Two open incidents of one address.                                      *)

(* Incident i is not open, or was reopened when there were so many incidents. *)
ClosedOrBack(i, seen) == IsOpen(incidents[i].status) => incidents[i].back >= seen

(* The strengthening of OneIncidentUnlessRaced: of the incidents of its address a   *)
(* request saw when it found none open, none has been open since but by reopening.   *)
Unseen(q) ==
    /\ req[q].looked.seen <= Len(incidents)
    /\ \A i \in 1..Len(incidents) :
          i <= req[q].looked.seen /\ incidents[i].ip = MyIp(q) => ClosedOrBack(i, req[q].looked.seen)

LooksFirst(q) ==
    /\ pc[q] \in Working \ {"commit", "announce"} => req[q].incident = 0
    /\ pc[q] = "commit" /\ req[q].incident = NewIncident => Unseen(q)

Apart ==
    \A j \in 1..Len(incidents) :
        /\ incidents[j].seen <= Len(incidents)
        /\ \A i \in 1..Len(incidents) :
              i < j /\ incidents[i].ip = incidents[j].ip /\ i <= incidents[j].seen
                  => ClosedOrBack(i, incidents[j].seen)

IncidentInv == (\A q \in Requests : LooksFirst(q)) /\ Apart

(* Of an incident row only the status is rewritten; what reopens it notes how many *)
(* incidents there are.                                                              *)
Grown ==
    /\ Len(incidents) <= Len(incidents')
    /\ \A i \in 1..Len(incidents) :
          /\ incidents'[i].ip = incidents[i].ip /\ incidents'[i].seen = incidents[i].seen
          /\ \A seen \in 0..Len(incidents) : ClosedOrBack(i, seen) => ClosedOrBack(i, seen)'

LEMMA IncidentsGrow ==
    ASSUME Types, HoldsOK, [Next]_vars
    PROVE  Grown
<1>0. Len(incidents) \in Nat
  BY TableFacts DEF Types
<1>1. CASE incidents' = incidents
  BY <1>0, <1>1 DEF Grown, ClosedOrBack
<1>2. CASE Edits
  <2>1. /\ Len(incidents') = Len(incidents)
        /\ \A i \in 1..Len(incidents) :
                 /\ incidents'[i].ip = incidents[i].ip /\ incidents'[i].seen = incidents[i].seen
                 /\ incidents'[i].back \in {incidents[i].back, Len(incidents)}
                 /\ \/ IsOpen(incidents'[i].status) => IsOpen(incidents[i].status)
                    \/ incidents'[i].back = Len(incidents)
    BY <1>2, EditsKeep
  <2>2. ASSUME NEW i \in 1..Len(incidents), NEW seen \in 0..Len(incidents), ClosedOrBack(i, seen)
        PROVE  IsOpen(incidents'[i].status) => incidents'[i].back >= seen
    <3>1. CASE incidents'[i].back = Len(incidents)
      BY <1>0, <3>1
    <3>2. CASE incidents'[i].back = incidents[i].back /\ incidents'[i].back # Len(incidents)
      BY <2>1, <2>2, <3>2 DEF ClosedOrBack
    <3> QED
      BY <2>1, <3>1, <3>2
  <2> QED
    BY <1>0, <2>1, <2>2 DEF Grown, ClosedOrBack
<1>3. ASSUME NEW q \in Requests, Opens(q)
      PROVE  Grown
  BY <1>0, <1>3, OpensAppends DEF Grown, ClosedOrBack
<1> QED
  BY <1>1, <1>2, <1>3, IncidentSteps

LEMMA KeysStay ==
    ASSUME Types, HoldsOK, [Next]_vars
    PROVE  \A a \in AlertIds : /\ a \in AlertIds' /\ alerts'[a].key = alerts[a].key
                               /\ alerts'[a].time = alerts[a].time
<1>1. CASE Quiet \/ \E q \in Requests : Stays(q) \/ Ends(q)
  BY <1>1 DEF Quiet, Stays, Ends, AlertIds
<1>2. CASE \E q \in Requests : Fire(q)
  BY <1>2, FireAppends
<1>3. CASE \E q \in Requests : Moves(q) \/ Fails(q)
  BY <1>3 DEF Moves, Fails, Fated
<1> QED
  BY <1>1, <1>2, <1>3, Steps

LEMMA IncidentInit == Init => IncidentInv
<1>1. <<>> \in Seq({}) /\ Len(<<>>) = 0
  BY EmptySeq
<1>2. DOMAIN <<>> = 1..0
  BY <1>1, LenProperties
<1> QED
  BY <1>1, <1>2, FateValues DEF Init, IncidentInv, LooksFirst, Apart

(* What a request saw stays as it is while it waits to commit. *)
LEMMA UnseenStays ==
    ASSUME Types, HoldsOK, [Next]_vars, NEW q \in Requests, pc[q] = "commit", Unseen(q),
           req'[q] = req[q]
    PROVE  Unseen(q)'
<1>0. Len(incidents) \in Nat /\ Len(incidents') \in Nat /\ req[q].looked.seen \in Nat
  <2>1. req[q] \in Locals
    BY DEF Types, RequestsOK
  <2>2. TablesOK /\ TablesOK'
    BY TablesStep DEF Types
  <2>3. Len(incidents') \in Nat
    BY <2>2, LenProperties DEF TablesOK
  <2> QED
    BY <2>1, <2>2, <2>3, TableFacts DEF Locals
<1>1. MyAlert(q) \in AlertIds
  BY FateValues DEF HoldsOK, AlertIds
<1>2. MyIp(q)' = MyIp(q)
  BY <1>1, KeysStay DEF MyIp, MyKey, MyAlert
<1>3. ASSUME NEW i \in 1..Len(incidents'), i <= req[q].looked.seen, incidents'[i].ip = MyIp(q)
      PROVE  ClosedOrBack(i, req[q].looked.seen)'
  <2>1. i \in 1..Len(incidents) /\ req[q].looked.seen \in 0..Len(incidents)
    BY <1>0, <1>3 DEF Unseen
  <2>2. ClosedOrBack(i, req[q].looked.seen)
    BY <1>3, <2>1, IncidentsGrow DEF Unseen, Grown
  <2>3. IsOpen(incidents'[i].status) => incidents'[i].back >= req[q].looked.seen
    BY <2>1, <2>2, IncidentsGrow DEF Grown, ClosedOrBack
  <2> QED
    BY <2>3, req'[q] = req[q] DEF ClosedOrBack
<1> QED
  BY <1>0, <1>2, <1>3, IncidentsGrow DEF Unseen, Grown

LEMMA LookupUnseen ==
    ASSUME Types, HoldsOK, NEW q \in Requests, Lookup(q), req'[q].incident = NewIncident
    PROVE  Unseen(q)'
<1>0. /\ Len(incidents) \in Nat /\ DOMAIN incidents = 1..Len(incidents)
      /\ UNCHANGED <<alerts, incidents>> /\ req \in [Requests -> Locals]
      /\ \A i \in 1..Len(incidents) : incidents[i].ip \in IPs
  <2>1. \A i \in 1..Len(incidents) : incidents[i].ip \in IPs
    BY TableFacts DEF Types, Incident
  <2> QED
    BY <2>1, TableFacts DEF Types, Lookup, tableVars, RequestsOK
<1>1. /\ OpenIncidents(MyIp(q)) = {}
      /\ req' = [req EXCEPT ![q].incident = NewIncident,
                            ![q].looked = [seen |-> Len(incidents), at |-> now]]
  <2>1. ASSUME NEW i \in OpenIncidents(MyIp(q)), req' = [req EXCEPT ![q].incident = i, ![q].recent = {}]
        PROVE  FALSE
    <3>1. req'[q].incident = i
      BY <1>0, <2>1 DEF Locals
    <3>2. i \in 1..Len(incidents)
      BY <1>0 DEF OpenIncidents
    <3> QED
      BY <1>0, <3>1, <3>2 DEF NewIncident
  <2> QED
    BY <2>1 DEF Lookup
<1>2. req'[q].looked.seen = Len(incidents) /\ req'[q].alert = req[q].alert
  BY <1>0, <1>1 DEF Locals
<1>3. MyIp(q)' = MyIp(q)
  BY <1>0, <1>2 DEF MyIp, MyKey, MyAlert
<1>4. ASSUME NEW i \in 1..Len(incidents), incidents[i].ip = MyIp(q)
      PROVE  ~IsOpen(incidents[i].status)
  BY <1>0, <1>1, <1>4, Parameters DEF OpenIncidents
<1> QED
  BY <1>0, <1>2, <1>3, <1>4 DEF Unseen, ClosedOrBack

LEMMA IncidentStep ==
    ASSUME Types, HoldsOK, IncidentInv, [Next]_vars
    PROVE  IncidentInv'
<1>0. pc \in [Requests -> {"idle"} \cup Working] /\ req \in [Requests -> Locals]
  BY DEF Types, RequestsOK
<1>1. ASSUME NEW q \in Requests, pc'[q] = pc[q], req'[q] = req[q]
      PROVE  LooksFirst(q)'
  BY <1>1, UnseenStays DEF IncidentInv, LooksFirst
<1>2. ASSUME NEW q \in Requests, pc'[q] \notin Working
      PROVE  LooksFirst(q)'
  BY <1>2, FateValues DEF LooksFirst
<1>3. ASSUME NEW q \in Requests, req'[q].incident = 0
      PROVE  LooksFirst(q)'
  BY <1>3 DEF NewIncident, LooksFirst
<1>4. ASSUME NEW q \in Requests, pc'[q] = "announce"
      PROVE  LooksFirst(q)'
  BY <1>4 DEF LooksFirst
<1>5. ASSUME NEW q \in Requests, Fire(q)
      PROVE  req'[q].incident = 0 /\ \A p \in Requests : p # q => pc'[p] = pc[p] /\ req'[p] = req[p]
  <2>1. PICK new \in Locals : new.incident = 0 /\ req' = [req EXCEPT ![q] = new]
    BY <1>5, FireAppends
  <2>2. pc' = [pc EXCEPT ![q] = "flush"]
    BY <1>5 DEF Fire, Goto
  <2> QED
    BY <1>0, <2>1, <2>2
<1>6. ASSUME NEW q \in Requests, Stays(q)
      PROVE  LooksFirst(q)' /\ \A p \in Requests : p # q => pc'[p] = pc[p] /\ req'[p] = req[p]
  <2>1. PICK new \in Locals : /\ req' = [req EXCEPT ![q] = new]
                              /\ Lookup(q) \/ new.incident = req[q].incident
    BY <1>6 DEF Stays
  <2>0. \A p \in Requests : p # q => pc'[p] = pc[p] /\ req'[p] = req[p]
    BY <1>0, <1>6, <2>1 DEF Stays
  <2>2. CASE Lookup(q)
    <3>1. pc'[q] = "commit"
      BY <1>0, <2>2 DEF Lookup, Goto
    <3> QED
      BY <2>0, <2>2, <3>1, LookupUnseen DEF LooksFirst
  <2>3. CASE new.incident = req[q].incident
    <3>1. req[q].incident = 0
      BY <1>6 DEF Stays, IncidentInv, LooksFirst
    <3> QED
      BY <1>0, <1>3, <2>0, <2>1, <2>3, <3>1
  <2> QED
    BY <2>1, <2>2, <2>3
<1>7. ASSUME NEW q \in Requests, Moves(q)
      PROVE  LooksFirst(q)' /\ \A p \in Requests : p # q => pc'[p] = pc[p] /\ req'[p] = req[p]
  <2>1. PICK label \in {"rollback", "correlate", "announce"} :
           pc' = [pc EXCEPT ![q] = label] /\ (label = "announce" <=> pc[q] = "commit")
    BY <1>7 DEF Moves
  <2>2. req' = req /\ pc'[q] = label /\ pc[q] \in Working /\ FateAt(pc[q]) \in {"open", "unmatched"}
    BY <1>0, <1>7, <2>1 DEF Moves
  <2>0. \A p \in Requests : p # q => pc'[p] = pc[p] /\ req'[p] = req[p]
    BY <1>0, <2>1, <2>2
  <2>3. CASE label = "announce"
    BY <1>4, <2>0, <2>2, <2>3
  <2>4. CASE pc[q] # "commit" /\ label # "announce"
    <3>1. pc[q] # "announce"
      BY <2>2, FateValues
    <3> QED
      BY <1>3, <2>0, <2>2, <2>4, <3>1 DEF IncidentInv, LooksFirst
  <2> QED
    BY <2>1, <2>2, <2>3, <2>4
<1>8. ASSUME NEW q \in Requests, Ends(q) \/ Fails(q)
      PROVE  pc'[q] \notin Working /\ \A p \in Requests : p # q => pc'[p] = pc[p] /\ req'[p] = req[p]
  BY <1>0, <1>8, FateValues DEF Ends, Fails, Leaves
<1>9. \A q \in Requests : LooksFirst(q)'
  <2>1. CASE Quiet
    BY <1>1, <2>1 DEF Quiet
  <2>2. CASE \E q \in Requests : Fire(q) \/ Stays(q) \/ Moves(q) \/ Ends(q) \/ Fails(q)
    BY <1>1, <1>2, <1>3, <1>5, <1>6, <1>7, <1>8, <2>2
  <2> QED
    BY <2>1, <2>2, Steps
<1>10. Apart'
  <2>0. Len(incidents) \in Nat /\ \A j \in 1..Len(incidents) : incidents[j].seen \in Nat
    BY TableFacts DEF Types, Incident
  <2>1. ASSUME Len(incidents') = Len(incidents)
        PROVE  Apart'
    <3>1. ASSUME NEW j \in 1..Len(incidents)
          PROVE  /\ incidents'[j].seen <= Len(incidents')
                 /\ \A i \in 1..Len(incidents) :
                       i < j /\ incidents'[i].ip = incidents'[j].ip /\ i <= incidents'[j].seen
                           => ClosedOrBack(i, incidents[j].seen)'
      <4>1. incidents'[j].seen = incidents[j].seen /\ incidents[j].seen \in 0..Len(incidents)
        BY <2>0, IncidentsGrow DEF Grown, IncidentInv, Apart
      <4> QED
        BY <2>1, <4>1, IncidentsGrow DEF Grown, IncidentInv, Apart
    <3> QED
      BY <2>1, <3>1 DEF Apart
  <2>2. ASSUME NEW q \in Requests, Opens(q)
        PROVE  Apart'
    <3>1. /\ \A i \in 1..Len(incidents) : incidents'[i] = incidents[i]
          /\ incidents'[Len(incidents) + 1].ip = MyIp(q)
          /\ incidents'[Len(incidents) + 1].seen = req[q].looked.seen
          /\ Len(incidents') = Len(incidents) + 1
      BY <2>2, OpensAppends
    <3>2. Unseen(q) /\ req[q].looked.seen \in Nat
      BY <2>2 DEF IncidentInv, LooksFirst, Opens, Types, RequestsOK, Locals
    <3>3. ASSUME NEW j \in 1..Len(incidents')
          PROVE  /\ incidents'[j].seen <= Len(incidents')
                 /\ \A i \in 1..Len(incidents') :
                       i < j /\ incidents'[i].ip = incidents'[j].ip /\ i <= incidents'[j].seen
                           => (IsOpen(incidents'[i].status) => incidents'[i].back >= incidents'[j].seen)
      <4>1. CASE j \in 1..Len(incidents)
        BY <2>0, <3>1, <4>1 DEF IncidentInv, Apart, ClosedOrBack
      <4>2. CASE j = Len(incidents) + 1
        BY <2>0, <3>1, <3>2, <4>2 DEF Unseen, ClosedOrBack
      <4> QED
        BY <2>0, <3>1, <4>1, <4>2
    <3> QED
      BY <3>3 DEF Apart, ClosedOrBack
  <2> QED
    BY <2>1, <2>2, IncidentSteps, EditsKeep
<1> QED
  BY <1>9, <1>10 DEF IncidentInv

(* An address has two open incidents only by a race: the request that opened the  *)
(* later one had looked before the earlier one was committed, or an edit of a       *)
(* status read before has reopened the earlier one since.                            *)
THEOREM OneIncidentHolds == Spec => []OneIncidentUnlessRaced
<1>1. Types /\ HoldsOK /\ IncidentInv /\ [Next]_vars => (Types /\ HoldsOK /\ IncidentInv)'
  BY TypeStep, IncidentStep
<1>2. ASSUME Types, IncidentInv
      PROVE  OneIncidentUnlessRaced
  <2>1. Len(incidents) \in Nat /\ DOMAIN incidents = 1..Len(incidents) /\ \A j \in 1..Len(incidents) : incidents[j].seen \in Nat
    BY <1>2, TableFacts DEF Types, Incident
  <2> QED
    BY <1>2, <2>1 DEF IncidentInv, Apart, ClosedOrBack, OneIncidentUnlessRaced
<1> QED
  BY <1>1, <1>2, TypeInit, IncidentInit, PTL DEF Spec

-----------------------------------------------------------------------------
(* The cache of suppression rules lags by its TTL.                         *)

(* What rows, read or loaded from the table at a time, must still be: every     *)
(* counting rule created before that time is among them, and none ended before. *)
Reflects(rows, time) ==
    /\ \A r \in Rules : (rules[r].created # 0 /\ Active(r) /\ rules[r].created < time) => r \in rows
    /\ \A r \in rows : rules[r].expires >= time

(* The strengthening of CacheLagsByTTL. *)
RuleInv ==
    /\ Reflects(cache, cacheTs)
    /\ \A q \in Requests : pc[q] = "fill" => Reflects(req[q].read, req[q].readAt)
    /\ \A q \in Requests : pc[q] \in {"query", "fill"} => alerts[MyAlert(q)].time <= req[q].readAt
    /\ \A a \in AlertIds : alerts[a].time <= now

(* What Reflects says of the next state, of rows and a time of this one. *)
Lasts(rows, time) ==
    /\ \A r \in Rules : (rules'[r].created # 0 /\ rules'[r].expires > now' /\ rules'[r].created < time)
                            => r \in rows
    /\ \A r \in rows : rules'[r].expires >= time

LEMMA ReflectsLasts ==
    ASSUME Types, [Next]_vars, NEW rows \in SUBSET Rules, NEW time \in Nat, time <= now,
           Reflects(rows, time)
    PROVE  Lasts(rows, time)
<1>0. /\ now \in Nat /\ now' \in Nat /\ now <= now'
      /\ rules \in [Rules -> [created : Nat, expires : Nat]]
      /\ \A r \in Rules : rules[r].created \in Nat /\ rules[r].expires \in Nat
  BY WorldStep DEF Types, WorldOK
<1>1. CASE rules' = rules
  BY <1>0, <1>1 DEF Reflects, Lasts, Active
<1>2. ASSUME NEW r \in Rules, CreateRule(r)
      PROVE  Lasts(rows, time)
  <2>1. PICK life \in Lifetimes : rules' = [rules EXCEPT ![r] = [created |-> now, expires |-> now + life]]
    BY <1>2 DEF CreateRule
  <2>2. now' = now /\ life \in Nat
    BY <1>2, Parameters DEF CreateRule
  <2>3. /\ rules'[r].created = now /\ rules'[r].expires >= time
        /\ \A s \in Rules : s # r => rules'[s] = rules[s]
    BY <1>0, <2>1, <2>2
  <2> QED
    BY <1>0, <2>2, <2>3 DEF Reflects, Lasts, Active
<1>3. ASSUME NEW r \in Rules, DeleteRule(r)
      PROVE  Lasts(rows, time)
  <2>1. rules' = [rules EXCEPT ![r] = [rules[r] EXCEPT !.expires = now]] /\ now' = now
    BY <1>3 DEF DeleteRule
  <2>2. /\ rules'[r].expires = now
        /\ \A s \in Rules : s # r => rules'[s] = rules[s]
    BY <1>0, <2>1
  <2> QED
    BY <1>0, <2>1, <2>2 DEF Reflects, Lasts, Active
<1>4. ASSUME NEW q \in Requests, Answer(q) \/ Fire(q) \/ RequestStep(q)
      PROVE  rules' = rules
  BY <1>4 DEF Answer, Fire, RequestStep, Flush, UseCache, StartRefresh, Query, Fill, Rollback, Count,
              Lookup, Commit, CommitFails, Announce, analystVars
<1>5. CASE Tick \/ Invalidate \/ Edits \/ UNCHANGED vars
  BY <1>1, <1>5 DEF Tick, Invalidate, Edits, ReadIncident, WriteIncident, analystVars, vars
<1> QED
  BY <1>1, <1>2, <1>3, <1>4, <1>5 DEF Next, Edits

(* A step of one request leaves the others where they are. *)
LEMMA OthersStay ==
    ASSUME Types, HoldsOK, NEW q \in Requests, RequestStep(q) \/ Fire(q),
           NEW p \in Requests, p # q
    PROVE  pc'[p] = pc[p] /\ req'[p] = req[p]
<1>0. pc \in [Requests -> {"idle"} \cup Working] /\ req \in [Requests -> Locals]
  BY DEF Types, RequestsOK
<1>1. CASE Fire(q)
  BY <1>0, <1>1 DEF Fire, Goto
<1>2. CASE Stays(q)
  BY <1>0, <1>2 DEF Stays
<1>3. CASE Moves(q)
  BY <1>0, <1>3 DEF Moves
<1>4. CASE Ends(q) \/ Fails(q)
  BY <1>0, <1>4 DEF Ends, Fails, Leaves
<1> QED
  BY <1>1, <1>2, <1>3, <1>4, RequestKinds

(* How a request comes to wait for the rules of the table. *)
LEMMA Reading ==
    ASSUME Types, HoldsOK, [Next]_vars, NEW q \in Requests, pc'[q] \in {"query", "fill"}
    PROVE  \/ pc'[q] = pc[q] /\ req'[q] = req[q]
           \/ pc'[q] = "query" /\ StartRefresh(q)
           \/ pc'[q] = "fill" /\ Query(q) /\ req' = [req EXCEPT ![q].read = {r \in Rules : Active(r)}]
<1>0. pc \in [Requests -> {"idle"} \cup Working] /\ req \in [Requests -> Locals]
  BY DEF Types, RequestsOK
<1>1. CASE Quiet
  BY <1>1 DEF Quiet
<1>2. ASSUME NEW p \in Requests, p # q, RequestStep(p) \/ Fire(p)
      PROVE  pc'[q] = pc[q] /\ req'[q] = req[q]
  BY <1>2, OthersStay
<1>3. CASE Fire(q) \/ Flush(q) \/ Count(q) \/ Lookup(q) \/ Commit(q)
  BY <1>0, <1>3 DEF Fire, Flush, Count, Lookup, Commit, Goto, Fail, End
<1>4. CASE UseCache(q) \/ Fill(q)
  BY <1>0, <1>4 DEF UseCache, Fill, Match, Goto, Fail, End
<1>5. CASE Rollback(q) \/ CommitFails(q) \/ Announce(q)
  BY <1>0, <1>5 DEF Rollback, CommitFails, Announce, Goto, Fail, End
<1>6. CASE StartRefresh(q)
  BY <1>0, <1>6 DEF StartRefresh, Goto
<1>7. CASE Query(q)
  BY <1>0, <1>7 DEF Query, Goto, Fail, End
<1>8. CASE World \/ Edits \/ UNCHANGED vars \/ \E p \in Requests : Answer(p)
  BY <1>1, <1>8 DEF World, Edits, Tick, Invalidate, CreateRule, DeleteRule, ReadIncident, WriteIncident, Answer,
              Quiet, vars
<1> QED
  BY <1>2, <1>3, <1>4, <1>5, <1>6, <1>7, <1>8 DEF Next, RequestStep, World, Edits

LEMMA RuleInit == Init => RuleInv
<1> SUFFICES ASSUME Init PROVE RuleInv
  OBVIOUS
<1>1. <<>> \in Seq({}) /\ Len(<<>>) = 0
  BY EmptySeq
<1>2. DOMAIN <<>> = 1..0
  BY <1>1, LenProperties
<1>3. Reflects(cache, cacheTs)
  BY DEF Init, Reflects
<1> QED
  BY <1>2, <1>3 DEF Init, RuleInv, AlertIds

LEMMA RuleStep ==
    ASSUME Types, HoldsOK, RuleInv, [Next]_vars
    PROVE  RuleInv'
<1>0. /\ cache \in SUBSET Rules /\ cacheTs \in Nat /\ cacheTs <= now
      /\ now \in Nat /\ now' \in Nat /\ now <= now'
      /\ \A q \in Requests : req[q].readAt \in Nat /\ req[q].readAt <= now /\ req[q].read \in SUBSET Rules
      /\ pc \in [Requests -> {"idle"} \cup Working] /\ req \in [Requests -> Locals]
      /\ \A r \in Rules : rules'[r].created \in Nat /\ rules'[r].expires \in Nat
  <2>1. rules' \in [Rules -> [created : Nat, expires : Nat]]
    BY WorldStep DEF WorldOK
  <2>2. /\ cache \in SUBSET Rules /\ cacheTs \in Nat /\ cacheTs <= now
    BY WorldStep DEF Types, CacheOK
  <2>3. \A q \in Requests : req[q].readAt \in Nat /\ req[q].readAt <= now /\ req[q].read \in SUBSET Rules
    BY DEF Types, RequestsOK, Locals
  <2> QED
    BY <2>1, <2>2, <2>3, WorldStep DEF Types, RequestsOK
<1>1. Reflects(cache, cacheTs)'
  <2>1. CASE UNCHANGED <<cache, cacheTs>>
    <3>1. Lasts(cache, cacheTs)
      BY <1>0, ReflectsLasts DEF RuleInv
    <3> QED
      BY <2>1, <3>1 DEF Lasts, Reflects, Active
  <2>2. CASE Invalidate
    <3>1. cacheTs' = 0 /\ cache' = cache
      BY <2>2 DEF Invalidate
    <3> QED
      BY <1>0, <3>1 DEF Reflects
  <2>3. ASSUME NEW q \in Requests, Fill(q)
        PROVE  Reflects(cache, cacheTs)'
    <3>1. cache' = req[q].read /\ cacheTs' = req[q].readAt /\ pc[q] = "fill"
      BY <2>3 DEF Fill, Filled
    <3>2. Lasts(req[q].read, req[q].readAt)
      BY <1>0, <3>1, ReflectsLasts DEF RuleInv
    <3> QED
      BY <3>1, <3>2 DEF Lasts, Reflects, Active
  <2> QED
    BY <2>1, <2>2, <2>3, CacheSteps
<1>2. ASSUME NEW q \in Requests, pc'[q] = "fill"
      PROVE  Reflects(req[q].read, req[q].readAt)'
  <2>1. CASE pc'[q] = pc[q] /\ req'[q] = req[q]
    <3>1. Lasts(req[q].read, req[q].readAt)
      BY <1>0, <1>2, <2>1, ReflectsLasts DEF RuleInv
    <3> QED
      BY <2>1, <3>1 DEF Lasts, Reflects, Active
  <2>2. CASE Query(q) /\ req' = [req EXCEPT ![q].read = {r \in Rules : Active(r)}]
    <3>1. req'[q].read = {r \in Rules : Active(r)} /\ req'[q].readAt = req[q].readAt
      BY <1>0, <2>2 DEF Locals
    <3>2. UNCHANGED <<now, rules>>
      BY <2>2 DEF Query, analystVars
    <3> QED
      BY <1>0, <3>1, <3>2 DEF Reflects, Active
  <2> QED
    BY <1>2, <2>1, <2>2, Reading
<1>3. ASSUME NEW a \in AlertIds'
      PROVE  alerts'[a].time <= now'
  <2>1. CASE a \in AlertIds
    <3>1. alerts'[a].time = alerts[a].time /\ alerts[a].time <= now /\ alerts[a].time \in Nat
      <4>1. alerts[a] \in AlertRow
        BY <2>1, TableFacts DEF Types
      <4> QED
        BY <2>1, <4>1, KeysStay, Parameters DEF RuleInv, AlertRow
    <3> QED
      BY <1>0, <3>1
  <2>2. CASE a \notin AlertIds
    <3>1. CASE \E q \in Requests : Fire(q)
      BY <1>0, <2>2, <3>1, FireAppends
    <3>2. AlertIds' = AlertIds \/ \E q \in Requests : Fire(q)
      BY Steps DEF Quiet, Stays, Moves, Ends, Fails, Fated, AlertIds
    <3> QED
      BY <2>2, <3>1, <3>2
  <2> QED
    BY <2>1, <2>2
<1>4. ASSUME NEW q \in Requests, pc'[q] \in {"query", "fill"}
      PROVE  alerts'[MyAlert(q)'].time <= req'[q].readAt
  <2>0. pc[q] \in Working => MyAlert(q) \in AlertIds /\ alerts'[MyAlert(q)].time = alerts[MyAlert(q)].time
    BY KeysStay DEF HoldsOK, AlertIds
  <2>1. CASE pc'[q] = pc[q] /\ req'[q] = req[q]
    BY <1>4, <2>0, <2>1, FateValues DEF RuleInv, MyAlert
  <2>2. CASE StartRefresh(q)
    <3>1. req'[q].readAt = now /\ req'[q].alert = req[q].alert /\ pc[q] = "check"
      BY <1>0, <2>2 DEF StartRefresh, Locals
    <3> QED
      BY <2>0, <3>1, FateValues DEF RuleInv, MyAlert
  <2>3. CASE Query(q) /\ req' = [req EXCEPT ![q].read = {r \in Rules : Active(r)}]
    <3>1. req'[q].readAt = req[q].readAt /\ req'[q].alert = req[q].alert /\ pc[q] = "query"
      BY <1>0, <2>3 DEF Query, Locals
    <3> QED
      BY <2>0, <3>1, FateValues DEF RuleInv, MyAlert
  <2> QED
    BY <1>4, <2>1, <2>2, <2>3, Reading
<1> QED
  BY <1>1, <1>2, <1>3, <1>4 DEF RuleInv

(* An alert is suppressed, or found to match no rule, by the loop over the rules. *)
LEMMA DecidedByMatch ==
    ASSUME Types, HoldsOK, [Next]_vars, NEW a \in AlertIds, NEW fate \in {"unmatched", "suppressed"},
           Became(a, fate)
    PROVE  \E q \in Requests : a = MyAlert(q) /\ (UseCache(q) \/ Fill(q))
<1>0. alerts[a].fate # fate /\ alerts'[a].fate = fate
  BY DEF Became
<1>1. CASE Quiet \/ \E q \in Requests : Fire(q) \/ Stays(q) \/ Ends(q)
  <2>1. alerts'[a] = alerts[a]
    BY <1>1, FireAppends DEF Quiet, Stays, Ends
  <2> QED
    BY <1>0, <2>1
<1>2. ASSUME NEW q \in Requests, Fails(q)
      PROVE  FALSE
  BY <1>0, <1>2 DEF Fails, Fated
<1>3. ASSUME NEW q \in Requests, Moves(q)
      PROVE  a = MyAlert(q) /\ (UseCache(q) \/ Fill(q))
  <2>1. PICK label \in {"rollback", "correlate", "announce"} :
           /\ label = "announce" <=> pc[q] = "commit"
           /\ Fated(MyAlert(q), FateAt(label))
    BY <1>3 DEF Moves
  <2>2. a = MyAlert(q) /\ FateAt(label) = fate
    BY <1>0, <2>1 DEF Fated
  <2>3. pc[q] # "commit"
    BY <2>1, <2>2, FateValues
  <2> QED
    BY <1>3, <2>2, <2>3 DEF Moves, Commit
<1> QED
  BY <1>1, <1>2, <1>3, Steps

LEMMA MatchDecides ==
    ASSUME Types, HoldsOK, NEW q \in Requests, pc[q] \in {"check", "fill"},
           NEW rows, NEW readable, Match(q, rows, readable)
    PROVE  /\ alerts'[MyAlert(q)].fate = "unmatched"  => \A r \in rows : MyKey(q) \notin Covers[r]
           /\ alerts'[MyAlert(q)].fate = "suppressed" => \E r \in rows : MyKey(q) \in Covers[r]
<1>0. MyAlert(q) \in AlertIds
  BY FateValues DEF HoldsOK, AlertIds
<1>1. \A fate \in Fates : SetFate(MyAlert(q), fate) => alerts'[MyAlert(q)].fate = fate
  BY <1>0, SetFateFates DEF Types, Fated
<1> QED
  BY <1>1 DEF Match, Fail, Fates

LEMMA LagBound ==
    ASSUME NEW t \in Nat, NEW loadedAt \in Nat, NEW time \in Nat, NEW created \in Nat,
           t - loadedAt < CacheTTL, time <= t, created >= loadedAt
    PROVE  created > time - CacheTTL
BY Parameters

LEMMA CacheLagsStep ==
    ASSUME Types, HoldsOK, RuleInv, [Next]_vars, NEW a \in AlertIds
    PROVE  /\ Became(a, "unmatched") =>
                \A r \in Rules : (alerts[a].key \in Covers[r] /\ rules[r].created # 0 /\ Active(r))
                                    => rules[r].created > alerts[a].time - CacheTTL
           /\ Became(a, "suppressed") =>
                \E r \in cache' : alerts[a].key \in Covers[r] /\ rules[r].expires > alerts[a].time - CacheTTL
<1>0. /\ now \in Nat /\ cacheTs \in Nat /\ alerts[a].time \in Nat /\ alerts[a].time <= now
      /\ \A r \in Rules : rules[r].created \in Nat /\ rules[r].expires \in Nat
      /\ cache \subseteq Rules
  <2>1. alerts[a] \in AlertRow
    BY TableFacts DEF Types
  <2>2. alerts[a].time \in Nat
    BY <2>1, Parameters DEF AlertRow
  <2>3. rules \in [Rules -> [created : Nat, expires : Nat]] /\ cacheTs \in 0..now /\ cache \subseteq Rules
    BY DEF Types, WorldOK, CacheOK
  <2> QED
    BY <2>2, <2>3, WorldStep DEF RuleInv
(* What the rows that were looked through say about the alert, when they reflect *)
(* the table no more than a TTL before it.                                         *)
<1>1. ASSUME NEW rows \in SUBSET Rules, NEW time \in Nat, NEW t \in Nat, Reflects(rows, time),
             t - time < CacheTTL, alerts[a].time <= t, NEW r \in Rules
      PROVE  /\ r \notin rows /\ rules[r].created # 0 /\ Active(r)
                   => rules[r].created > alerts[a].time - CacheTTL
             /\ r \in rows => rules[r].expires > alerts[a].time - CacheTTL
  <2>1. r \notin rows /\ rules[r].created # 0 /\ Active(r) => rules[r].created >= time
    BY <1>0, <1>1 DEF Reflects
  <2>2. r \in rows => rules[r].expires >= time
    BY <1>1 DEF Reflects
  <2> QED
    BY <1>0, <1>1, <2>1, <2>2, LagBound
<1>2. ASSUME NEW q \in Requests, a = MyAlert(q), UseCache(q) \/ Fill(q),
             NEW fate \in {"unmatched", "suppressed"}, Became(a, fate)
      PROVE  \E rows \in SUBSET Rules : \E time, t \in Nat :
                /\ Reflects(rows, time) /\ t - time < CacheTTL /\ alerts[a].time <= t /\ rows = cache'
                /\ fate = "unmatched"  => \A r \in rows : alerts[a].key \notin Covers[r]
                /\ fate = "suppressed" => \E r \in rows : alerts[a].key \in Covers[r]
  <2>1. CASE UseCache(q)
    <3>1. /\ now - cacheTs < CacheTTL /\ cache' = cache /\ Match(q, cache, loaded) /\ pc[q] = "check"
      BY <2>1 DEF UseCache, Fresh
    <3>2. /\ fate = "unmatched"  => \A r \in cache : alerts[a].key \notin Covers[r]
          /\ fate = "suppressed" => \E r \in cache : alerts[a].key \in Covers[r]
      BY <1>2, <3>1, MatchDecides DEF Became, MyKey
    <3> QED
      BY <1>0, <3>1, <3>2 DEF RuleInv
  <2>2. CASE Fill(q)
    <3>1. cache' = req[q].read /\ Match(q, req[q].read, TRUE) /\ pc[q] = "fill"
      BY <2>2 DEF Fill
    <3>2. /\ fate = "unmatched"  => \A r \in req[q].read : alerts[a].key \notin Covers[r]
          /\ fate = "suppressed" => \E r \in req[q].read : alerts[a].key \in Covers[r]
      BY <1>2, <3>1, MatchDecides DEF Became, MyKey
    <3>3. /\ req[q].read \in SUBSET Rules /\ req[q].readAt \in Nat
          /\ Reflects(req[q].read, req[q].readAt) /\ alerts[a].time <= req[q].readAt
      BY <1>2, <3>1 DEF Types, RequestsOK, Locals, RuleInv
    <3>4. req[q].readAt - req[q].readAt < CacheTTL
      BY <3>3, Parameters
    <3> QED
      BY <3>1, <3>2, <3>3, <3>4
  <2> QED
    BY <1>2, <2>1, <2>2
<1>3. ASSUME Became(a, "unmatched"), NEW r \in Rules, alerts[a].key \in Covers[r],
             rules[r].created # 0, Active(r)
      PROVE  rules[r].created > alerts[a].time - CacheTTL
  <2>1. PICK q \in Requests : a = MyAlert(q) /\ (UseCache(q) \/ Fill(q))
    BY <1>3, DecidedByMatch
  <2>2. PICK rows \in SUBSET Rules : \E time, t \in Nat :
           /\ Reflects(rows, time) /\ t - time < CacheTTL /\ alerts[a].time <= t
           /\ \A s \in rows : alerts[a].key \notin Covers[s]
    BY <1>2, <1>3, <2>1
  <2> QED
    BY <1>1, <1>3, <2>2
<1>4. ASSUME Became(a, "suppressed")
      PROVE  \E r \in cache' : alerts[a].key \in Covers[r] /\ rules[r].expires > alerts[a].time - CacheTTL
  <2>1. PICK q \in Requests : a = MyAlert(q) /\ (UseCache(q) \/ Fill(q))
    BY <1>4, DecidedByMatch
  <2>2. PICK rows \in SUBSET Rules : \E time, t \in Nat :
           /\ Reflects(rows, time) /\ t - time < CacheTTL /\ alerts[a].time <= t /\ rows = cache'
           /\ \E s \in rows : alerts[a].key \in Covers[s]
    BY <1>2, <1>4, <2>1
  <2> QED
    BY <1>1, <2>2
<1> QED
  BY <1>3, <1>4

(* The rule cache lags the table by no more than its TTL, although a refresh    *)
(* awaits its query, rules come and go meanwhile, and an invalidation that       *)
(* falls into it is overwritten.                                                 *)
THEOREM CacheLagsHolds == Spec => CacheLagsByTTL
<1>1. Types /\ HoldsOK /\ RuleInv /\ [Next]_vars => (Types /\ HoldsOK /\ RuleInv)'
  BY TypeStep, RuleStep
<1>2. Types /\ HoldsOK /\ RuleInv /\ [Next]_vars =>
         \A a \in DOMAIN alerts :
            /\ Became(a, "unmatched") =>
                 \A r \in Rules : (alerts[a].key \in Covers[r] /\ rules[r].created # 0 /\ Active(r))
                                     => rules[r].created > alerts[a].time - CacheTTL
            /\ Became(a, "suppressed") =>
                 \E r \in cache' : alerts[a].key \in Covers[r] /\ rules[r].expires > alerts[a].time - CacheTTL
  BY CacheLagsStep DEF AlertIds
<1> QED
  BY <1>1, <1>2, TypeInit, RuleInit, PTL DEF Spec, CacheLagsByTTL

-----------------------------------------------------------------------------
(* The refinement of AlertSink.                                            *)

(* The strengthening: the deduplication entry of a key is never older than its  *)
(* alerts, also those that were suppressed or failed.                            *)
EntryInv == \A a \in AlertIds : alerts[a].time <= dedup[alerts[a].key]

LEMMA EntryInit == Init => EntryInv
<1>1. <<>> \in Seq({}) /\ Len(<<>>) = 0
  BY EmptySeq
<1>2. DOMAIN <<>> = 1..0
  BY <1>1, LenProperties
<1> QED
  BY <1>2 DEF Init, EntryInv, AlertIds

LEMMA RowFields ==
    ASSUME Types
    PROVE  /\ \A a \in AlertIds : /\ alerts[a].key \in Keys /\ alerts[a].time \in 0..MaxTime
                                  /\ alerts[a].time \in Nat /\ alerts[a].fate \in Fates
           /\ \A k \in Keys : dedup[k] \in Nat /\ dedup[k] <= now
           /\ now \in Nat /\ now \in 0..MaxTime /\ now > DedupWindow /\ DedupWindow \in Nat
<1>1. \A a \in AlertIds : /\ alerts[a].key \in Keys /\ alerts[a].time \in 0..MaxTime
                          /\ alerts[a].fate \in Fates
  BY TableFacts DEF Types, AlertRow
<1>2. now \in StartTime..MaxTime /\ dedup \in [Keys -> 0..now]
  BY DEF Types, WorldOK
<1>3. now \in Nat /\ now \in 0..MaxTime /\ now > DedupWindow
  BY <1>2, Parameters
<1>4. \A k \in Keys : dedup[k] \in Nat /\ dedup[k] <= now
  BY <1>2, <1>3
<1> QED
  BY <1>1, <1>3, <1>4, Parameters

LEMMA EntryStep ==
    ASSUME Types, HoldsOK, EntryInv, [Next]_vars
    PROVE  EntryInv'
<1>0. dedup \in [Keys -> 0..now]
  BY DEF Types, WorldOK
<1>1. CASE \E q \in Requests : Fire(q)
  <2>1. PICK k \in Keys :
           /\ dedup' = [dedup EXCEPT ![k] = now]
           /\ AlertIds' = AlertIds \cup {Len(alerts) + 1}
           /\ \A a \in AlertIds : alerts'[a] = alerts[a]
           /\ alerts'[Len(alerts) + 1].key = k /\ alerts'[Len(alerts) + 1].time = now
    BY <1>1, FireAppends
  <2>2. \A l \in Keys : dedup'[l] = IF l = k THEN now ELSE dedup[l]
    BY <1>0, <2>1
  <2> QED
    BY <2>1, <2>2, RowFields DEF EntryInv
<1>2. ASSUME NEW q \in Requests, Answer(q) \/ RequestStep(q)
      PROVE  dedup' = dedup
  BY <1>2 DEF Answer, RequestStep, Flush, UseCache, StartRefresh, Query, Fill, Rollback, Count, Lookup,
              Commit, CommitFails, Announce
<1>3. CASE ~ \E q \in Requests : Fire(q)
  <2>1. dedup' = dedup
    BY <1>2, <1>3 DEF Next, Tick, Invalidate, CreateRule, DeleteRule, ReadIncident, WriteIncident, vars
  <2>2. AlertIds' = AlertIds
    BY <1>3, Steps DEF Quiet, Stays, Moves, Ends, Fails, Fated, AlertIds
  <2> QED
    BY <2>1, <2>2, KeysStay DEF EntryInv
<1> QED
  BY <1>1, <1>3

(* The alerts as the sink sees them. *)
Mapped == [a \in AlertIds |-> [key   |-> alerts[a].key, time |-> alerts[a].time,
                               state |-> SinkState(alerts[a].fate)]]

LEMMA SinkStates ==
    /\ SinkState("open") = "open" /\ SinkState("unmatched") = "open" /\ SinkState("stored") = "stored"
    /\ SinkState("suppressed") = "dropped" /\ SinkState("failed") = "dropped"
BY DEF SinkState

LEMMA SinkFated ==
    ASSUME NEW a, NEW fate \in Fates, Fated(a, fate), SinkState(alerts[a].fate) = "open"
    PROVE  Sink!Next \/ Mapped' = Mapped
<1>1. /\ a \in AlertIds /\ AlertIds' = AlertIds /\ alerts'[a].fate = fate
      /\ \A b \in AlertIds : alerts'[b].key = alerts[b].key /\ alerts'[b].time = alerts[b].time
      /\ \A b \in AlertIds : b # a => alerts'[b].fate = alerts[b].fate
  BY DEF Fated
<1>2. CASE SinkState(fate) = "open"
  BY <1>1, <1>2 DEF Mapped
<1>3. CASE SinkState(fate) \in {"stored", "dropped"}
  <2>1. Mapped[a].state = "open" /\ a \in DOMAIN Mapped
    BY <1>1 DEF Mapped
  <2>2. Mapped' = [Mapped EXCEPT ![a].state = SinkState(fate)]
    <3>1. DOMAIN Mapped' = AlertIds /\ DOMAIN Mapped = AlertIds
      BY <1>1 DEF Mapped
    <3>2. Mapped' = [b \in AlertIds |-> Mapped'[b]]
      BY <1>1 DEF Mapped
    <3>3. \A b \in AlertIds : b # a => Mapped'[b] = Mapped[b]
      BY <1>1 DEF Mapped
    <3>4. Mapped'[a] = [Mapped[a] EXCEPT !.state = SinkState(fate)]
      BY <1>1 DEF Mapped
    <3>5. \A b \in AlertIds : [Mapped EXCEPT ![a].state = SinkState(fate)][b] = Mapped'[b]
      BY <3>1, <3>3, <3>4
    <3> QED
      BY <3>1, <3>2, <3>5
  <2>3. Sink!Decide(a, SinkState(fate))
    BY <2>1, <2>2 DEF Sink!Decide, Mapped, AlertIds
  <2> QED
    BY <1>3, <2>1, <2>3 DEF Sink!Next, Mapped, AlertIds
<1> QED
  BY <1>2, <1>3, SinkStates DEF Fates

LEMMA SinkFire ==
    ASSUME Types, EntryInv, NEW q \in Requests, Fire(q)
    PROVE  Sink!Next
<1> DEFINE Row == [key : Keys, time : 0..MaxTime, state : {"open", "stored", "dropped"}]
<1>1. PICK k \in Keys :
         /\ ~Repeats(k) /\ Len(alerts') = Len(alerts) + 1
         /\ AlertIds' = AlertIds \cup {Len(alerts) + 1}
         /\ \A a \in AlertIds : alerts'[a] = alerts[a]
         /\ alerts'[Len(alerts) + 1].key = k /\ alerts'[Len(alerts) + 1].time = now
         /\ alerts'[Len(alerts) + 1].fate = "open"
  BY FireAppends
<1>2. PICK t \in 0..MaxTime : t = now
  BY RowFields
<1> DEFINE row == [key |-> k, time |-> t, state |-> "open"]
<1>3. ASSUME NEW a \in AlertIds, alerts[a].key = k
      PROVE  t - alerts[a].time >= DedupWindow
  <2>1. alerts[a].time <= dedup[k]
    BY <1>3 DEF EntryInv
  <2>2. dedup[k] = 0 \/ now - dedup[k] >= DedupWindow
    BY <1>1, RowFields DEF Repeats
  <2> QED
    BY <1>2, <2>1, <2>2, RowFields
<1>4. Len(alerts) \in Nat /\ AlertIds = 1..Len(alerts) /\ AlertIds' = 1..(Len(alerts) + 1)
  <2>1. Len(alerts) \in Nat /\ AlertIds = 1..Len(alerts)
    BY TableFacts DEF Types
  <2> QED
    BY <1>1, <2>1
<1>5. row \in Row
  OBVIOUS
<1>6. \A a \in AlertIds : SinkState(alerts[a].fate) \in {"open", "stored", "dropped"}
  BY RowFields, SinkStates DEF Fates
<1>7. Mapped \in [1..Len(alerts) -> Row]
  BY <1>4, <1>6, RowFields DEF Mapped
<1>8. /\ \A a \in 1..Len(alerts) : Mapped'[a] = Mapped[a]
      /\ Mapped'[Len(alerts) + 1] = row /\ DOMAIN Mapped' = 1..(Len(alerts) + 1)
      /\ Mapped' = [a \in 1..(Len(alerts) + 1) |-> Mapped'[a]]
  BY <1>1, <1>2, <1>4, SinkStates DEF Mapped
<1> HIDE DEF row, Row
<1>9. Mapped' \in [1..(Len(alerts) + 1) -> Row]
  BY <1>4, <1>5, <1>7, <1>8
<1>10. Mapped \in Seq(Row) /\ Mapped' \in Seq(Row)
  BY <1>4, <1>7, <1>9, SeqDef
<1>11. Len(Mapped) = Len(alerts) /\ Len(Mapped') = Len(alerts) + 1
  BY <1>4, <1>7, <1>9, <1>10, LenProperties
<1>12. Mapped' = Append(Mapped, row)
  <2>1. /\ Append(Mapped, row) \in Seq(Row) /\ Len(Append(Mapped, row)) = Len(alerts) + 1
        /\ \A a \in 1..Len(alerts) : Append(Mapped, row)[a] = Mapped[a]
        /\ Append(Mapped, row)[Len(alerts) + 1] = row
    BY <1>5, <1>10, <1>11, AppendProperties
  <2>2. \A a \in 1..(Len(alerts) + 1) : Mapped'[a] = Append(Mapped, row)[a]
    BY <1>4, <1>8, <2>1
  <2> QED
    BY <1>10, <1>11, <2>1, <2>2, SeqEqual
<1>13. \A a \in DOMAIN Mapped : Mapped[a].key = k => t - Mapped[a].time >= DedupWindow
  BY <1>3 DEF Mapped
<1>14. Sink!Accept(k, t)
  BY <1>12, <1>13 DEF Sink!Accept, Mapped, AlertIds, row
<1> QED
  BY <1>14 DEF Sink!Next

LEMMA SinkStep ==
    ASSUME Types, HoldsOK, EntryInv, [Next]_vars
    PROVE  Sink!Next \/ Mapped' = Mapped
<1>1. CASE Quiet \/ \E q \in Requests : Stays(q) \/ Ends(q)
  <2>1. alerts' = alerts
    BY <1>1 DEF Quiet, Stays, Ends
  <2> QED
    BY <2>1 DEF Mapped, AlertIds
<1>2. CASE \E q \in Requests : Fire(q)
  BY <1>2, SinkFire
<1>3. ASSUME NEW q \in Requests, Moves(q) \/ Fails(q)
      PROVE  Sink!Next \/ Mapped' = Mapped
  <2>1. PICK fate \in Fates : Fated(MyAlert(q), fate)
    BY <1>3, FateValues DEF Moves, Fails, Fates
  <2>2. alerts[MyAlert(q)].fate = FateAt(pc[q]) /\ FateAt(pc[q]) \in {"open", "unmatched"}
    BY <1>3 DEF Moves, Fails, Leaves, HoldsOK
  <2> QED
    BY <2>1, <2>2, SinkFated, SinkStates
<1> QED
  BY <1>1, <1>2, <1>3, Steps

(* The API accepts, stores and drops alerts as AlertSink says, for any number of *)
(* concurrent requests, addresses and rules and through every failure: two       *)
(* alerts of a key are a window apart, and each is stored at most once or        *)
(* dropped for good.                                                              *)
THEOREM PredictIsSink == Spec => ImplementsSink
<1>1. Types /\ HoldsOK /\ EntryInv /\ [Next]_vars => (Types /\ HoldsOK /\ EntryInv)'
  BY TypeStep, EntryStep
<1>2. Init => Sink!Init
  <2>1. <<>> \in Seq({}) /\ Len(<<>>) = 0
    BY EmptySeq
  <2>2. DOMAIN <<>> = 1..0
    BY <2>1, LenProperties
  <2>3. ASSUME Init PROVE Mapped = <<>>
    <3>1. AlertIds = {} /\ DOMAIN <<>> = {}
      BY <2>2, <2>3 DEF Init, AlertIds
    <3>2. Mapped \in [1..0 -> {}]
      BY <3>1 DEF Mapped
    <3>3. Mapped \in Seq({}) /\ Len(Mapped) = 0
      BY <3>2, SeqDef, LenProperties
    <3> QED
      BY <3>3, EmptySeq
  <2> QED
    BY <2>3 DEF Sink!Init, Mapped, AlertIds
<1>3. Types /\ HoldsOK /\ EntryInv /\ [Next]_vars => [Sink!Next]_Mapped
  BY SinkStep
<1> QED
  BY <1>1, <1>2, <1>3, TypeInit, EntryInit, PTL DEF Spec, ImplementsSink, Sink!Spec, Mapped, AlertIds
=============================================================================
