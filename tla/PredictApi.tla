----------------------------- MODULE PredictApi -----------------------------
(***************************************************************************)
(* The second detection path: POST /api/predict in the API process         *)
(* (src/src/api/routers/predict.py) with the decay of repeated scores, the *)
(* in-memory deduplication, the cache of suppression rules, correlation    *)
(* into incidents, and the commit of what is stored.                       *)
(*                                                                         *)
(* Requests are coroutines of one event loop: a step is what a request     *)
(* does between two awaits at which another one can run.  Everything from  *)
(* the lists to the deduplication has no such await and is one step.  The  *)
(* database shows a request the rows others have committed, and its own.   *)
(***************************************************************************)
EXTENDS Detection

CONSTANTS
    IPs, Attacks,    \* source addresses, labels of the supervised engine
    Allowed, Blocked,\* addresses of the allowlist and of the blocklist
    Readings,        \* ip -> what the engines may say of its requests: scores, attack, rules
    Mentions,        \* ip -> the addresses whose incident title contains ip's text
    Rules, Covers,   \* suppression rules, the keys whose alerts each one matches
    Lifetimes,       \* how long a rule may be created for
    Requests, NoRequest, \* coroutines, and none of them
    Analysts,        \* who edits incidents
    DedupWindow,     \* DEDUP_WINDOW_SECS
    DecayWindow,     \* CONFIDENCE_DECAY_WINDOW
    MaxTracked,      \* MAX_TRACKED_IPS
    CacheTTL,        \* _CACHE_TTL
    CorrWindow, CorrThreshold, \* CORRELATION_WINDOW_SECS, CORRELATION_THRESHOLD
    Faults,          \* whether database calls may fail
    StartTime,       \* the clock at the start; 0 is "never"
    MaxTime,         \* bound: the clock
    MaxRequests,     \* bound: requests
    MaxEdits         \* bound: edits of incidents

Keys == IPs \X Attacks
AllReadings == UNION {Readings[ip] : ip \in IPs}

ASSUME PredictApiAssumption ==
    /\ NoRequest \notin Requests
    /\ Allowed \subseteq IPs /\ Blocked \subseteq IPs
    /\ \A ip \in IPs : \A r \in Readings[ip] : DOMAIN r.scores \subseteq Engines /\ r.attack \in Attacks
    /\ Mentions \in [IPs -> SUBSET IPs] /\ \A ip \in IPs : ip \in Mentions[ip]
    /\ Covers \in [Rules -> SUBSET Keys] /\ Lifetimes \subseteq Nat \ {0}
    /\ {DedupWindow, DecayWindow, CorrWindow, MaxTime, MaxRequests, MaxEdits} \subseteq Nat
    /\ {MaxTracked, CorrThreshold, CacheTTL} \subseteq Nat \ {0} /\ Faults \in BOOLEAN
    /\ StartTime \in 0..MaxTime
    /\ StartTime > DedupWindow /\ StartTime > DecayWindow /\ StartTime >= CacheTTL

VARIABLES
    now,        \* time.time(), utcnow()
    rules,      \* the suppression_rules table
    editing,    \* a rule has been committed whose invalidate_cache() is still to come
    dedup,      \* _api_dedup: when each key last alerted, 0 if it has no entry
    hits,       \* confidence_decay._hits: the requests whose timestamps each address has
    cache,      \* suppression._cache
    cacheTs,    \* suppression._cache_ts
    owner,      \* the request whose open session loaded the cached rules
    loaded,     \* FALSE: the cached rules' attributes are expired
    lock,       \* the request that holds _cache_lock
    pc, req,    \* a request: where it is, and its locals
    alerts,     \* alerts that passed deduplication: key, time, fate, incident
    incidents,  \* the incidents table: ip of the title, status, created_at; and as history how many
                \* there were when none was found for it, and when it was last reopened
    drafts,     \* an analyst's update_incident: the incident it has read, the status it will write
    edits,      \* how many there have been
    asked       \* the scored requests: ip, timestamp, what the engines said, and repeat_count and
                \* is_anomaly of the answer (history)

analystVars == <<rules, editing, drafts, edits>>
decayVars == <<hits, asked>>
cacheVars == <<cache, cacheTs, owner, loaded, lock>>
tableVars == <<alerts, incidents>>
vars == <<now, analystVars, dedup, decayVars, cacheVars, pc, req, tableVars>>

Goto(q, label) == pc' = [pc EXCEPT ![q] = label]
SetFate(a, fate) == alerts' = [alerts EXCEPT ![a].fate = fate]
Active(r) == rules[r].expires > now

(* The locals a request carries across its awaits. *)
Idle == [alert |-> 0, readAt |-> 0, read |-> {}, recent |-> {}, looked |-> [seen |-> 0, at |-> 0], incident |-> 0]

NoDraft == [incident |-> 0, status |-> "open"]

Init ==
    /\ now = StartTime
    /\ rules = [r \in Rules |-> [created |-> 0, expires |-> 0]] /\ editing = FALSE
    /\ dedup = [k \in Keys |-> 0]
    /\ hits = [ip \in IPs |-> {}] /\ asked = <<>>
    /\ cache = {} /\ cacheTs = 0 /\ owner = NoRequest /\ loaded = TRUE /\ lock = NoRequest
    /\ pc = [q \in Requests |-> "idle"] /\ req = [q \in Requests |-> Idle]
    /\ alerts = <<>> /\ incidents = <<>> /\ drafts = [e \in Analysts |-> NoDraft] /\ edits = 0

(***************************************************************************)
(* Lists, engines, ensemble, decay and deduplication.                      *)
(***************************************************************************)

(* Mutant of Recent: the cutoff itself still counts. *)
RecentInclusive(ip) == {n \in hits[ip] : asked[n].time >= now - DecayWindow}

Recent(ip) == {n \in hits[ip] : asked[n].time > now - DecayWindow}

(* The order of the OrderedDict is that of the last requests: each moves to the end. *)
Tracked(lists) == {ip \in IPs : lists[ip] # {}}
Oldest(lists)  == {ip \in Tracked(lists) : \A x \in Tracked(lists) \ {ip} :
                                               \E n \in lists[x] : \A m \in lists[ip] : m < n}

(* Beyond the capacity the oldest entry goes. *)
Bounded(lists) ==
    IF Cardinality(Tracked(lists)) > MaxTracked
    THEN [ip \in IPs |-> IF ip \in Oldest(lists) THEN {} ELSE lists[ip]] ELSE lists

(* Mutant of Repeats: a suppressed or failed alert is forgotten, so its key may alert again. *)
RepeatsStored(k) == \E a \in DOMAIN alerts : /\ alerts[a].key = k /\ alerts[a].fate = "stored"
                                             /\ now - alerts[a].time < DedupWindow

Repeats(k) == dedup[k] # 0 /\ now - dedup[k] < DedupWindow

(* A listed address is answered without being scored, tracked or stored. *)
Scored(ip) == ip \notin Allowed \cup Blocked

(* is_anomaly of the answer to a reading whose score is decayed so many times *)
Verdict(reading, repeats) ==
    IsAnomaly(Decayed(Combined(reading.scores, reading.attack, reading.rules, {}), repeats))

(* Whatever the verdict is, the request counts for the next ones. *)
Track(ip, reading) ==
    LET repeats == Cardinality(Recent(ip))
    IN  /\ hits'  = Bounded([hits EXCEPT ![ip] = Recent(ip) \cup {Len(asked) + 1}])
        /\ asked' = Append(asked, [ip |-> ip, time |-> now, reading |-> reading, repeats |-> repeats,
                                    anomaly |-> Verdict(reading, repeats)])

Alerting(ip, reading) == Verdict(reading, Cardinality(Recent(ip)))

(* The request ends in its first step: below the threshold after decay, or a repeat. *)
Answer(q) ==
    /\ pc[q] = "idle" /\ Len(asked) < MaxRequests
    /\ \E ip \in IPs : \E reading \in Readings[ip] :
        /\ Scored(ip) /\ (~Alerting(ip, reading) \/ Repeats(<<ip, reading.attack>>))
        /\ Track(ip, reading)
    /\ UNCHANGED <<now, analystVars, dedup, cacheVars, pc, req, tableVars>>

(* The dedup entry is written here, before anything is stored. *)
Fire(q) ==
    /\ pc[q] = "idle" /\ Len(asked) < MaxRequests
    /\ \E ip \in IPs : \E reading \in Readings[ip] :
        LET k == <<ip, reading.attack>>
        IN  /\ Scored(ip) /\ Alerting(ip, reading) /\ ~Repeats(k)
            /\ Track(ip, reading)
            /\ dedup' = [dedup EXCEPT ![k] = now]
            /\ alerts' = Append(alerts, [key |-> k, time |-> now, fate |-> "open", incident |-> 0])
    /\ req' = [req EXCEPT ![q] = [Idle EXCEPT !.alert = Len(alerts) + 1]]
    /\ Goto(q, "flush")
    /\ UNCHANGED <<now, analystVars, cacheVars, incidents>>

MyAlert(q) == req[q].alert
MyKey(q)   == alerts[MyAlert(q)].key
MyIp(q)    == MyKey(q)[1]

(* Leaving get_db closes the session: what it loaded stays readable, or expired. *)
End(q) ==
    /\ Goto(q, "idle")
    /\ req' = [req EXCEPT ![q] = Idle]
    /\ owner' = IF owner = q THEN NoRequest ELSE owner

(* A rollback expires every object its session has loaded. *)
ExpireRulesOf(q) == loaded' = (loaded /\ owner # q)

(* An exception leaves the handler: the client gets a 500, the row is gone, *)
(* the dedup entry stays.                                                    *)
Fail(q) == SetFate(MyAlert(q), "failed") /\ End(q)

(* db.flush() inserts the row, which nobody else sees yet. *)
Flush(q) ==
    /\ pc[q] = "flush"
    /\ \/ Goto(q, "check") /\ UNCHANGED <<alerts, req, owner>>
       \/ Faults /\ Fail(q)
    /\ UNCHANGED <<now, analystVars, dedup, decayVars, cache, cacheTs, loaded, lock, incidents>>

(***************************************************************************)
(* find_suppressing_rule.                                                  *)
(***************************************************************************)

(* What the loop over the cached rules does with the alert, with no await      *)
(* between it and the end of the refresh: reading an expired rule raises.       *)
Match(q, rows, readable) ==
    \/ rows # {} /\ ~readable /\ Fail(q)
    \/ /\ rows = {} \/ readable
       /\ IF \E r \in rows : MyKey(q) \in Covers[r]
          THEN SetFate(MyAlert(q), "suppressed") /\ Goto(q, "rollback")
          ELSE SetFate(MyAlert(q), "unmatched") /\ Goto(q, "correlate")
       /\ owner' = IF lock = q THEN q ELSE owner
       /\ UNCHANGED req

Fresh == now - cacheTs < CacheTTL

UseCache(q) ==
    /\ pc[q] = "check" /\ lock = NoRequest /\ Fresh
    /\ UNCHANGED <<cache, cacheTs, loaded, lock>>
    /\ Match(q, cache, loaded)
    /\ UNCHANGED <<now, analystVars, dedup, decayVars, incidents>>

(* The clock is read before the query is sent. *)
StartRefresh(q) ==
    /\ pc[q] = "check" /\ lock = NoRequest /\ ~Fresh
    /\ lock' = q
    /\ req' = [req EXCEPT ![q].readAt = now]
    /\ Goto(q, "query")
    /\ UNCHANGED <<now, analystVars, dedup, decayVars, cache, cacheTs, owner, loaded, tableVars>>

(* The database answers with the rules that count at that moment. *)
Query(q) ==
    /\ pc[q] = "query"
    /\ \/ /\ req' = [req EXCEPT ![q].read = {r \in Rules : Active(r)}]
          /\ Goto(q, "fill")
          /\ UNCHANGED <<alerts, owner, lock>>
       \/ Faults /\ lock' = NoRequest /\ Fail(q)
    /\ UNCHANGED <<now, analystVars, dedup, decayVars, cache, cacheTs, loaded, incidents>>

(* Mutant of Filled: the age of the cache starts when it is filled. *)
FilledNow(q) == now

Filled(q) == req[q].readAt

(* An invalidation that came during the query is overwritten. *)
Fill(q) ==
    /\ pc[q] = "fill"
    /\ cache' = req[q].read /\ cacheTs' = Filled(q) /\ loaded' = TRUE /\ lock' = NoRequest
    /\ Match(q, req[q].read, TRUE)
    /\ UNCHANGED <<now, analystVars, dedup, decayVars, incidents>>

(* The suppressed row is rolled back, and with it the session's rules expire. *)
Rollback(q) ==
    /\ pc[q] = "rollback"
    /\ ExpireRulesOf(q)
    /\ End(q)
    /\ UNCHANGED <<now, analystVars, dedup, decayVars, cache, cacheTs, lock, tableVars>>

(***************************************************************************)
(* correlate_alert and the commit.                                         *)
(***************************************************************************)

(* Other committed alerts of the address within the correlation window. *)
RecentAlerts(q) ==
    {a \in DOMAIN alerts : /\ alerts[a].fate = "stored" /\ alerts[a].key[1] = MyIp(q)
                           /\ alerts[a].time >= now - CorrWindow}

Count(q) ==
    /\ pc[q] = "correlate"
    /\ IF Cardinality(RecentAlerts(q)) < CorrThreshold - 1
       THEN Goto(q, "commit") /\ UNCHANGED req
       ELSE /\ Goto(q, "lookup")
            /\ req' = [req EXCEPT ![q].recent = {a \in RecentAlerts(q) : alerts[a].incident = 0}]
    /\ UNCHANGED <<now, analystVars, dedup, decayVars, cacheVars, tableVars>>

(* Mutant of OpenIncidents: only incidents under investigation are looked for. *)
NoOpenIncidents(ip) == {}

IsOpen(status) == status \in {"open", "investigating"}

(* Open incidents whose title contains the text of the address. *)
OpenIncidents(ip) == {i \in DOMAIN incidents : IsOpen(incidents[i].status) /\ incidents[i].ip \in Mentions[ip]}

NewIncident == -1

(* The newest open incident, or a new one for the recent alerts and this one. *)
Lookup(q) ==
    /\ pc[q] = "lookup"
    /\ LET found == OpenIncidents(MyIp(q))
       IN  \/ /\ found = {}
              /\ req' = [req EXCEPT ![q].incident = NewIncident, ![q].looked = [seen |-> Len(incidents), at |-> now]]
           \/ \E i \in found :
              /\ \A j \in found : incidents[j].made <= incidents[i].made
              /\ req' = [req EXCEPT ![q].incident = i, ![q].recent = {}]
    /\ Goto(q, "commit")
    /\ UNCHANGED <<now, analystVars, dedup, decayVars, cacheVars, tableVars>>

Commit(q) ==
    LET new    == req[q].incident = NewIncident
        number == IF new THEN Len(incidents) + 1 ELSE req[q].incident
    IN  /\ pc[q] = "commit"
        /\ alerts' = [a \in DOMAIN alerts |->
                        IF a = MyAlert(q) THEN [alerts[a] EXCEPT !.fate = "stored", !.incident = number]
                        ELSE IF a \in req[q].recent THEN [alerts[a] EXCEPT !.incident = number]
                        ELSE alerts[a]]
        /\ incidents' = IF new THEN Append(incidents, [ip |-> MyIp(q), status |-> "open", made |-> req[q].looked.at,
                                                           seen |-> req[q].looked.seen, back |-> 0])
                        ELSE incidents
        /\ Goto(q, "announce")
        /\ UNCHANGED <<now, analystVars, dedup, decayVars, cacheVars, req>>

(* A write that fails in a flush rolls back; a commit that fails does not. *)
CommitFails(q) ==
    /\ pc[q] = "commit" /\ Faults
    /\ ExpireRulesOf(q) \/ UNCHANGED loaded
    /\ Fail(q)
    /\ UNCHANGED <<now, analystVars, dedup, decayVars, cache, cacheTs, lock, incidents>>

(* The broadcast, which WebSocketHub models, and the notification of whom the *)
(* severity concerns; a failure of db.refresh skips both.                      *)
Announce(q) ==
    /\ pc[q] = "announce"
    /\ End(q)
    /\ UNCHANGED <<now, analystVars, dedup, decayVars, cache, cacheTs, loaded, lock, tableVars>>

(***************************************************************************)
(* Analysts and the clock.                                                 *)
(***************************************************************************)
Tick ==
    /\ now < MaxTime
    /\ now' = now + 1
    /\ UNCHANGED <<analystVars, dedup, decayVars, cacheVars, pc, req, tableVars>>

(* create_suppression_rule up to its commit *)
CreateRule(r) ==
    /\ ~editing /\ rules[r].created = 0
    /\ \E life \in Lifetimes : rules' = [rules EXCEPT ![r] = [created |-> now, expires |-> now + life]]
    /\ editing' = TRUE
    /\ UNCHANGED <<now, drafts, edits, dedup, decayVars, cacheVars, pc, req, tableVars>>

(* delete_suppression_rule: to every query the same as letting the rule expire now *)
DeleteRule(r) ==
    /\ ~editing /\ Active(r)
    /\ rules' = [rules EXCEPT ![r].expires = now]
    /\ editing' = TRUE
    /\ UNCHANGED <<now, drafts, edits, dedup, decayVars, cacheVars, pc, req, tableVars>>

(* invalidate_cache(), after the commit of a create, a delete or a clean-up *)
Invalidate ==
    /\ editing
    /\ cacheTs' = 0 /\ editing' = FALSE
    /\ UNCHANGED <<now, rules, drafts, edits, dedup, decayVars, cache, owner, loaded, lock, pc, req, tableVars>>

(* _INCIDENT_ORDER; what is closed is to correlation the same as what is resolved. *)
Order == [open |-> 0, investigating |-> 1, resolved |-> 2]

(* update_incident: a status may only move forward from the one it reads; a       *)
(* status that stays writes nothing.                                               *)
ReadIncident(e, i) ==
    /\ drafts[e] = NoDraft /\ edits < MaxEdits
    /\ edits' = edits + 1
    /\ \E new \in DOMAIN Order :
        /\ Order[new] > Order[incidents[i].status]
        /\ drafts' = [drafts EXCEPT ![e] = [incident |-> i, status |-> new]]
    /\ UNCHANGED <<now, rules, editing, dedup, decayVars, cacheVars, pc, req, tableVars>>

(* The commit, an await later, overwrites whatever the status is by now. *)
WriteIncident(e) ==
    LET i      == drafts[e].incident
        new    == drafts[e].status
        reopens == IsOpen(new) /\ ~IsOpen(incidents[i].status)
    IN  /\ drafts[e] # NoDraft
        /\ \/ incidents' = [incidents EXCEPT ![i].status = new, ![i].back = IF reopens THEN Len(incidents) ELSE @]
           \/ Faults /\ UNCHANGED incidents
        /\ drafts' = [drafts EXCEPT ![e] = NoDraft]
        /\ UNCHANGED <<now, rules, editing, edits, dedup, decayVars, cacheVars, pc, req, alerts>>

RequestStep(q) ==
    \/ Flush(q) \/ UseCache(q) \/ StartRefresh(q) \/ Query(q) \/ Fill(q) \/ Rollback(q)
    \/ Count(q) \/ Lookup(q) \/ Commit(q) \/ CommitFails(q) \/ Announce(q)

Next ==
    \/ \E q \in Requests : Answer(q) \/ Fire(q) \/ RequestStep(q)
    \/ Tick \/ Invalidate
    \/ \E r \in Rules : CreateRule(r) \/ DeleteRule(r)
    \/ \E e \in Analysts : WriteIncident(e) \/ \E i \in DOMAIN incidents : ReadIncident(e, i)

Spec == Init /\ [][Next]_vars

-----------------------------------------------------------------------------

(***************************************************************************)
(* Properties.                                                             *)
(***************************************************************************)

Fates     == {"open", "unmatched", "stored", "suppressed", "failed"}
Working   == {"flush", "check", "query", "fill", "rollback", "correlate", "lookup", "commit", "announce"}
Numbers   == Nat \cup {NewIncident}   \* what names an incident: 0 is none
AlertRow  == [key : Keys, time : 0..MaxTime, fate : Fates, incident : Numbers]
Incident  == [ip : IPs, status : DOMAIN Order, made : Nat, seen : Nat, back : Nat]
Locals    == [alert : Nat, readAt : Nat, read : SUBSET Rules, recent : SUBSET Nat,
              looked : [seen : Nat, at : Nat], incident : Numbers]

WorldOK == /\ now \in StartTime..MaxTime /\ editing \in BOOLEAN
           /\ rules \in [Rules -> [created : Nat, expires : Nat]]
           /\ dedup \in [Keys -> 0..now]

CacheOK == /\ cache \subseteq Rules /\ cacheTs \in 0..now /\ loaded \in BOOLEAN
           /\ {owner, lock} \subseteq Requests \cup {NoRequest}

TablesOK == alerts \in Seq(AlertRow) /\ incidents \in Seq(Incident)

DraftsOK == edits \in Nat /\ drafts \in [Analysts -> {NoDraft} \cup [incident : DOMAIN incidents, status : DOMAIN Order]]

RequestsOK == /\ pc \in [Requests -> {"idle"} \cup Working] /\ req \in [Requests -> Locals]
              /\ \A q \in Requests : req[q].readAt <= now

FateAt(label) == CASE label \in {"flush", "check", "query", "fill"}  -> "open"
                   [] label \in {"correlate", "lookup", "commit"}    -> "unmatched"
                   [] label = "rollback"                             -> "suppressed"
                   [] label = "announce"                             -> "stored"

(* A request that has fired holds an alert of its own, in the state that the   *)
(* place it has reached says: no other request decides about the same alert.    *)
HoldsOK ==
    /\ \A q \in Requests : pc[q] \in Working =>
            MyAlert(q) \in DOMAIN alerts /\ alerts[MyAlert(q)].fate = FateAt(pc[q])
    /\ \A p, q \in Requests : p # q /\ pc[p] \in Working /\ pc[q] \in Working
                                => MyAlert(p) # MyAlert(q)

DecayOK == /\ asked \in Seq([ip : IPs, time : 0..now, reading : AllReadings, repeats : Nat, anomaly : BOOLEAN])
           /\ hits \in [IPs -> SUBSET DOMAIN asked]
           /\ \A ip \in IPs : \A n \in hits[ip] : asked[n].ip = ip

TypeOK == WorldOK /\ CacheOK /\ TablesOK /\ DraftsOK /\ RequestsOK /\ HoldsOK /\ DecayOK

SinkState(fate) ==
    CASE fate \in {"open", "unmatched"}     -> "open"
      [] fate = "stored"                    -> "stored"
      [] fate \in {"suppressed", "failed"}  -> "dropped"

Sink == INSTANCE AlertSink WITH
            Times <- 0..MaxTime, Window <- DedupWindow,
            accepted <- [a \in DOMAIN alerts |-> [key   |-> alerts[a].key, time |-> alerts[a].time,
                                                  state |-> SinkState(alerts[a].fate)]]

(* The API is an alert sink: however requests interleave, and whatever fails  *)
(* or is suppressed, two anomalies of a key that pass _api_dedup are a window *)
(* apart, and each is stored at most once or dropped for good.                *)
ImplementsSink == Sink!Spec

Became(a, fate) == a \in DOMAIN alerts /\ alerts[a].fate # fate /\ alerts'[a].fate = fate

(* The rule cache is at most its TTL behind the table, although the refresh   *)
(* awaits its query and an invalidation during the query is lost: a rule that *)
(* had existed for the TTL when an alert fired, and still counts, suppresses  *)
(* it, and a rule that had ended a TTL before the alert fired does not.       *)
CacheLagsByTTL ==
    [][\A a \in DOMAIN alerts :
        /\ Became(a, "unmatched") =>
             \A r \in Rules : (alerts[a].key \in Covers[r] /\ rules[r].created # 0 /\ Active(r))
                                 => rules[r].created > alerts[a].time - CacheTTL
        /\ Became(a, "suppressed") =>
             \E r \in cache' : alerts[a].key \in Covers[r] /\ rules[r].expires > alerts[a].time - CacheTTL]_vars

(* Between requests i and n the address of i was never silent while so many others *)
(* were scored that it had to go.                                                   *)
Crowd(j, k) == {asked[l].ip : l \in j..k}
Undisturbed(i, n) ==
    \A j, k \in (i + 1)..(n - 1) : asked[i].ip \notin Crowd(j, k) => Cardinality(Crowd(j, k)) < MaxTracked

(* The answer to a request is that of its score decayed once for each earlier    *)
(* request of its address in the window, whatever the eviction of _hits removes:  *)
(* never more often, and less often only by the requests since which               *)
(* MAX_TRACKED_IPS other addresses have come in a row.  It is the scored requests  *)
(* that count, those answered as harmless too; and a match of a critical rule      *)
(* decays like any other score, until it no longer alerts.                          *)
DecayMatchesHistory ==
    \A n \in DOMAIN asked :
        LET earlier == {i \in 1..(n - 1) : /\ asked[i].ip = asked[n].ip
                                           /\ asked[i].time > asked[n].time - DecayWindow
                                           /\ Undisturbed(i, n)}
        IN  /\ asked[n].repeats = Cardinality(earlier)
            /\ asked[n].anomaly = Verdict(asked[n].reading, Cardinality(earlier))

(* correlate_alert: an address has two open incidents only by a race: of requests, *)
(* the later one finding none before the earlier one was committed, or of edits,    *)
(* one of which, by a status it had read before, reopened the earlier incident      *)
(* after the later one was found missing.                                            *)
OneIncidentUnlessRaced ==
    \A i, j \in DOMAIN incidents :
        (i < j /\ incidents[i].ip = incidents[j].ip /\ IsOpen(incidents[i].status) /\ IsOpen(incidents[j].status))
            => i > incidents[j].seen \/ incidents[i].back >= incidents[j].seen
=============================================================================
