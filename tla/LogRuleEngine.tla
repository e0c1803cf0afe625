--------------------------- MODULE LogRuleEngine ---------------------------
(***************************************************************************)
(* Log watching: rules loaded and validated (src/src/logwatch/rules.py)    *)
(* are evaluated over events in time order (logwatch/engine.py), each over *)
(* a sliding window per rule and key, with bounded memory.  What fires is  *)
(* stored as an alert (logwatch/persist.py).                               *)
(***************************************************************************)
EXTENDS Integers, Sequences, SequencesExt, FiniteSets

CONSTANTS
    LogRules,        \* the rules files: name -> rule as written
    LogEvents,       \* what a parsed line can say: service, ip, user, method, path, status
    NoKey,           \* an event names no ip, or no user
    Trusted,         \* addresses of trusted networks
    MaxWindowEvents, \* MAX_WINDOW_EVENTS
    MaxKeysPerRule,  \* MAX_KEYS_PER_RULE
    LogMaxTime,      \* bound: timestamps
    MaxLogEvents     \* bound: events

(* load_rules: one rule that is malformed, and no rule at all is loaded. *)
RuleSeverities == {"low", "medium", "high", "critical"}
ValidRule(r) ==
    /\ r.severity \in RuleSeverities /\ r.groupBy \in {"ip", "user"}
    /\ r.threshold >= 1 /\ r.window >= 1 /\ r.cooldown >= 0
    /\ r.conditions # {}
Loaded == IF \A n \in DOMAIN LogRules : ValidRule(LogRules[n]) THEN DOMAIN LogRules ELSE {}

(* A condition leaves a field out by listing every value of it. *)
Satisfies(c, ev) == ev.method \in c.methods /\ ev.path \in c.paths /\ ev.status \in c.statuses
Matches(r, ev) == ev.service = r.service /\ \E c \in r.conditions : Satisfies(c, ev)

KeyOf(r, ev) == IF r.groupBy = "ip" THEN ev.ip ELSE ev.user
Concerned(n, ev) == /\ Matches(LogRules[n], ev)
                    /\ LogRules[n].untrustedOnly => ev.ip \notin Trusted
                    /\ KeyOf(LogRules[n], ev) # NoKey

Slots == Loaded \X ({ev.ip : ev \in LogEvents} \cup {ev.user : ev \in LogEvents})

VARIABLES
    logTime,   \* timestamp of the last event
    logHits,   \* _hits: timestamps per slot
    slotOrder, \* the slots of _hits, in the order they were inserted
    lastAlert, \* _last_alert, -1 if none
    fed,       \* every event a slot was concerned with (history)
    fired,     \* the alerts stored for each slot
    evicted    \* slots that were evicted at some time (history)

logVars == <<logTime, logHits, slotOrder, lastAlert, fed, fired, evicted>>

Init ==
    /\ logTime = 0 /\ slotOrder = <<>> /\ evicted = {}
    /\ logHits = [s \in Slots |-> <<>>] /\ lastAlert = [s \in Slots |-> -1]
    /\ fed = [s \in Slots |-> <<>>] /\ fired = [s \in Slots |-> <<>>]

(* _evict_if_full: expired slots of the rule go first, then the oldest inserted. *)
OfRule(order, n) == SelectSeq(order, LAMBDA s : s[1] = n)
Expired(s, ts) == logHits[s] = <<>> \/ Last(logHits[s]) < ts - LogRules[s[1]].window
Victims(n, ts) ==
    LET mine == OfRule(slotOrder, n)
        live == SelectSeq(mine, LAMBDA s : ~Expired(s, ts))
        over == Len(live) + 1 - MaxKeysPerRule
    IN  IF Len(mine) < MaxKeysPerRule THEN {}
        ELSE (ToSet(mine) \ ToSet(live)) \cup (IF over > 0 THEN ToSet(SubSeq(live, 1, over)) ELSE {})

Kept(times, ts, window) == SelectSeq(times, LAMBDA t : t >= ts - window)

(* A deque of bounded length forgets its first element. *)
Bounded(times) == IF Len(times) > MaxWindowEvents THEN Tail(times) ELSE times

(* Mutant of Fires: the cooldown is not looked at. *)
FiresAgain(s, times, ts) == Len(times) >= LogRules[s[1]].threshold

Fires(s, times, ts) ==
    /\ Len(times) >= LogRules[s[1]].threshold
    /\ lastAlert[s] = -1 \/ ts - lastAlert[s] >= LogRules[s[1]].cooldown

(* persist_alert: the severity gives the score, and a key stands in for a missing address. *)
SeverityScore == [low |-> 30, medium |-> 60, high |-> 80, critical |-> 100]
Stored(s, ev, ts, times) ==
    [at |-> ts, src |-> IF ev.ip = NoKey THEN s[2] ELSE ev.ip, count |-> Len(times),
     severity |-> LogRules[s[1]].severity, score |-> SeverityScore[LogRules[s[1]].severity]]

(* feed(): every concerned rule observes the event, each in its own slots. *)
Feed(ts, ev) ==
    LET rules   == {n \in Loaded : Concerned(n, ev)}
        slot(n) == <<n, KeyOf(LogRules[n], ev)>>
        mine    == {slot(n) : n \in rules}
        new     == {s \in mine : s \notin ToSet(slotOrder)}
        gone    == UNION {Victims(s[1], ts) : s \in new}
        hitsNow(s) == Kept(Bounded(Append(logHits[s], ts)), ts, LogRules[s[1]].window)
        fires   == {s \in mine : Fires(s, hitsNow(s), ts)}
    IN  /\ logTime' = ts
        /\ slotOrder' = SelectSeq(slotOrder, LAMBDA s : s \notin gone) \o SetToSeq(new)
        /\ logHits' = [s \in Slots |-> IF s \in mine THEN hitsNow(s) ELSE IF s \in gone THEN <<>> ELSE logHits[s]]
        /\ lastAlert' = [s \in Slots |-> IF s \in fires THEN ts ELSE IF s \in gone THEN -1 ELSE lastAlert[s]]
        /\ fed' = [s \in Slots |-> IF s \in mine THEN Append(fed[s], ts) ELSE fed[s]]
        /\ fired' = [s \in Slots |-> IF s \in fires THEN Append(fired[s], Stored(s, ev, ts, hitsNow(s))) ELSE fired[s]]
        /\ evicted' = evicted \cup gone

FeedNext ==
    /\ FoldFunction(LAMBDA times, n : n + Len(times), 0, fed) < MaxLogEvents
    /\ \E ts \in logTime..LogMaxTime, ev \in LogEvents : Feed(ts, ev)

Next == FeedNext
Spec == Init /\ [][Next]_logVars

-----------------------------------------------------------------------------

(* How often the slot's rule would have counted at time ts, had nothing been forgotten. *)
TrueCount(s, ts) == Len(SelectSeq(fed[s], LAMBDA t : ts - LogRules[s[1]].window <= t /\ t <= ts))

(***************************************************************************)
(* Bounded memory costs no false alarm: an alert counts no more events     *)
(* than there were in its window, and at least the threshold.  A slot that *)
(* was never evicted keeps its cooldown, and fires whenever the whole      *)
(* history would make it fire.  No rule remembers more keys than allowed.  *)
(***************************************************************************)
LogAlertsMatchHistory ==
    \A s \in Slots :
        LET r == LogRules[s[1]]
        IN  /\ \A i \in DOMAIN fired[s] :
                 /\ fired[s][i].count >= r.threshold
                 /\ fired[s][i].count <= TrueCount(s, fired[s][i].at)
            /\ s \notin evicted =>
                 /\ \A i \in 2..Len(fired[s]) : fired[s][i].at - fired[s][i - 1].at >= r.cooldown
                 /\ \A i \in DOMAIN fed[s] :
                      LET ts == fed[s][i]
                      IN  r.threshold <= MaxWindowEvents /\ TrueCount(s, ts) >= r.threshold =>
                            \E j \in DOMAIN fired[s] : fired[s][j].at <= ts /\ (ts - fired[s][j].at < r.cooldown \/ fired[s][j].at = ts)
            /\ Len(OfRule(slotOrder, s[1])) <= MaxKeysPerRule
=============================================================================
