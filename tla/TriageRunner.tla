---------------------------- MODULE TriageRunner ----------------------------
(***************************************************************************)
(* The triage agent (src/src/triage): each run picks pending alerts, asks  *)
(* a model about them one by one, validates and guards the answer, and     *)
(* stores an annotation, within a daily budget.  Runs are processes of     *)
(* their own (cron, a loop, an analyst with --alert-id) and may overlap;    *)
(* meanwhile alerts arrive, analysts acknowledge them and the Guardian     *)
(* acts on them.                                                           *)
(***************************************************************************)
EXTENDS Integers, FiniteSets, Sequences, SequencesExt

CONSTANTS
    Runners,        \* processes
    Kinds,          \* what an alert can be: severity, whether its source is whitelisted
    NamedLists,     \* alerts an analyst may name with --alert-id
    Outputs,        \* what the model may answer, well-formed or not
    MinSeverity, BatchSize, MinConfidence,
    Budget,         \* TRIAGE_DAILY_BUDGET_USD
    MaxCall,        \* what one call can cost: --max-budget-usd
    Lookback, Day,  \* in ticks
    MaxSummary, MaxFact, MaxEvidence,
    MaxAlerts, MaxAnnotations, TriageMaxTime   \* bounds

Levels          == <<"low", "medium", "high", "critical">>
AtLeast(sev)    == {Levels[i] : i \in {j \in 1..4 : \E k \in 1..j : Levels[k] = sev}}
Verdicts        == {"likely_malicious", "likely_benign", "needs_human"}
Recommendations == {"confirm_block", "undo_block", "suppress_source", "monitor", "escalate", "no_action"}
EvidenceSources == {"alert", "ip_profile", "incidents", "mitigation", "suppression", "config"}
Required        == {"verdict", "confidence", "summary", "evidence", "recommendation"}
Allowed         == Required \cup {"mitre_techniques", "missing_information"}

(* validate(): the keys first, then every value.  A text is its length, a technique whether *)
(* it has the form of an ATT&CK id, and a confidence outside 0..100 stands for any other.   *)
Valid(o) ==
    /\ Required \subseteq DOMAIN o /\ DOMAIN o \subseteq Allowed
    /\ o.verdict \in Verdicts /\ o.recommendation \in Recommendations
    /\ o.confidence \in 0..100 /\ o.summary \in 1..MaxSummary
    /\ Len(o.evidence) <= MaxEvidence
    /\ \A i \in DOMAIN o.evidence : o.evidence[i].source \in EvidenceSources /\ o.evidence[i].fact <= MaxFact
    /\ "mitre_techniques" \in DOMAIN o => Len(o.mitre_techniques) <= 5 /\ \A i \in DOMAIN o.mitre_techniques : o.mitre_techniques[i]
    /\ "missing_information" \in DOMAIN o =>
           Len(o.missing_information) <= 5 /\ \A i \in DOMAIN o.missing_information : o.missing_information[i] <= MaxFact

(* apply_guards: the model proposes, the policy decides, one guard after the other. *)
Guarded(o, hasAction, whitelisted) ==
    LET sure    == IF o.confidence < MinConfidence THEN "needs_human" ELSE o.verdict
        acted   == IF o.recommendation \in {"confirm_block", "undo_block"} /\ ~hasAction THEN "escalate" ELSE o.recommendation
        allowed == IF acted = "confirm_block" /\ whitelisted THEN "escalate" ELSE acted
    IN  IF sure = "likely_benign" /\ allowed = "confirm_block"
        THEN [verdict |-> "needs_human", recommendation |-> "escalate"]
        ELSE [verdict |-> sure, recommendation |-> allowed]

VARIABLES
    triageTime,
    alerts,       \* the alerts: severity, age, acknowledged, Guardian action
    annotations,  \* triage_annotations, oldest first; by whom, and began of its run (history)
    agent,        \* what each runner is doing; began: how many annotations there were when it started (history)
    explicit      \* alerts an analyst named on a command line (history)

triageVars == <<triageTime, alerts, annotations, agent, explicit>>

Idle == [at |-> "idle"]

Init ==
    /\ triageTime = 0 /\ alerts = <<>> /\ annotations = <<>>
    /\ agent = [r \in Runners |-> Idle] /\ explicit = {}

Annotated(id) == \E i \in DOMAIN annotations : annotations[i].alert = id

(* spent_last_24h *)
Spent == FoldSet(LAMBDA i, sum : sum + annotations[i].cost, 0,
                 {i \in DOMAIN annotations : annotations[i].at >= triageTime - Day})

Pending == {id \in DOMAIN alerts : /\ alerts[id].severity \in AtLeast(MinSeverity) /\ ~alerts[id].acked
                                   /\ alerts[id].at >= triageTime - Lookback /\ ~Annotated(id)}

(* The newest n, the newest first: one order qualifies. *)
Newest(ids, n) ==
    LET newest == {x \in ids : Cardinality({y \in ids : y > x}) < n}
    IN  {order \in [1..Cardinality(newest) -> newest] : \A i, j \in DOMAIN order : i < j => order[i] > order[j]}

(* run_once: what was spent is read once, *)
Begin(r) ==
    /\ agent[r].at = "idle" /\ Len(annotations) < MaxAnnotations
    /\ agent' = [agent EXCEPT ![r] = [at |-> "begun", ids |-> <<>>, before |-> Spent, spent |-> 0, began |-> Len(annotations)]]
    /\ UNCHANGED <<triageTime, alerts, annotations, explicit>>

(* and then once what to work on: the alerts named with --alert-id, annotated or not, known or not, *)
Take(r, ids) == agent[r].at = "begun" /\ agent' = [agent EXCEPT ![r].at = "loop", ![r].ids = ids]

TakeNamed(r) ==
    /\ \E ids \in NamedLists : Take(r, ids) /\ explicit' = explicit \cup ToSet(ids)
    /\ UNCHANGED <<triageTime, alerts, annotations>>

(* or the pending ones. *)
TakePending(r) ==
    /\ \E ids \in Newest(Pending, BatchSize) : Take(r, ids)
    /\ UNCHANGED <<triageTime, alerts, annotations, explicit>>

Finished(r) == agent[r].ids = <<>> \/ agent[r].before + agent[r].spent >= Budget

(* Nothing is left, or the budget is reached: the other alerts wait for the next run. *)
EndRun(r) ==
    /\ agent[r].at = "loop" /\ Finished(r)
    /\ agent' = [agent EXCEPT ![r] = Idle] /\ UNCHANGED <<triageTime, alerts, annotations, explicit>>

(* build_context: the alert and the policy of its source, as they are now; an unknown id is skipped. *)
Ask(r) ==
    /\ agent[r].at = "loop" /\ ~Finished(r)
    /\ LET id == Head(agent[r].ids)
       IN  agent' = [agent EXCEPT ![r] =
              IF id \notin DOMAIN alerts THEN [agent[r] EXCEPT !.ids = Tail(agent[r].ids)]
              ELSE [at |-> "asked", ids |-> @.ids, before |-> @.before, spent |-> @.spent, began |-> @.began,
                    hasAction |-> alerts[id].action, whitelisted |-> alerts[id].whitelisted]]
    /\ UNCHANGED <<triageTime, alerts, annotations, explicit>>

(* triage_alert stores what came of the call, charged or not, and the run counts its cost. *)
Annotate(r, row) ==
    /\ Len(annotations) < MaxAnnotations
    /\ annotations' = Append(annotations,
           [alert |-> Head(agent[r].ids), at |-> triageTime, status |-> row.status, verdict |-> row.verdict,
            recommendation |-> row.recommendation, confidence |-> row.confidence, cost |-> row.cost,
            by |-> r, began |-> agent[r].began])
    /\ agent' = [agent EXCEPT ![r] = [at |-> "loop", ids |-> Tail(@.ids), before |-> @.before, spent |-> @.spent + row.cost,
                                      began |-> @.began]]
    /\ UNCHANGED <<triageTime, alerts, explicit>>

(* A row without advice. *)
Failed(status, cost) == [status |-> status, verdict |-> "needs_human", recommendation |-> "none", confidence |-> 0, cost |-> cost]

(* An answer came back and parse_cli_output found its structured output. *)
Answer(r) ==
    /\ agent[r].at = "asked"
    /\ \E o \in Outputs, cost \in 0..MaxCall :
         LET kept == Guarded(o, agent[r].hasAction, agent[r].whitelisted)
         IN  Annotate(r, IF Valid(o)
                         THEN [Failed("ok", cost) EXCEPT !.verdict = kept.verdict, !.recommendation = kept.recommendation,
                                                         !.confidence = o.confidence]
                         ELSE Failed("invalid_output", cost))

(* The CLI reports an error with its cost; a timeout, or output that does not parse, has none. *)
CallFails(r) ==
    /\ agent[r].at = "asked" /\ \E cost \in {0, MaxCall} : Annotate(r, Failed("backend_error", cost))

(* Any other exception ends the process. *)
Crash(r) == agent[r].at # "idle" /\ agent' = [agent EXCEPT ![r] = Idle]
            /\ UNCHANGED <<triageTime, alerts, annotations, explicit>>

NewAlert ==
    /\ Len(alerts) < MaxAlerts
    /\ \E k \in Kinds : alerts' = Append(alerts, [severity |-> k.severity, whitelisted |-> k.whitelisted, at |-> triageTime,
                                                  acked |-> FALSE, action |-> FALSE])
    /\ UNCHANGED <<triageTime, annotations, agent, explicit>>

(* The Guardian acts on an alert, or an analyst acknowledges it. *)
OthersAct ==
    /\ \E id \in DOMAIN alerts :
         \/ ~alerts[id].action /\ alerts' = [alerts EXCEPT ![id].action = TRUE]
         \/ ~alerts[id].acked /\ alerts' = [alerts EXCEPT ![id].acked = TRUE]
    /\ UNCHANGED <<triageTime, annotations, agent, explicit>>

Tick == /\ triageTime < TriageMaxTime /\ triageTime' = triageTime + 1
        /\ UNCHANGED <<alerts, annotations, agent, explicit>>

(* get_alert: a reader is shown one annotation of an alert, by time and then by id; the agent none. *)
Shown(id) ==
    LET own == {i \in DOMAIN annotations : annotations[i].alert = id}
    IN  annotations[CHOOSE i \in own : \A j \in own :
            annotations[i].at > annotations[j].at \/ (annotations[i].at = annotations[j].at /\ i >= j)]

Next ==
    \/ NewAlert \/ OthersAct \/ Tick
    \/ \E r \in Runners : Begin(r) \/ TakeNamed(r) \/ TakePending(r) \/ EndRun(r) \/ Ask(r) \/ Answer(r) \/ CallFails(r) \/ Crash(r)

Spec == Init /\ [][Next]_triageVars

-----------------------------------------------------------------------------

(***************************************************************************)
(* When a run stores an annotation, the day up to then has cost less than  *)
(* the budget and one call, counting what was stored before the run began  *)
(* and by the run itself: all it can know of.                              *)
(***************************************************************************)
SpendIsBounded ==
    \A i \in DOMAIN annotations :
        LET row   == annotations[i]
            known == {k \in 1..i : /\ annotations[k].at >= row.at - Day
                                   /\ k <= row.began \/ annotations[k].by = row.by}
        IN  FoldSet(LAMBDA k, sum : sum + annotations[k].cost, 0, known) < Budget + MaxCall

(***************************************************************************)
(* An alert nobody named is annotated again only by another runner, whose  *)
(* run had begun before the annotation it has was stored.                  *)
(***************************************************************************)
AnnotatedOnce ==
    \A i, j \in DOMAIN annotations :
        i < j /\ annotations[i].alert = annotations[j].alert /\ annotations[i].alert \notin explicit
            => annotations[j].began < i /\ annotations[i].by # annotations[j].by

(***************************************************************************)
(* No stored annotation contradicts the policy: a mitigation is advised    *)
(* only where the Guardian acted, never for a whitelisted source, never    *)
(* for traffic called benign, and a verdict is given only with confidence. *)
(* Of several annotations of an alert, analysts see the one stored last.   *)
(***************************************************************************)
AdviceIsGuarded ==
    \A i \in DOMAIN annotations :
        LET row == annotations[i]
        IN  /\ row.recommendation \in {"confirm_block", "undo_block"} => alerts[row.alert].action
            /\ row.recommendation = "confirm_block" => ~alerts[row.alert].whitelisted /\ row.verdict # "likely_benign"
            /\ row.verdict # "needs_human" => row.status = "ok" /\ row.confidence >= MinConfidence
            /\ (\A j \in (i + 1)..Len(annotations) : annotations[j].alert # row.alert) => Shown(row.alert) = row
=============================================================================
