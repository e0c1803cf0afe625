--------------------------- MODULE AlertRecords ---------------------------
(***************************************************************************)
(* What the readers of the alert store compute: the REST routes (alerts,   *)
(* feedback, assets), the MCP queries and the dashboard.  A row of the     *)
(* alerts table is a record; its id is its position.  The readers share no *)
(* code, so each answer is stated on its own and they are compared.        *)
(***************************************************************************)
EXTENDS Integers, FiniteSets, Sequences, SequencesExt

SeverityLevels == {"low", "medium", "high", "critical"}
EngineNames    == {"supervised", "isolation_forest", "lstm", "rules"}

(* A filter that is absent is "any"; since is the oldest timestamp asked for. *)
Passes(row, f) ==
    /\ f.severity \in {"any", row.severity}
    /\ f.src = "any" \/ f.src = row.src
    /\ f.acked = "any" \/ (f.acked = "yes") = row.acked
    /\ row.at >= f.since
Matching(rows, f) == {id \in DOMAIN rows : Passes(rows[id], f)}

(* MCP: by timestamp, and by id where timestamps are equal.  Only one order qualifies. *)
NewestFirst(rows, ids) ==
    {order \in [1..Cardinality(ids) -> ids] :
        \A i, j \in DOMAIN order : i < j =>
            \/ rows[order[i]].at > rows[order[j]].at
            \/ rows[order[i]].at = rows[order[j]].at /\ order[i] > order[j]}

(* REST: by timestamp; the database chooses among equal ones, anew for every query. *)
ByTimestamp(rows, ids) ==
    {order \in [1..Cardinality(ids) -> ids] :
        \A i, j \in DOMAIN order : i < j => /\ order[i] # order[j]
                                            /\ rows[order[i]].at >= rows[order[j]].at}

Null == -1   \* no value

Clamp(value, default, low, high) ==
    IF value = Null THEN default
    ELSE IF value < low THEN low ELSE IF value > high THEN high ELSE value

Page(order, offset, limit) == SubSeq(order, offset + 1, IF offset + limit < Len(order) THEN offset + limit ELSE Len(order))

(* GET /api/alerts refuses an interval that ends before it starts. *)
Interval(rows, start, end) ==
    IF start > end THEN {} ELSE {id \in DOMAIN rows : start <= rows[id].at /\ rows[id].at <= end}

CountIf(rows, Test(_)) == Cardinality({id \in DOMAIN rows : Test(rows[id])})

Stats(rows) ==
    [total |-> Len(rows), unacknowledged |-> CountIf(rows, LAMBDA r : ~r.acked),
     bySeverity |-> [s \in SeverityLevels |-> CountIf(rows, LAMBDA r : r.severity = s)]]

(* alert_trends: one bucket per hour or day that holds an alert. *)
Trends(rows, since, width) ==
    [b \in {r.at \div width : r \in {x \in ToSet(rows) : x.at >= since}} |->
        [s \in SeverityLevels |-> CountIf(rows, LAMBDA r : r.at >= since /\ r.at \div width = b /\ r.severity = s)]]

(* GET /api/alerts/trends: the buckets are counted up row by row. *)
Bumped(counts, k) == [x \in DOMAIN counts \cup {k} |-> IF x \notin DOMAIN counts THEN 1 ELSE counts[x] + (IF x = k THEN 1 ELSE 0)]
RestTrends(rows, since, width) ==
    FoldLeft(LAMBDA data, r :
        LET b   == r.at \div width
            old == IF b \in DOMAIN data THEN data[b] ELSE [total |-> 0, bySeverity |-> <<>>]
        IN  IF r.at < since THEN data
            ELSE [x \in DOMAIN data \cup {b} |->
                     IF x = b THEN [total |-> old.total + 1, bySeverity |-> Bumped(old.bySeverity, r.severity)] ELSE data[x]],
        <<>>, rows)

(* GET /api/alerts/export: JSON and CSV, of the same alerts in the same order, without their features. *)
Export(rows, order, limit, format) ==
    LET cells == IF format = "csv" THEN {"id", "src", "severity", "acked"} ELSE {"id", "src", "severity", "acked", "engine"}
    IN  [i \in DOMAIN Page(order, 0, limit) |-> [c \in cells |-> IF c = "id" THEN order[i] ELSE rows[order[i]][c]]]

(* get_ip_profile: at most scan rows are read, the newest. *)
Profile(rows, src, since, scan) ==
    LET mine == Matching(rows, [severity |-> "any", src |-> src, acked |-> "any", since |-> since])
        read == {id \in mine : Cardinality({x \in mine : rows[x].at > rows[id].at \/ (rows[x].at = rows[id].at /\ x > id)}) < scan}
    IN  [total |-> Cardinality(read), truncated |-> Cardinality(read) >= scan,
         acknowledged |-> Cardinality({id \in read : rows[id].acked}),
         unacknowledged |-> Cardinality(read) - Cardinality({id \in read : rows[id].acked}),
         bySeverity |-> [s \in SeverityLevels |-> Cardinality({id \in read : rows[id].severity = s})],
         lastSeen |-> IF read = {} THEN 0 ELSE CHOOSE t \in {rows[id].at : id \in read} : \A id \in read : rows[id].at <= t]

IncidentAlerts(rows, incident) == CountIf(rows, LAMBDA r : r.incident = incident)

(* GET /api/assets: points per alert, at most 100. *)
Points == [low |-> 1, medium |-> 3, high |-> 7, critical |-> 15]
AlertCounts(rows, src) == [s \in SeverityLevels |-> CountIf(rows, LAMBDA r : r.src = src /\ r.severity = s)]
RiskScore(counts) ==
    LET sum == FoldSet(LAMBDA s, n : n + Points[s] * counts[s], 0, SeverityLevels)
    IN  IF sum > 100 THEN 100 ELSE sum

AssetRow(rows, host, now, newFor) ==
    LET counts == AlertCounts(rows, host.ip)
    IN  [ip |-> host.ip, isNew |-> now - host.firstSeen <= newFor, risk |-> RiskScore(counts),
         alerts |-> FoldSet(LAMBDA s, n : n + counts[s], 0, SeverityLevels)]

(* The labels analysts gave, and the rows a training set can be made of. *)
FeedbackStats(rows, threshold) ==
    LET labelled(l) == CountIf(rows, LAMBDA r : r.label = l)
    IN  [tp |-> labelled("tp"), fp |-> labelled("fp"), unknown |-> labelled("unknown"),
         exportable |-> CountIf(rows, LAMBDA r : r.label \in {"tp", "fp"} /\ r.features),
         ready |-> labelled("tp") + labelled("fp") >= threshold]
FeedbackExport(rows, limit) ==
    LET labelled == SelectSeq([id \in DOMAIN rows |-> id], LAMBDA id : rows[id].label \in {"tp", "fp"})
    IN  SelectSeq(Page(labelled, 0, limit), LAMBDA id : rows[id].features)

(* compute_adaptive_weights, for alerts whose score comes from one engine: *)
(* the share of an engine's contribution that was right, smoothed, as a    *)
(* fraction; <<>> when too few alerts are acknowledged.                    *)
AdaptiveWeights(rows, minimum) ==
    LET judged == {id \in DOMAIN rows : rows[id].acked}
        contribution(e, fp) == Cardinality({id \in judged : rows[id].engine = e /\ (rows[id].label = "fp") = fp})
    IN  IF Cardinality(judged) < minimum THEN <<>>
        ELSE [e \in EngineNames |-> [num |-> contribution(e, FALSE) + 1,
                                     den |-> contribution(e, FALSE) + contribution(e, TRUE) + 2]]

(* The dashboard's headline numbers, from the alerts it has loaded. *)
Kpis(loaded, now, day) ==
    LET within(from, to) == CountIf(loaded, LAMBDA r : from <= r.at /\ r.at < to)
    IN  [unacknowledged |-> CountIf(loaded, LAMBDA r : ~r.acked),
         critHigh |-> CountIf(loaded, LAMBDA r : r.severity \in {"critical", "high"}),
         lastDay |-> within(now - day, now + 1),
         delta |-> within(now - day, now + 1) - within(now - 2 * day, now - day),
         sources |-> Cardinality({loaded[i].src : i \in DOMAIN loaded})]

(* The alert feed filters what it has loaded, one criterion after the other; an empty one is none. *)
ApplyFilters(loaded, f) ==
    LET severe == IF f.severities = {} THEN loaded ELSE SelectSeq(loaded, LAMBDA r : r.severity \in f.severities)
        status == IF f.status = "Unacknowledged" THEN SelectSeq(severe, LAMBDA r : ~r.acked)
                  ELSE IF f.status = "Acknowledged" THEN SelectSeq(severe, LAMBDA r : r.acked) ELSE severe
        engine == IF f.engines = {} THEN status ELSE SelectSeq(status, LAMBDA r : r.engine \in f.engines)
    IN  SelectSeq(engine, LAMBDA r : r.at >= f.since)

(* trends_frame: a severity a bucket does not name is 0. *)
TrendsFrame(data) ==
    [b \in DOMAIN data |-> [s \in SeverityLevels |-> IF s \in DOMAIN data[b].bySeverity THEN data[b].bySeverity[s] ELSE 0]]

(* top_values of a column: the n most frequent. *)
TopValues(loaded, n) ==
    LET count(v) == CountIf(loaded, LAMBDA r : r.src = v)
        order == SetToSortSeq({r.src : r \in ToSet(loaded)}, LAMBDA v, w : count(v) > count(w))
    IN  [i \in DOMAIN Page(order, 0, n) |-> [value |-> order[i], count |-> count(order[i])]]

(* MCP dispatch: undeclared arguments, and those without a value, are dropped. *)
Kwargs(declared, supplied) == [a \in {x \in DOMAIN supplied : x \in declared /\ supplied[x] # Null} |-> supplied[a]]
=============================================================================
