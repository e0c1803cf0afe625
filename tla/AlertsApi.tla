----------------------------- MODULE AlertsApi -----------------------------
(***************************************************************************)
(* The alert store under its readers and writers.  Analysts edit alerts    *)
(* and incidents through PATCH routes that read a row, await, and write    *)
(* the columns that changed (src/src/api/routers/alerts.py); readers page  *)
(* through the listings of the REST API and of the MCP server              *)
(* (src/src/mcp_server/queries.py) while alerts keep arriving.             *)
(***************************************************************************)
EXTENDS AlertRecords

CONSTANTS
    Analysts, Readers,  \* sessions that write, and clients that page
    NewAlerts,          \* what an alert can be when it is stored
    Bodies,             \* bodies of PATCH /api/alerts/{id}: acked, label, incident; "none" is null
    MaxPage,            \* MAX_ROWS
    Walks,              \* what clients ask for: via, pending, limit (may be Null)
    ScanLimit,          \* MAX_PROFILE_SCAN
    BucketWidth,        \* length of a trend bucket
    StoreMaxTime, MaxStored, MaxIncidents, MaxEdits   \* bounds

Order(status) == CHOOSE i \in 1..4 : <<"open", "investigating", "resolved", "closed">>[i] = status
Statuses      == {"open", "investigating", "resolved", "closed"}
NoEdit        == [of |-> "nothing"]
NoWalk        == [at |-> "idle"]

VARIABLES
    storeTime,  \* the clock
    rows,       \* the alerts table
    incidents,  \* the incidents table
    edit,       \* the PATCH each analyst has under way: the row it read and the new values
    edits,      \* PATCHes begun
    walk,       \* the walk through a listing each reader has under way
    racedOn     \* incidents two PATCHes had in hand at once (history)

storeVars == <<storeTime, rows, incidents, edit, edits, walk, racedOn>>

Init ==
    /\ storeTime = 0 /\ rows = <<>> /\ incidents = <<>> /\ edits = 0 /\ racedOn = {}
    /\ edit = [a \in Analysts |-> NoEdit] /\ walk = [r \in Readers |-> NoWalk]

Store ==
    /\ Len(rows) < MaxStored
    /\ \E new \in NewAlerts :
         LET row == [at |-> storeTime, acked |-> FALSE, label |-> "none", incident |-> 0]
         IN  rows' = Append(rows, [c \in DOMAIN row \cup DOMAIN new |-> IF c \in DOMAIN row THEN row[c] ELSE new[c]])
    /\ UNCHANGED <<storeTime, incidents, edit, edits, walk, racedOn>>

CreateIncident ==
    /\ Len(incidents) < MaxIncidents
    /\ incidents' = Append(incidents, [status |-> "open", resolvedAt |-> -1])
    /\ UNCHANGED <<storeTime, rows, edit, edits, walk, racedOn>>

Busy(a) == edit[a].of # "nothing"

(* update_alert: only the fields of the body that are not null are set. *)
LoadAlert(a) ==
    /\ ~Busy(a) /\ edits < MaxEdits /\ edits' = edits + 1
    /\ \E id \in DOMAIN rows, body \in Bodies :
        LET read == rows[id]
            new  == [read EXCEPT !.acked = IF body.acked = "none" THEN @ ELSE body.acked = "yes",
                                 !.label = IF body.label = "none" THEN @ ELSE body.label,
                                 !.incident = IF body.incident \in DOMAIN incidents THEN body.incident ELSE @]
        IN  edit' = [edit EXCEPT ![a] = [of |-> "alert", id |-> id, read |-> read, new |-> new]]
    /\ UNCHANGED <<storeTime, rows, incidents, walk, racedOn>>

MayMove(from, to) == Order(to) >= Order(from)

(* update_incident: refused with 409 when the status read would move back. *)
LoadIncident(a) ==
    /\ ~Busy(a) /\ edits < MaxEdits /\ edits' = edits + 1
    /\ \E id \in DOMAIN incidents, to \in Statuses :
        LET read == incidents[id]
            new  == [status |-> to,
                     resolvedAt |-> IF Order(to) >= Order("resolved") /\ read.resolvedAt = -1
                                    THEN storeTime ELSE read.resolvedAt]
        IN  /\ MayMove(read.status, to)
            /\ edit' = [edit EXCEPT ![a] = [of |-> "incident", id |-> id, read |-> read, new |-> new]]
            /\ racedOn' = IF \E b \in Analysts : edit[b].of = "incident" /\ edit[b].id = id
                          THEN racedOn \cup {id} ELSE racedOn
    /\ UNCHANGED <<storeTime, rows, incidents, walk>>

(* The UPDATE at commit names the columns whose value is not the one that was read. *)
Changed(row, e) == [c \in DOMAIN row |-> IF e.new[c] # e.read[c] THEN e.new[c] ELSE row[c]]

(* A walk is disturbed when a row enters or leaves the listing under it. *)
Save(a) ==
    /\ Busy(a)
    /\ LET e == edit[a]
       IN  IF e.of = "alert"
           THEN /\ rows' = [rows EXCEPT ![e.id] = Changed(@, e)]
                /\ walk' = [r \in Readers |->
                     IF walk[r].at = "page" /\ Passes(rows[e.id], walk[r].filter) # Passes(Changed(rows[e.id], e), walk[r].filter)
                     THEN [walk[r] EXCEPT !.disturbed = TRUE] ELSE walk[r]]
                /\ UNCHANGED incidents
           ELSE /\ incidents' = [incidents EXCEPT ![e.id] = Changed(@, e)] /\ UNCHANGED <<rows, walk>>
    /\ edit' = [edit EXCEPT ![a] = NoEdit]
    /\ UNCHANGED <<storeTime, edits, racedOn>>

Everything == [severity |-> "any", src |-> "any", acked |-> "any", since |-> 0]
Declared   == {"limit", "offset", "severity", "src_ip", "acknowledged", "hours"}

(* A client asks for the first page, of what is pending or of everything. *)
StartWalk(r) ==
    /\ walk[r].at = "idle"
    /\ \E ask \in Walks :
        LET args   == Kwargs(Declared, [limit |-> ask.limit, offset |-> Null, verbose |-> 1])
            filter == [Everything EXCEPT !.acked = ask.acked]
        IN  walk' = [walk EXCEPT ![r] =
                [at |-> "page", via |-> ask.via, filter |-> filter, offset |-> 0, seen |-> {}, disturbed |-> FALSE,
                 limit |-> Clamp(IF "limit" \in DOMAIN args THEN args.limit ELSE Null, MaxPage, 1, MaxPage),
                 owed |-> Matching(rows, filter)]]
    /\ UNCHANGED <<storeTime, rows, incidents, edit, edits, racedOn>>

Listing(via, filter) ==
    IF via = "mcp" THEN NewestFirst(rows, Matching(rows, filter)) ELSE ByTimestamp(rows, Matching(rows, filter))

(* Every page is a query of its own; a page that is not full is the last. *)
NextPage(r) ==
    /\ walk[r].at = "page"
    /\ \E order \in Listing(walk[r].via, walk[r].filter) :
        LET w    == walk[r]
            page == Page(order, w.offset, w.limit)
        IN  walk' = [walk EXCEPT ![r] = [w EXCEPT !.seen = @ \cup ToSet(page), !.offset = @ + w.limit,
                                                  !.at = IF Len(page) < w.limit THEN "done" ELSE "page"]]
    /\ UNCHANGED <<storeTime, rows, incidents, edit, edits, racedOn>>

Tick == storeTime < StoreMaxTime /\ storeTime' = storeTime + 1
        /\ UNCHANGED <<rows, incidents, edit, edits, walk, racedOn>>

Next ==
    \/ Store \/ CreateIncident \/ Tick
    \/ \E a \in Analysts : LoadAlert(a) \/ LoadIncident(a) \/ Save(a)
    \/ \E r \in Readers : StartWalk(r) \/ NextPage(r)

Spec == Init /\ [][Next]_storeVars

-----------------------------------------------------------------------------

Ties == \E i, j \in DOMAIN rows : i # j /\ rows[i].at = rows[j].at

(***************************************************************************)
(* A walk by pages misses nothing that was listed when it began, whatever  *)
(* arrives meanwhile, unless rows left or entered the listing under it, or  *)
(* the REST listing found alerts of one timestamp.                         *)
(***************************************************************************)
WalksMissNothing ==
    \A r \in Readers :
        walk[r].at = "done" /\ ~walk[r].disturbed /\ (walk[r].via = "rest" => ~Ties) => walk[r].owed \subseteq walk[r].seen

(***************************************************************************)
(* An incident's status moves forward and its resolution time is set once, *)
(* with the resolution, unless two analysts edited the incident at once.   *)
(***************************************************************************)
IncidentsMoveForward ==
    /\ [][\A i \in DOMAIN incidents \ racedOn :
             /\ Order(incidents'[i].status) >= Order(incidents[i].status)
             /\ incidents[i].resolvedAt # -1 => incidents'[i].resolvedAt = incidents[i].resolvedAt]_storeVars
    /\ [](\A i \in DOMAIN incidents \ racedOn :
             (incidents[i].resolvedAt # -1) = (Order(incidents[i].status) >= Order("resolved")))

SumOver(counts) == FoldSet(LAMBDA s, n : n + counts[s], 0, DOMAIN counts)

(***************************************************************************)
(* The readers, which share no code, agree: the severities and the buckets *)
(* add up to what is listed, a profile or an asset to the alerts of its    *)
(* host, the exports to what was listed or announced, and the dashboard's  *)
(* filters and numbers to what it has loaded of the store.                 *)
(***************************************************************************)
ReadersAgree ==
    LET stats == Stats(rows)
    IN  /\ SumOver(stats.bySeverity) = stats.total
        /\ stats.unacknowledged = Cardinality(Matching(rows, [Everything EXCEPT !.acked = "no"]))
        /\ \A since \in 0..storeTime :
             LET trends == Trends(rows, since, BucketWidth)
                 listed == Cardinality(Matching(rows, [Everything EXCEPT !.since = since]))
             IN  /\ FoldSet(LAMBDA b, n : n + SumOver(trends[b]), 0, DOMAIN trends) = listed
                 /\ listed = Cardinality(Interval(rows, since, storeTime))
                 /\ TrendsFrame(RestTrends(rows, since, BucketWidth)) = trends
                 /\ \A b \in DOMAIN trends : RestTrends(rows, since, BucketWidth)[b].total = SumOver(trends[b])
                 /\ \A src \in {rows[i].src : i \in DOMAIN rows} :
                      LET profile == Profile(rows, src, since, ScanLimit)
                          mine    == Matching(rows, [Everything EXCEPT !.src = src, !.since = since])
                      IN  /\ profile.total = IF profile.truncated THEN ScanLimit ELSE Cardinality(mine)
                          /\ SumOver(profile.bySeverity) = profile.total
                          /\ profile.acknowledged + profile.unacknowledged = profile.total
                          /\ \A id \in mine : rows[id].at <= profile.lastSeen
        /\ \A src \in {rows[i].src : i \in DOMAIN rows} :
             LET row == AssetRow(rows, [ip |-> src, firstSeen |-> 0], storeTime, BucketWidth)
             IN  /\ row.alerts = Cardinality(Matching(rows, [Everything EXCEPT !.src = src]))
                 /\ row.risk <= 100 /\ (row.risk >= row.alerts \/ row.risk = 100)
        /\ IncidentAlerts(rows, 0) + SumOver([i \in DOMAIN incidents |-> IncidentAlerts(rows, i)]) = stats.total
        /\ LET feedback == FeedbackStats(rows, 2)
           IN  /\ Len(FeedbackExport(rows, MaxStored)) = feedback.exportable
               /\ feedback.exportable <= feedback.tp + feedback.fp
        /\ \A order \in ByTimestamp(rows, DOMAIN rows), limit \in 1..MaxPage :
             LET loaded == [i \in DOMAIN Page(order, 0, limit) |-> rows[order[i]]]
                 kpis   == Kpis(loaded, storeTime, BucketWidth)
                 ids(exported) == [i \in DOMAIN exported |-> exported[i].id]
                 unread == ApplyFilters(loaded, [severities |-> {}, status |-> "Unacknowledged", engines |-> {}, since |-> 0])
                 top    == TopValues(loaded, limit)
             IN  /\ kpis.unacknowledged <= stats.unacknowledged /\ kpis.lastDay <= stats.total
                 /\ Len(unread) = kpis.unacknowledged
                 /\ \A i \in DOMAIN top : top[i].count <= SumOver(AlertCounts(rows, top[i].value)) /\ top[i].count <= top[1].count
                 /\ ids(Export(rows, order, limit, "csv")) = ids(Export(rows, order, limit, "json"))
                 /\ ids(Export(rows, order, limit, "csv")) = Page(order, 0, limit)
        /\ LET weights == AdaptiveWeights(rows, 1)
           IN  \A e \in DOMAIN weights :
                 (2 * weights[e].num > weights[e].den) =
                    (CountIf(rows, LAMBDA r : r.acked /\ r.engine = e /\ r.label # "fp")
                        > CountIf(rows, LAMBDA r : r.acked /\ r.engine = e /\ r.label = "fp"))
=============================================================================
