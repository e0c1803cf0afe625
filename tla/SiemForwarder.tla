--------------------------- MODULE SiemForwarder ---------------------------
(***************************************************************************)
(* The syslog forwarder (src/siem/syslog/forwarder.py): a process of its   *)
(* own that polls GET /api/alerts and sends what is newer than the last id *)
(* it sent, which it saves after each batch.  Alerts get their ids when    *)
(* they are inserted and are visible when their transaction commits.       *)
(***************************************************************************)
EXTENDS Integers, Sequences, SequencesExt, FiniteSets

CONSTANTS
    Forwarded,    \* --severity: the one that is asked for
    Severities,
    PollLimit,    \* limit=100
    MaxForwardable, MaxCrashes   \* bounds: alerts, restarts of the forwarder

VARIABLES
    alertSev,   \* the alerts' severities; an alert's id is its position
    committed,  \* the ids that can be read
    batch,      \* the new alerts the forwarder still has to send
    polled,     \* a batch is under way
    lastId, saved,   \* last_id in memory and in the state file
    syslog,     \* the ids that were sent, in order
    sentSince,  \* what was sent since the process started (history)
    excused,    \* ids that were not yet committed, or not among the newest, when a later one was fetched (history)
    crashes

forwardVars == <<alertSev, committed, batch, polled, lastId, saved, syslog, sentSince, excused, crashes>>

Init ==
    /\ alertSev = <<>> /\ committed = {} /\ batch = <<>> /\ polled = FALSE
    /\ lastId = 0 /\ saved = 0 /\ syslog = <<>> /\ sentSince = {} /\ excused = {} /\ crashes = 0

Insert ==
    /\ Len(alertSev) < MaxForwardable /\ \E s \in Severities : alertSev' = Append(alertSev, s)
    /\ UNCHANGED <<committed, batch, polled, lastId, saved, syslog, sentSince, excused, crashes>>

CommitAlert ==
    /\ \E id \in DOMAIN alertSev \ committed : committed' = committed \cup {id}
    /\ UNCHANGED <<alertSev, batch, polled, lastId, saved, syslog, sentSince, excused, crashes>>

Wanted == {id \in DOMAIN alertSev : alertSev[id] = Forwarded}

(* GET /api/alerts: the newest of that severity alone. *)
Fetched == {id \in Wanted \cap committed : Cardinality({x \in Wanted \cap committed : x > id}) < PollLimit}

News == {id \in Fetched : id > lastId}

(* Sorted by id: one order qualifies. *)
ById(ids) == {order \in [1..Cardinality(ids) -> ids] : \A i, j \in DOMAIN order : i < j => order[i] < order[j]}

Poll ==
    /\ ~polled /\ News # {}
    /\ batch' \in ById(News) /\ polled' = TRUE
    /\ excused' = excused \cup {id \in Wanted \ Fetched : id > lastId /\ \E x \in Fetched : x > id}
    /\ UNCHANGED <<alertSev, committed, lastId, saved, syslog, sentSince, crashes>>

Send ==
    /\ polled /\ batch # <<>>
    /\ syslog' = Append(syslog, Head(batch)) /\ sentSince' = sentSince \cup {Head(batch)}
    /\ lastId' = IF Head(batch) > lastId THEN Head(batch) ELSE lastId
    /\ batch' = Tail(batch)
    /\ UNCHANGED <<alertSev, committed, polled, saved, excused, crashes>>

(* The receiver cannot be reached: the rest of the batch is fetched again, and nothing is saved. *)
SendFails ==
    /\ polled /\ batch # <<>> /\ batch' = <<>> /\ polled' = FALSE
    /\ UNCHANGED <<alertSev, committed, lastId, saved, syslog, sentSince, excused, crashes>>

(* Once the batch is sent; a file that cannot be written is only warned about. *)
Save ==
    /\ polled /\ batch = <<>> /\ polled' = FALSE /\ saved' \in {saved, lastId}
    /\ UNCHANGED <<alertSev, committed, batch, lastId, syslog, sentSince, excused, crashes>>

(* The process is restarted and resumes from its state file, or from 0 when that is not readable. *)
Restart ==
    /\ crashes < MaxCrashes /\ crashes' = crashes + 1
    /\ lastId' \in {saved, 0} /\ batch' = <<>> /\ polled' = FALSE /\ sentSince' = {}
    /\ UNCHANGED <<alertSev, committed, saved, syslog, excused>>

Next == Insert \/ CommitAlert \/ Poll \/ Send \/ SendFails \/ Save \/ Restart

Spec == Init /\ [][Next]_forwardVars

-----------------------------------------------------------------------------

(***************************************************************************)
(* Whatever fails, between two restarts no alert is sent twice, and every  *)
(* alert of the severity up to the last id has been sent by this process   *)
(* or an earlier one, unless it was committed late or crowded out of the   *)
(* listing when a later alert was fetched.                                 *)
(***************************************************************************)
ForwardedOnce ==
    /\ Cardinality(sentSince) <= Len(syslog)
    /\ \A i, j \in (Len(syslog) - Cardinality(sentSince) + 1)..Len(syslog) : i < j => syslog[i] < syslog[j]
    /\ {id \in Wanted : id <= lastId} \subseteq ToSet(syslog) \cup excused
=============================================================================
