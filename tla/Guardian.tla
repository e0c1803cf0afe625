------------------------------ MODULE Guardian ------------------------------
(***************************************************************************)
(* The Guardian auto-response module (src/src/guardian): three asyncio     *)
(* tasks of the API process that meet at the mitigation_actions table and  *)
(* at AdGuard Home's list of disallowed clients.                           *)
(*                                                                         *)
(*   g...  guardian_loop: reads new alerts, blocks offenders               *)
(*   e...  guardian_expiry_loop: rolls back actions past expires_at        *)
(*   t...  telegram_listener_loop: the operator's Confirm / Undo buttons   *)
(*                                                                         *)
(* A step is the code between two awaits, together with the effect of the  *)
(* database statement or HTTP request that the await performs, so the      *)
(* tasks interleave exactly where the event loop may switch.  Time is      *)
(* abstract: a row becomes `due` when its expires_at passes and stops      *)
(* being `recent` when it leaves the circuit breaker's window.             *)
(***************************************************************************)
EXTENDS Integers, Sequences, FiniteSets

CONSTANTS
    IPs,             \* source addresses
    NoIP,            \* an alert without src_ip
    Whitelist,       \* GUARDIAN_WHITELIST
    OperatorEntries, \* what AdGuard's list holds before the Guardian touches it
    AlertKinds,      \* severity and source of the alerts that are raised
    MinSeverity,     \* GUARDIAN_MIN_SEVERITY, as its rank 0..3
    AlertSources,    \* GUARDIAN_ALERT_SOURCES
    Users,           \* chat members who may press a button
    AllowedUsers,    \* TELEGRAM_ALLOWED_USER_IDS
    MaxActions,      \* GUARDIAN_CIRCUIT_MAX_ACTIONS
    Faults,          \* whether requests and commits may fail
    MaxAlerts,       \* bound: alerts ever raised
    MaxClicks,       \* bound: buttons ever pressed
    MaxCrashes       \* bound: restarts of the API process

ASSUME GuardianAssumption ==
    /\ NoIP \notin IPs
    /\ Whitelist \subseteq IPs /\ OperatorEntries \subseteq IPs \ Whitelist
    /\ AlertKinds \subseteq [severity : 0..3, source : {"detector", "api", "logwatch"}]
    /\ MinSeverity \in 0..3
    /\ AllowedUsers \subseteq Users
    /\ MaxActions \in Nat /\ MaxAlerts \in Nat /\ MaxClicks \in Nat /\ MaxCrashes \in Nat
    /\ Faults \in BOOLEAN

Pending   == "pending"
Confirmed == "confirmed"
Undone    == "undone"
Expired   == "expired"
Status    == {Pending, Confirmed, Undone, Expired}

VARIABLES
    alerts,     \* the alerts table: index = id; a row is visible once committed
    rows,       \* the mitigation_actions table: index = id
    adguard,    \* AdGuard's disallowed_clients
    gpc,        \* guardian_loop: where it is
    lastSeen,   \* _last_seen_alert_id
    batch,      \* ids of the alerts of this poll still to be looked at
    gCur,       \* id of the alert whose block() is under way, or 0
    gSnap,      \* the list block() has read
    paused,     \* _circuit_paused_notified
    epc,        \* guardian_expiry_loop: where it is
    eTodo,      \* selected rows not looked at yet
    eCur,       \* the row whose unblock() is under way
    eSnap,      \* the list unblock() has read
    eDone,      \* rows set EXPIRED in the session, not committed
    tpc,        \* telegram listener: where it is
    clicks,     \* callback updates Telegram holds, oldest first
    offset,     \* updates the listener has taken
    acked,      \* updates Telegram will not deliver again
    tSnap,      \* the list undo's unblock() has read
    noticed,    \* rows whose Confirm / Undo buttons were sent
    crashes     \* restarts so far

tables == <<alerts, rows>>
gVars  == <<gpc, lastSeen, batch, gCur, gSnap, paused>>
eVars  == <<epc, eTodo, eCur, eSnap, eDone>>
tVars  == <<tpc, clicks, offset, acked, tSnap>>
vars   == <<tables, adguard, gVars, eVars, tVars, noticed, crashes>>

AlertIds == 1..Len(alerts)
RowIds   == 1..Len(rows)

(* Mutant of Eligible: the whitelist is not consulted. *)
EligibleNoWhitelist(a) ==
    /\ a.severity >= MinSeverity
    /\ a.ip # NoIP
    /\ a.source \in AlertSources

(* The checks of guardian_loop that read nothing but the alert. *)
Eligible(a) ==
    /\ a.severity >= MinSeverity
    /\ a.ip # NoIP
    /\ a.source \in AlertSources
    /\ a.ip \notin Whitelist

(* Mutant of HasActiveAction: a row past expires_at no longer counts as active. *)
HasUnexpiredAction(ip) ==
    \E r \in RowIds : rows[r].ip = ip /\ rows[r].status = Pending /\ ~rows[r].due

(* _has_active_action *)
HasActiveAction(ip) == \E r \in RowIds : rows[r].ip = ip /\ rows[r].status = Pending

(* The count _circuit_breaker_tripped reads. *)
RecentActions == Cardinality({r \in RowIds : rows[r].recent})
Tripped == RecentActions >= MaxActions

InitTasks ==
    /\ gpc = "init" /\ lastSeen = 0 /\ batch = {} /\ gCur = 0 /\ gSnap = {} /\ paused = FALSE
    /\ epc = "idle" /\ eTodo = {} /\ eCur = 0 /\ eSnap = {} /\ eDone = {}
    /\ tpc = "idle" /\ offset = 0 /\ tSnap = {}

Init ==
    /\ alerts = <<>> /\ rows = <<>>
    /\ adguard = OperatorEntries
    /\ InitTasks
    /\ clicks = <<>> /\ acked = 0 /\ noticed = {} /\ crashes = 0

-----------------------------------------------------------------------------
(* Around the Guardian: detectors and API calls that write alerts, the     *)
(* clock, the operator, and the death of the process.                      *)

(* INSERT: the alert has an id, other sessions do not see it yet.  With      *)
(* several writers (PostgreSQL) ids become visible in any order.            *)
RaiseAlert(ip, kind) ==
    /\ Len(alerts) < MaxAlerts
    /\ alerts' = Append(alerts, [ip |-> ip, severity |-> kind.severity,
                                 source |-> kind.source, visible |-> FALSE])
    /\ UNCHANGED <<rows, adguard, gVars, eVars, tVars, noticed, crashes>>

CommitAlert(i) ==
    /\ ~alerts[i].visible
    /\ alerts' = [alerts EXCEPT ![i].visible = TRUE]
    /\ UNCHANGED <<rows, adguard, gVars, eVars, tVars, noticed, crashes>>

(* expires_at < now becomes true. *)
BlockElapses(r) ==
    /\ ~rows[r].due /\ rows[r].status = Pending
    /\ rows' = [rows EXCEPT ![r].due = TRUE]
    /\ UNCHANGED <<alerts, adguard, gVars, eVars, tVars, noticed, crashes>>

(* created_at > since becomes false, for older rows first. *)
WindowElapses(r) ==
    /\ rows[r].recent
    /\ \A q \in 1..(r - 1) : ~rows[q].recent
    /\ rows' = [rows EXCEPT ![r].recent = FALSE]
    /\ UNCHANGED <<alerts, adguard, gVars, eVars, tVars, noticed, crashes>>

Click(op, r, user) ==
    /\ r \in noticed
    /\ Len(clicks) < MaxClicks
    /\ clicks' = Append(clicks, [op |-> op, row |-> r, by |-> user])
    /\ UNCHANGED <<tables, adguard, gVars, eVars, tpc, offset, acked, tSnap, noticed, crashes>>

(* The process dies and the lifespan starts the tasks again. *)
Crash ==
    /\ crashes < MaxCrashes
    /\ crashes' = crashes + 1
    /\ gpc' = "init" /\ lastSeen' = 0 /\ batch' = {} /\ gCur' = 0 /\ gSnap' = {} /\ paused' = FALSE
    /\ epc' = "idle" /\ eTodo' = {} /\ eCur' = 0 /\ eSnap' = {} /\ eDone' = {}
    /\ tpc' = "idle" /\ offset' = acked /\ tSnap' = {}
    /\ UNCHANGED <<tables, adguard, clicks, acked, noticed>>

Environment ==
    \/ \E ip \in IPs \cup {NoIP}, kind \in AlertKinds : RaiseAlert(ip, kind)
    \/ \E i \in AlertIds : CommitAlert(i)
    \/ \E r \in RowIds : BlockElapses(r) \/ WindowElapses(r)
    \/ \E op \in {"confirm", "undo"}, r \in RowIds, user \in Users : Click(op, r, user)
    \/ Crash

-----------------------------------------------------------------------------
(* guardian_loop *)

gRest == <<alerts, eVars, tVars, crashes>>

VisibleIds == {i \in AlertIds : alerts[i].visible}

(* Mutant of NewIds: id >= _last_seen_alert_id. *)
NewIdsAndLast == {i \in VisibleIds : i >= lastSeen}

NewIds == {i \in VisibleIds : i > lastSeen}

(* Mutant of GInit: starts from the last id handed out, not the last one committed. *)
GInitFromSequence ==
    /\ gpc = "init"
    /\ gpc' = "idle"
    /\ lastSeen' = Len(alerts)
    /\ UNCHANGED <<rows, adguard, batch, gCur, gSnap, paused, noticed, gRest>>

(* _init_last_seen_id: max(Alert.id), or 0. *)
GInit ==
    /\ gpc = "init"
    /\ gpc' = "idle"
    /\ \E m \in VisibleIds \cup {0} :
          /\ \A i \in VisibleIds : i <= m
          /\ lastSeen' = m
    /\ UNCHANGED <<rows, adguard, batch, gCur, gSnap, paused, noticed, gRest>>

(* It runs outside the loop's try: if the query fails the task is over. *)
GInitFails ==
    /\ Faults /\ gpc = "init"
    /\ gpc' = "dead"
    /\ UNCHANGED <<rows, adguard, lastSeen, batch, gCur, gSnap, paused, noticed, gRest>>

GPoll ==
    /\ gpc = "idle"
    /\ \E m \in NewIds :
          /\ \A i \in NewIds : i <= m
          /\ lastSeen' = m
    /\ batch' = NewIds
    /\ gpc' = "breaker"
    /\ UNCHANGED <<rows, adguard, gCur, gSnap, paused, noticed, gRest>>

(* Mutant of GBreaker: notifies, and works the batch all the same. *)
GBreakerOnlyNotifies ==
    /\ gpc = "breaker"
    /\ paused' = Tripped
    /\ gpc' = "scan" /\ UNCHANGED batch
    /\ UNCHANGED <<rows, adguard, lastSeen, gCur, gSnap, noticed, gRest>>

(* _circuit_breaker_tripped: the whole batch is dropped, not replayed. *)
GBreaker ==
    /\ gpc = "breaker"
    /\ paused' = Tripped
    /\ \/ Tripped /\ gpc' = "idle" /\ batch' = {}
       \/ ~Tripped /\ gpc' = "scan" /\ UNCHANGED batch
    /\ UNCHANGED <<rows, adguard, lastSeen, gCur, gSnap, noticed, gRest>>

(* The loop's own try: the rest of the batch is lost. *)
GLoopError ==
    /\ Faults /\ gpc \in {"breaker", "scan", "record"}
    /\ gpc' = "idle" /\ batch' = {} /\ gCur' = 0 /\ gSnap' = {}
    /\ UNCHANGED <<rows, adguard, lastSeen, paused, noticed, gRest>>

GBatchDone ==
    /\ gpc = "scan" /\ batch = {}
    /\ gpc' = "idle"
    /\ UNCHANGED <<rows, adguard, lastSeen, batch, gCur, gSnap, paused, noticed, gRest>>

(* order_by(Alert.id) *)
IsNext(a) == a \in batch /\ \A b \in batch : a <= b

GSkip(a) ==
    /\ gpc = "scan" /\ IsNext(a)
    /\ ~Eligible(alerts[a]) \/ HasActiveAction(alerts[a].ip)
    /\ batch' = batch \ {a}
    /\ UNCHANGED <<rows, adguard, gpc, lastSeen, gCur, gSnap, paused, noticed, gRest>>

(* Mutant of GDecide: the alert is not carried over the awaits. *)
GDecideForgets(a) ==
    /\ gpc = "scan" /\ IsNext(a)
    /\ Eligible(alerts[a]) /\ ~HasActiveAction(alerts[a].ip)
    /\ gpc' = "get" /\ batch' = batch \ {a}
    /\ UNCHANGED <<rows, adguard, lastSeen, gCur, gSnap, paused, noticed, gRest>>

GDecide(a) ==
    /\ gpc = "scan" /\ IsNext(a)
    /\ Eligible(alerts[a]) /\ ~HasActiveAction(alerts[a].ip)
    /\ gpc' = "get" /\ gCur' = a /\ batch' = batch \ {a}
    /\ UNCHANGED <<rows, adguard, lastSeen, gSnap, paused, noticed, gRest>>

Offender == alerts[gCur].ip

(* block(): GET the list; an address already on it is not posted again. *)
GGet ==
    /\ gpc = "get"
    /\ gSnap' = adguard
    /\ gpc' = IF Offender \in adguard THEN "record" ELSE "post"
    /\ UNCHANGED <<rows, adguard, lastSeen, batch, gCur, paused, noticed, gRest>>

(* Mutant of GPost: posts a list of its own instead of the one it read. *)
GPostOwnListOnly ==
    /\ gpc = "post"
    /\ adguard' = {Offender}
    /\ gpc' = "record"
    /\ UNCHANGED <<rows, lastSeen, batch, gCur, gSnap, paused, noticed, gRest>>

(* block(): POST the whole list as it was read, plus the address. *)
GPost ==
    /\ gpc = "post"
    /\ adguard' = gSnap \cup {Offender}
    /\ gpc' = "record"
    /\ UNCHANGED <<rows, lastSeen, batch, gCur, gSnap, paused, noticed, gRest>>

(* block() raises, before or (the response was lost) after the POST was applied. *)
GBlockFails ==
    /\ Faults /\ gpc \in {"get", "post"}
    /\ \/ UNCHANGED adguard
       \/ gpc = "post" /\ adguard' = gSnap \cup {Offender}
    /\ gpc' = "scan" /\ gCur' = 0 /\ gSnap' = {}
    /\ UNCHANGED <<rows, lastSeen, batch, paused, noticed, gRest>>

NewRow == [ip |-> Offender, alert |-> gCur, status |-> Pending, due |-> FALSE, recent |-> TRUE]

(* The MitigationAction row is committed only after block() returned. *)
GRecord ==
    /\ gpc = "record"
    /\ rows' = Append(rows, NewRow)
    /\ gpc' = "notice" /\ gCur' = 0 /\ gSnap' = {}
    /\ UNCHANGED <<adguard, lastSeen, batch, paused, noticed, gRest>>

(* send_action_notice never raises; the message may not reach the chat. *)
GNotice ==
    /\ gpc = "notice"
    /\ \/ noticed' = noticed \cup {Len(rows)}
       \/ Faults /\ UNCHANGED noticed
    /\ gpc' = "scan"
    /\ UNCHANGED <<rows, adguard, lastSeen, batch, gCur, gSnap, paused, gRest>>

GuardianLoop ==
    \/ GInit \/ GInitFails \/ GPoll \/ GBreaker \/ GLoopError \/ GBatchDone
    \/ \E a \in batch : GSkip(a) \/ GDecide(a)
    \/ GGet \/ GPost \/ GBlockFails \/ GRecord \/ GNotice

-----------------------------------------------------------------------------
(* guardian_expiry_loop *)

eRest == <<alerts, gVars, tVars, noticed, crashes>>

(* Mutant of DueRows: rows whose address is off the list are not selected. *)
DueRowsListed ==
    {r \in RowIds : rows[r].status = Pending /\ rows[r].due /\ rows[r].ip \in adguard}

DueRows == {r \in RowIds : rows[r].status = Pending /\ rows[r].due}

ESelect ==
    /\ epc = "idle" /\ DueRows # {}
    /\ epc' = "scan" /\ eTodo' = DueRows
    /\ UNCHANGED <<rows, adguard, eCur, eSnap, eDone, eRest>>

(* unblock(): GET; an address not on the list is not posted. *)
EGet(r) ==
    /\ epc = "scan"
    /\ eTodo' = eTodo \ {r}
    /\ \/ /\ rows[r].ip \in adguard
          /\ epc' = "post" /\ eCur' = r /\ eSnap' = adguard
          /\ UNCHANGED eDone
       \/ /\ rows[r].ip \notin adguard
          /\ eDone' = eDone \cup {r}
          /\ UNCHANGED <<epc, eCur, eSnap>>
    /\ UNCHANGED <<rows, adguard, eRest>>

EPost ==
    /\ epc = "post"
    /\ adguard' = eSnap \ {rows[eCur].ip}
    /\ eDone' = eDone \cup {eCur}
    /\ epc' = "scan" /\ eCur' = 0 /\ eSnap' = {}
    /\ UNCHANGED <<rows, eTodo, eRest>>

(* unblock() raises: the row stays PENDING and is retried by a later poll. *)
EUnblockFails ==
    /\ Faults
    /\ \/ \E r \in eTodo : /\ epc = "scan" /\ eTodo' = eTodo \ {r}
                           /\ UNCHANGED <<epc, eCur, eSnap, adguard>>
       \/ /\ epc = "post" /\ epc' = "scan" /\ eCur' = 0 /\ eSnap' = {}
          /\ adguard' \in {adguard, eSnap \ {rows[eCur].ip}}
          /\ UNCHANGED eTodo
    /\ UNCHANGED <<rows, eDone, eRest>>

(* The commit writes status and resolved_at, whatever the status is by now. *)
ECommit ==
    /\ epc = "scan" /\ eTodo = {}
    /\ rows' = [r \in RowIds |-> IF r \in eDone THEN [rows[r] EXCEPT !.status = Expired]
                                                ELSE rows[r]]
    /\ epc' = "idle" /\ eDone' = {}
    /\ UNCHANGED <<adguard, eTodo, eCur, eSnap, eRest>>

ECommitFails ==
    /\ Faults /\ epc = "scan" /\ eTodo = {} /\ eDone # {}
    /\ epc' = "idle" /\ eDone' = {}
    /\ UNCHANGED <<rows, adguard, eTodo, eCur, eSnap, eRest>>

ExpiryLoop ==
    \/ ESelect \/ (\E r \in eTodo : EGet(r)) \/ EPost \/ ECommit
    \/ EUnblockFails \/ ECommitFails

-----------------------------------------------------------------------------
(* telegram_listener_loop *)

tRest == <<alerts, gVars, eVars, clicks, noticed, crashes>>

Button == clicks[offset]

(* The next update of getUpdates.  Those before offset are acknowledged by *)
(* the next getUpdates, which may or may not lie between two of them.      *)
TTake ==
    /\ tpc = "idle" /\ offset < Len(clicks)
    /\ offset' = offset + 1
    /\ acked' \in {acked, offset}
    /\ tpc' = "read"
    /\ UNCHANGED <<rows, adguard, tSnap, tRest>>

(* Mutant of Authorized: anyone in the chat may press. *)
AnyUser == Button.by \in Users

(* _callback_authorized *)
Authorized == Button.by \in AllowedUsers

TRefused ==
    /\ tpc = "read" /\ ~Authorized
    /\ tpc' = "idle"
    /\ UNCHANGED <<rows, adguard, offset, acked, tSnap, tRest>>

TNoLongerPending ==
    /\ tpc = "read" /\ Authorized /\ rows[Button.row].status # Pending
    /\ tpc' = "idle"
    /\ UNCHANGED <<rows, adguard, offset, acked, tSnap, tRest>>

TStillPending ==
    /\ tpc = "read" /\ Authorized /\ rows[Button.row].status = Pending
    /\ tpc' = IF Button.op = "confirm" THEN "confirm" ELSE "get"
    /\ UNCHANGED <<rows, adguard, offset, acked, tSnap, tRest>>

(* status CONFIRMED, expires_at NULL; "Confirmed, stays blocked". *)
TConfirm ==
    /\ tpc = "confirm"
    /\ rows' = [rows EXCEPT ![Button.row].status = Confirmed, ![Button.row].due = FALSE]
    /\ tpc' = "idle"
    /\ UNCHANGED <<adguard, offset, acked, tSnap, tRest>>

TGet ==
    /\ tpc = "get"
    /\ tSnap' = adguard
    /\ tpc' = IF rows[Button.row].ip \in adguard THEN "post" ELSE "resolve"
    /\ UNCHANGED <<rows, adguard, offset, acked, tRest>>

TPost ==
    /\ tpc = "post"
    /\ adguard' = tSnap \ {rows[Button.row].ip}
    /\ tpc' = "resolve"
    /\ UNCHANGED <<rows, offset, acked, tSnap, tRest>>

TResolve ==
    /\ tpc = "resolve"
    /\ rows' = [rows EXCEPT ![Button.row].status = Undone]
    /\ tpc' = "idle" /\ tSnap' = {}
    /\ UNCHANGED <<adguard, offset, acked, tRest>>

(* "Undo failed", or the listener's own try: the button press is used up. *)
TFails ==
    /\ Faults /\ tpc # "idle"
    /\ \/ UNCHANGED adguard
       \/ tpc = "post" /\ adguard' = tSnap \ {rows[Button.row].ip}
    /\ tpc' = "idle" /\ tSnap' = {}
    /\ UNCHANGED <<rows, offset, acked, tRest>>

TelegramListener ==
    \/ TTake \/ TRefused \/ TNoLongerPending \/ TStillPending \/ TConfirm
    \/ TGet \/ TPost \/ TResolve \/ TFails

-----------------------------------------------------------------------------
Next == Environment \/ GuardianLoop \/ ExpiryLoop \/ TelegramListener

Spec == Init /\ [][Next]_vars

(* The event loop runs every task, time passes, and the requests and       *)
(* commits of the rollback do not keep failing for ever: the loop retries   *)
(* at its poll interval, without end.  Nothing makes alerts, clicks or      *)
(* crashes happen.                                                          *)
Fairness ==
    /\ WF_vars(GuardianLoop) /\ WF_vars(ExpiryLoop) /\ WF_vars(TelegramListener)
    /\ \A r \in 1..MaxAlerts : WF_vars(r \in RowIds /\ BlockElapses(r))
    /\ <>[][~EUnblockFails /\ ~ECommitFails]_vars

FairSpec == Spec /\ Fairness

-----------------------------------------------------------------------------
Alert == [ip : IPs \cup {NoIP}, severity : 0..3,
          source : {"detector", "api", "logwatch"}, visible : BOOLEAN]
Row   == [ip : IPs, alert : Nat, status : Status, due : BOOLEAN, recent : BOOLEAN]
Press == [op : {"confirm", "undo"}, row : Nat, by : Users]

TablesOK ==
    /\ alerts \in Seq(Alert) /\ rows \in Seq(Row) /\ adguard \subseteq IPs
    /\ noticed \subseteq RowIds /\ crashes \in Nat

LoopOK ==
    /\ gpc \in {"init", "idle", "breaker", "scan", "get", "post", "record", "notice", "dead"}
    /\ lastSeen \in Nat /\ batch \subseteq AlertIds /\ gSnap \subseteq IPs /\ paused \in BOOLEAN
    /\ gCur \in {0} \cup AlertIds
    /\ gpc \in {"get", "post", "record"} => gCur \in AlertIds /\ Eligible(alerts[gCur])
    /\ gpc = "notice" => rows # <<>>

ExpiryOK ==
    /\ epc \in {"idle", "scan", "post"}
    /\ eTodo \subseteq RowIds /\ eDone \subseteq RowIds /\ eSnap \subseteq IPs
    /\ eCur \in {0} \cup RowIds
    /\ epc = "post" => eCur \in RowIds

ListenerOK ==
    /\ tpc \in {"idle", "read", "confirm", "get", "post", "resolve"}
    /\ clicks \in Seq(Press)
    /\ \A i \in 1..Len(clicks) : clicks[i].row \in RowIds
    /\ offset \in 0..Len(clicks) /\ acked \in 0..offset /\ tSnap \subseteq IPs
    /\ tpc # "idle" => offset # 0

(* Every variable has its type, and ids point at alerts and rows that exist. *)
TypeOK == TablesOK /\ LoopOK /\ ExpiryOK /\ ListenerOK

(* Two tasks and a restart never leave an address with two actions to roll *)
(* back: only one row per src_ip is pending at a time.                     *)
UniquePending ==
    \A q, r \in RowIds :
        rows[q].ip = rows[r].ip /\ rows[q].status = Pending /\ rows[r].status = Pending => q = r

(* An alert is acted on at most once, whatever fails between reading it and *)
(* recording the action, and across restarts: no alert has two actions.     *)
OneActionPerAlert ==
    \A q, r \in RowIds : rows[q].alert = rows[r].alert => q = r

(* GUARDIAN_WHITELIST: no interleaving of the three read-modify-writes ever *)
(* puts a whitelisted address on AdGuard's list.                            *)
WhitelistNeverBlocked == adguard \cap Whitelist = {}

(* A row the chat resolved was resolved by a press of that button, on that  *)
(* row, by an allowed user.                                                 *)
PressedBy(op, r) ==
    \E i \in 1..Len(clicks) : clicks[i].op = op /\ clicks[i].row = r /\ clicks[i].by \in AllowedUsers
ResolvedByAllowedUser ==
    \A r \in RowIds :
        /\ rows[r].status = Confirmed => PressedBy("confirm", r)
        /\ rows[r].status = Undone => PressedBy("undo", r)

RowIps == {rows[r].ip : r \in RowIds}

(* The operator's own entries on AdGuard's list survive every rewrite of    *)
(* the whole list, as long as the Guardian took no action on that address.  *)
OperatorEntriesKept == OperatorEntries \subseteq adguard \cup RowIps

(* While the breaker has tripped and not been seen open again, no action is *)
(* recorded: the batch that found it tripped is dropped as a whole.         *)
NoActionWhilePaused == [][paused => Len(rows') = Len(rows)]_vars

(* "Automatic rollback": every recorded action leaves PENDING sooner or     *)
(* later, by a button or by the expiry loop, across failed unblocks, failed *)
(* commits and restarts.                                                    *)
EveryActionIsResolved ==
    \A r \in 1..MaxAlerts : (r \in RowIds /\ rows[r].status = Pending)
                            ~> (r \in RowIds /\ rows[r].status # Pending)

(* No commit is skipped by the cursor unless a later id overtook it: an     *)
(* alert that becomes visible while no alert above it is visible (always,   *)
(* with SQLite's one writer at a time) is still ahead of                    *)
(* _last_seen_alert_id and will be read, across failed polls and restarts.  *)
NewAlertIsAhead ==
    [][\A i \in AlertIds :
          /\ ~alerts[i].visible /\ alerts'[i].visible
          /\ \A j \in AlertIds : j > i => ~alerts[j].visible
          => i > lastSeen]_vars

(* What architecture.md promises and the code does not keep ("block becomes  *)
(* permanent, no longer subject to auto-rollback"): a resolved action is    *)
(* final, as the callback's answer "No longer pending" has it, too.         *)
ResolvedIsFinal ==
    [][\A r \in RowIds : rows[r].status # Pending => rows'[r].status = rows[r].status]_vars
=============================================================================
