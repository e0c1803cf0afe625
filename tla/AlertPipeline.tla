---------------------------- MODULE AlertPipeline ----------------------------
(***************************************************************************)
(* What becomes of an anomalous flow in the detector process               *)
(* (src/src/pipeline.py): deduplication in on_flow_complete, the bounded   *)
(* alert queue, the writer thread with its cache of suppression rules, and *)
(* the drain at shutdown.                                                  *)
(*                                                                         *)
(*   callers: the flow-flusher thread and, during shutdown, the main       *)
(*            thread run on_flow_complete (Detect ... Put)                 *)
(*   writers: the threads that run _writer_loop (Top ... Commit)           *)
(*   main:    _shutdown of main.py (BeginShutdown ... Exit)                *)
(*                                                                         *)
(* A step is what a thread does between two points where another thread    *)
(* can tell the difference: a lock section, a queue operation, a read or   *)
(* write of a module variable, a database call.  Scoring is left out: an   *)
(* anomalous flow is its dedup key.                                        *)
(***************************************************************************)
EXTENDS Integers, Sequences, FiniteSets, Functions

CONSTANTS
    Keys,            \* dedup keys: (src_ip, attack_type)
    Rules,           \* ids of suppression rules
    Covers,          \* the keys whose alerts each rule matches
    Lifetimes,       \* how long a rule may be created for
    Callers,         \* threads that run on_flow_complete
    Writers,         \* names for the thread objects _start_writer may create
    QueueMax,        \* maxsize of _alert_queue
    DedupWindow,     \* DEDUP_WINDOW_SECS
    CleanupEvery,    \* the 300 s between two cleanups of _dedup_cache
    SuppressTTL,     \* _SUPPRESS_TTL
    JoinTimeout,     \* timeout of drain_alert_queue
    Faults,          \* whether database calls may fail
    StartTime,       \* the clock when the process starts; 0 is "never"
    MaxTime,         \* bound: the clock
    MaxFlows         \* bound: anomalous flows

Flusher == "flusher"
Main    == "main"

ASSUME AlertPipelineAssumption ==
    /\ Keys # {} /\ Covers \in [Rules -> SUBSET Keys]
    /\ Lifetimes \subseteq Nat \ {0}
    /\ Callers \subseteq {Flusher, Main}
    /\ IsFiniteSet(Writers) /\ Writers = 1..Cardinality(Writers)
    /\ QueueMax \in Nat \ {0}
    /\ {DedupWindow, CleanupEvery, JoinTimeout, MaxTime, MaxFlows} \subseteq Nat
    /\ SuppressTTL \in Nat \ {0}
    /\ StartTime \in 0..MaxTime /\ StartTime > DedupWindow
    /\ StartTime > CleanupEvery /\ StartTime >= SuppressTTL
    /\ Faults \in BOOLEAN

VARIABLES
    now,          \* time.time()
    rules,        \* the suppression_rules table: when a row was created, until when it counts
    lastFired,    \* _dedup_cache: when each key last fired, 0 if it has no entry
    lastCleanup,  \* _dedup_last_cleanup
    flows,        \* anomalous flows so far
    cpc, ckey, ctime, cid,  \* a caller: where it is, its key, the clock it read, its alert
    alerts,       \* every alert that passed deduplication: key, time, fate, and
                  \* the clock when a writer took it (history)
    queue,        \* _alert_queue: alert numbers
    writer,       \* _writer_thread: the thread object it holds, 0 for None
    wpc, held,    \* a writer: where it is, the alert it has taken
    cache,        \* _suppress_cache
    cacheTs,      \* _suppress_ts
    cacheSession, \* the writer whose open session loaded the cached rules, or 0
    cacheLoaded,  \* FALSE: the cached rules' attributes are expired
    fetched,      \* a writer: the rows its query has read, and when
    cacheRead,    \* when the cached rules were read (history)
    stop,         \* _writer_stop
    rogue,        \* a writer was created beside another, or after the drain began (history)
    phase,        \* main: running, flushing, draining, joining, waiting, leaving, exited
    joined,       \* the thread object main waits for
    drainStart,   \* when it began to wait
    warned        \* it has warned that alerts may be lost

callerVars == <<cpc, ckey, ctime, cid>>
dedupVars  == <<lastFired, lastCleanup, flows>>
cacheVars  == <<cache, cacheTs, cacheSession, cacheLoaded, fetched, cacheRead>>
writerVars == <<writer, wpc, held>>
stopVars   == <<stop, rogue>>
mainVars   == <<phase, joined, drainStart, warned>>
vars == <<now, rules, callerVars, dedupVars, alerts, queue, writerVars, cacheVars, stopVars, mainVars>>

(* What may become of an alert. *)
Waiting == {"fired", "queued", "taken", "unmatched"}
Lost    == {"full", "unstarted", "detached", "uncommitted"}
Fates   == Waiting \cup Lost \cup {"suppressed", "stored"}

NoRows == [rows |-> {}, at |-> 0]

AlertIds == DOMAIN alerts
SetFate(a, fate) == alerts' = [alerts EXCEPT ![a].fate = fate]

(* Mutant of Active: the query has no condition on expires_at. *)
ActiveForever(r) == rules[r].created # 0

(* A row the refresh query returns. *)
Active(r) == rules[r].expires > now

Init ==
    /\ now = StartTime
    /\ rules = [r \in Rules |-> [created |-> 0, expires |-> 0]]
    /\ lastFired = [k \in Keys |-> 0] /\ lastCleanup = 0 /\ flows = 0
    /\ cpc = [c \in Callers |-> "idle"] /\ ckey = [c \in Callers |-> CHOOSE k \in Keys : TRUE]
    /\ ctime = [c \in Callers |-> 0] /\ cid = [c \in Callers |-> 0]
    /\ alerts = <<>> /\ queue = <<>>
    /\ writer = 0 /\ wpc = [w \in Writers |-> "none"] /\ held = [w \in Writers |-> 0]
    /\ cache = {} /\ cacheTs = 0 /\ cacheSession = 0 /\ cacheLoaded = TRUE
    /\ fetched = [w \in Writers |-> NoRows] /\ cacheRead = 0
    /\ stop = FALSE /\ rogue = FALSE
    /\ phase = "running" /\ joined = 0 /\ drainStart = 0 /\ warned = FALSE

(***************************************************************************)
(* Callers: on_flow_complete from the verdict to _persist_alert.           *)
(***************************************************************************)

(* The flow is an anomaly; `now` is read before the lock is taken. *)
Detect(c) ==
    /\ cpc[c] = "idle" /\ flows < MaxFlows
    /\ c = Main => phase = "flushing"
    /\ \E k \in Keys : ckey' = [ckey EXCEPT ![c] = k]
    /\ ctime' = [ctime EXCEPT ![c] = now]
    /\ cpc' = [cpc EXCEPT ![c] = "locking"]
    /\ flows' = flows + 1
    /\ UNCHANGED <<now, rules, lastFired, lastCleanup, cid, alerts, queue, writerVars, cacheVars, stopVars, mainVars>>

(* Mutant of Repeats: the entry is compared with the window the wrong way at its edge. *)
RepeatsAtEdge(k, t) == t - lastFired[k] <= DedupWindow

Repeats(k, t) == t - lastFired[k] < DedupWindow

(* Mutant of AfterCleanup: the cleanup removes the entries that still count. *)
AfterCleanupAll(fired, t) ==
    IF t - lastCleanup > CleanupEvery THEN [k \in Keys |-> 0] ELSE fired

(* Entries older than the window are dropped once in a while. *)
AfterCleanup(fired, t) ==
    IF t - lastCleanup > CleanupEvery
    THEN [k \in Keys |-> IF fired[k] < t - DedupWindow THEN 0 ELSE fired[k]]
    ELSE fired

Duplicate(c) ==
    /\ cpc[c] = "locking"
    /\ Repeats(ckey[c], ctime[c])
    /\ cpc' = [cpc EXCEPT ![c] = "idle"]
    /\ UNCHANGED <<now, rules, dedupVars, ckey, ctime, cid, alerts, queue, writerVars, cacheVars, stopVars, mainVars>>

Fire(c) ==
    LET k == ckey[c]
        t == ctime[c]
    IN  /\ cpc[c] = "locking"
        /\ ~Repeats(k, t)
        /\ lastFired' = AfterCleanup([lastFired EXCEPT ![k] = t], t)
        /\ lastCleanup' = IF t - lastCleanup > CleanupEvery THEN t ELSE lastCleanup
        /\ alerts' = Append(alerts, [key |-> k, time |-> t, fate |-> "fired", taken |-> 0])
        /\ cid' = [cid EXCEPT ![c] = Len(alerts) + 1]
        /\ cpc' = [cpc EXCEPT ![c] = "check"]
        /\ UNCHANGED <<now, rules, flows, ckey, ctime, queue, writerVars, cacheVars, stopVars, mainVars>>

(* _start_writer: the test of _writer_thread and its assignment are not one step. *)
CheckWriter(c) ==
    /\ cpc[c] = "check"
    /\ cpc' = [cpc EXCEPT ![c] = IF writer # 0 THEN "put" ELSE "create"]
    /\ UNCHANGED <<now, rules, dedupVars, ckey, ctime, cid, alerts, queue, writerVars, cacheVars, stopVars, mainVars>>

CreateWriter(c) ==
    /\ cpc[c] = "create"
    /\ \E w \in Writers :
        /\ wpc[w] = "none" /\ \A v \in 1..(w - 1) : wpc[v] # "none"
        /\ writer' = w
        /\ wpc' = [wpc EXCEPT ![w] = "created"]
    /\ stop' = FALSE
    /\ rogue' = (rogue \/ writer # 0 \/ phase \notin {"running", "flushing"})
    /\ cpc' = [cpc EXCEPT ![c] = "start"]
    /\ UNCHANGED <<now, rules, dedupVars, ckey, ctime, cid, alerts, queue, held, cacheVars, mainVars>>

StartWriter(c) ==
    /\ cpc[c] = "start" /\ wpc[writer] = "created"
    /\ wpc' = [wpc EXCEPT ![writer] = "top"]
    /\ cpc' = [cpc EXCEPT ![c] = "put"]
    /\ UNCHANGED <<now, rules, dedupVars, ckey, ctime, cid, alerts, queue, writer, held, cacheVars, stopVars, mainVars>>

(* Another caller has replaced and started the thread object: start() raises, *)
(* and the dispatcher logs the exception.                                      *)
StartTwice(c) ==
    /\ cpc[c] = "start" /\ wpc[writer] # "created"
    /\ SetFate(cid[c], "unstarted")
    /\ cpc' = [cpc EXCEPT ![c] = "idle"]
    /\ cid' = [cid EXCEPT ![c] = 0]
    /\ UNCHANGED <<now, rules, dedupVars, ckey, ctime, queue, writerVars, cacheVars, stopVars, mainVars>>

(* put_nowait, or the warning that the queue is full *)
Put(c) ==
    /\ cpc[c] = "put"
    /\ IF Len(queue) < QueueMax
       THEN queue' = Append(queue, cid[c]) /\ SetFate(cid[c], "queued")
       ELSE queue' = queue /\ SetFate(cid[c], "full")
    /\ cpc' = [cpc EXCEPT ![c] = "idle"]
    /\ cid' = [cid EXCEPT ![c] = 0]
    /\ UNCHANGED <<now, rules, dedupVars, ckey, ctime, writerVars, cacheVars, stopVars, mainVars>>

(***************************************************************************)
(* Writers: _writer_loop and _write_alert.                                 *)
(***************************************************************************)
Goto(w, label) == wpc' = [wpc EXCEPT ![w] = label]

Top(w) ==
    /\ wpc[w] = "top"
    /\ Goto(w, IF stop THEN "exited" ELSE "get")
    /\ UNCHANGED <<now, rules, dedupVars, callerVars, alerts, queue, writer, held, cacheVars, stopVars, mainVars>>

(* get(timeout=0.5) finds nothing *)
GetEmpty(w) ==
    /\ wpc[w] = "get" /\ queue = <<>>
    /\ Goto(w, "top")
    /\ UNCHANGED <<now, rules, dedupVars, callerVars, alerts, queue, writer, held, cacheVars, stopVars, mainVars>>

Get(w) ==
    /\ wpc[w] = "get" /\ queue # <<>>
    /\ held' = [held EXCEPT ![w] = Head(queue)]
    /\ queue' = Tail(queue)
    /\ alerts' = [alerts EXCEPT ![Head(queue)].fate = "taken", ![Head(queue)].taken = now]
    /\ Goto(w, "refresh")
    /\ UNCHANGED <<now, rules, dedupVars, callerVars, writer, cacheVars, stopVars, mainVars>>

CacheIsOld == now - cacheTs >= SuppressTTL

CacheStillGood(w) ==
    /\ wpc[w] = "refresh" /\ ~CacheIsOld
    /\ Goto(w, "match")
    /\ UNCHANGED <<now, rules, dedupVars, callerVars, alerts, queue, writer, held, cacheVars, stopVars, mainVars>>

(* The database reads the rows; what it finds reaches the writer later. *)
Query(w) ==
    /\ wpc[w] = "refresh" /\ CacheIsOld
    /\ fetched' = [fetched EXCEPT ![w] = [rows |-> {r \in Rules : Active(r)}, at |-> now]]
    /\ Goto(w, "query")
    /\ UNCHANGED <<now, rules, dedupVars, callerVars, alerts, queue, writer, held, cache, cacheTs, cacheSession, cacheLoaded, cacheRead, stopVars, mainVars>>

Refresh(w) ==
    /\ wpc[w] = "query"
    /\ cache' = fetched[w].rows /\ cacheRead' = fetched[w].at
    /\ cacheSession' = w /\ cacheLoaded' = TRUE
    /\ fetched' = [fetched EXCEPT ![w] = NoRows]
    /\ Goto(w, "stamp")
    /\ UNCHANGED <<now, rules, dedupVars, callerVars, alerts, queue, writer, held, cacheTs, stopVars, mainVars>>

(* The query fails, and the session is rolled back: the stale cache is kept. *)
RefreshFails(w) ==
    /\ Faults
    /\ wpc[w] = "query"
    /\ fetched' = [fetched EXCEPT ![w] = NoRows]
    /\ Goto(w, "stamp")
    /\ UNCHANGED <<now, rules, dedupVars, callerVars, alerts, queue, writer, held, cache, cacheTs, cacheSession, cacheLoaded, cacheRead, stopVars, mainVars>>

(* In either case the age of the cache starts again, from the clock as it is now. *)
Stamp(w) ==
    /\ wpc[w] = "stamp"
    /\ cacheTs' = now
    /\ Goto(w, "match")
    /\ UNCHANGED <<now, rules, dedupVars, callerVars, alerts, queue, writer, held, cache, cacheSession, cacheLoaded, fetched, cacheRead, stopVars, mainVars>>

(* session.close() detaches what the session had loaded. *)
CloseSession(w) == cacheSession' = IF cacheSession = w THEN 0 ELSE cacheSession

Done(w, fate) ==
    /\ SetFate(held[w], fate)
    /\ held' = [held EXCEPT ![w] = 0]
    /\ Goto(w, "top")

(* Mutant of Matching: the loop returns after its first rule. *)
MatchingFirst(k) == {r \in cache : r = (CHOOSE q \in cache : TRUE) /\ k \in Covers[r]}

Matching(k) == {r \in cache : k \in Covers[r]}

(* Expired attributes of a detached rule cannot be read: rule_matches raises, *)
(* and _writer_loop logs "Failed to persist alert".                            *)
Unreadable == cache # {} /\ ~cacheLoaded /\ cacheSession = 0

MatchRaises(w) ==
    /\ wpc[w] = "match" /\ Unreadable
    /\ Done(w, "detached")
    /\ CloseSession(w)
    /\ UNCHANGED <<now, rules, dedupVars, callerVars, queue, writer, cache, cacheTs, cacheLoaded, fetched, cacheRead, stopVars, mainVars>>

Suppress(w) ==
    /\ wpc[w] = "match" /\ ~Unreadable
    /\ Matching(alerts[held[w]].key) # {}
    /\ Done(w, "suppressed")
    /\ CloseSession(w)
    /\ UNCHANGED <<now, rules, dedupVars, callerVars, queue, writer, cache, cacheTs, cacheLoaded, fetched, cacheRead, stopVars, mainVars>>

NoMatch(w) ==
    /\ wpc[w] = "match" /\ ~Unreadable
    /\ Matching(alerts[held[w]].key) = {}
    /\ SetFate(held[w], "unmatched")
    /\ Goto(w, "commit")
    /\ UNCHANGED <<now, rules, dedupVars, callerVars, queue, writer, held, cacheVars, stopVars, mainVars>>

(* Mutant of Commit: the exception of a failed commit leaves the loop. *)
CommitRaisesOut(w) ==
    /\ wpc[w] = "commit"
    /\ \/ Done(w, "stored")
       \/ /\ Faults /\ SetFate(held[w], "uncommitted")
          /\ held' = [held EXCEPT ![w] = 0] /\ Goto(w, "exited")
    /\ cacheLoaded' = (cacheLoaded /\ cacheSession # w)
    /\ CloseSession(w)
    /\ UNCHANGED <<now, rules, dedupVars, callerVars, queue, writer, cache, cacheTs, fetched, cacheRead, stopVars, mainVars>>

(* commit() stores the row.  A commit, and the rollback of one that fails,    *)
(* expire every object of the session (expire_on_commit): the rules it loaded *)
(* included.                                                                   *)
Commit(w) ==
    /\ wpc[w] = "commit"
    /\ \/ Done(w, "stored")
       \/ Faults /\ Done(w, "uncommitted")
    /\ cacheLoaded' = (cacheLoaded /\ cacheSession # w)
    /\ CloseSession(w)
    /\ UNCHANGED <<now, rules, dedupVars, callerVars, queue, writer, cache, cacheTs, fetched, cacheRead, stopVars, mainVars>>

(***************************************************************************)
(* main.py: _shutdown.                                                     *)
(***************************************************************************)

(* Capture and packet workers have stopped; flush_all runs in main. *)
BeginShutdown ==
    /\ phase = "running" /\ Main \in Callers
    /\ phase' = "flushing"
    /\ UNCHANGED <<now, rules, dedupVars, callerVars, alerts, queue, writerVars, cacheVars, stopVars, joined, drainStart, warned>>

(* flush_all is done and the join of the flusher has returned or timed out. *)
Drain ==
    /\ phase = "flushing" /\ cpc[Main] = "idle"
    /\ stop' = TRUE /\ phase' = "draining"
    /\ UNCHANGED <<now, rules, dedupVars, callerVars, alerts, queue, writerVars, cacheVars, rogue, joined, drainStart, warned>>

(* Mutant of WriterGone: an empty queue counts as a finished writer. *)
QueueGone == queue = <<>>

(* No writer was created, or is_alive() is false of the one _writer_thread holds. *)
WriterGone == writer \notin {w \in Writers : wpc[w] \notin {"none", "created", "exited"}}

TestWriter ==
    /\ phase = "draining"
    /\ phase' = IF WriterGone THEN "leaving" ELSE "joining"
    /\ UNCHANGED <<now, rules, dedupVars, callerVars, alerts, queue, writerVars, cacheVars, stopVars, joined, drainStart, warned>>

(* _writer_thread is read again.  join() of a thread object that the flusher has *)
(* put there since, and not yet started, raises, which ends the process as well.  *)
Join ==
    /\ phase = "joining"
    /\ IF wpc[writer] = "created"
       THEN phase' = "leaving" /\ UNCHANGED <<joined, drainStart>>
       ELSE phase' = "waiting" /\ joined' = writer /\ drainStart' = now
    /\ UNCHANGED <<now, rules, dedupVars, callerVars, alerts, queue, writerVars, cacheVars, stopVars, warned>>

(* The join returns, or times out; and is there a live writer? *)
Leave ==
    /\ phase = "waiting"
    /\ wpc[joined] = "exited" \/ now - drainStart >= JoinTimeout
    /\ phase' = "leaving" /\ warned' = (wpc[writer] \notin {"created", "exited"})
    /\ UNCHANGED <<now, rules, dedupVars, callerVars, alerts, queue, writerVars, cacheVars, stopVars, joined, drainStart>>

(* The final statistics are logged, and sys.exit ends the daemon threads. *)
Exit ==
    /\ phase = "leaving" /\ phase' = "exited"
    /\ UNCHANGED <<now, rules, dedupVars, callerVars, alerts, queue, writerVars, cacheVars, stopVars, joined, drainStart, warned>>

(***************************************************************************)
(* The rest of the world.                                                  *)
(***************************************************************************)
Tick ==
    /\ now < MaxTime
    /\ now' = now + 1
    /\ UNCHANGED <<rules, dedupVars, callerVars, alerts, queue, writerVars, cacheVars, stopVars, mainVars>>

(* An analyst creates a rule through the API (another session). *)
CreateRule(r) ==
    /\ rules[r].created = 0
    /\ \E life \in Lifetimes :
        rules' = [rules EXCEPT ![r] = [created |-> now, expires |-> now + life]]
    /\ UNCHANGED <<now, dedupVars, callerVars, alerts, queue, writerVars, cacheVars, stopVars, mainVars>>

(* Deleting a row is the same to every query as letting it expire now. *)
DeleteRule(r) ==
    /\ Active(r)
    /\ rules' = [rules EXCEPT ![r].expires = now]
    /\ UNCHANGED <<now, dedupVars, callerVars, alerts, queue, writerVars, cacheVars, stopVars, mainVars>>

CallerStep(c) ==
    \/ Duplicate(c) \/ Fire(c) \/ CheckWriter(c) \/ CreateWriter(c)
    \/ StartWriter(c) \/ StartTwice(c) \/ Put(c)

WriterStep(w) ==
    \/ Top(w) \/ GetEmpty(w) \/ Get(w) \/ CacheStillGood(w) \/ Query(w) \/ Refresh(w)
    \/ RefreshFails(w) \/ Stamp(w)
    \/ MatchRaises(w) \/ Suppress(w) \/ NoMatch(w) \/ Commit(w)

Next ==
    /\ phase # "exited"
    /\ \/ \E c \in Callers : Detect(c) \/ CallerStep(c)
       \/ \E w \in Writers : WriterStep(w)
       \/ BeginShutdown \/ Drain \/ TestWriter \/ Join \/ Leave \/ Exit
       \/ Tick
       \/ \E r \in Rules : CreateRule(r) \/ DeleteRule(r)

Spec == Init /\ [][Next]_vars

(* Threads of a running process are scheduled; clients, the clock and the     *)
(* signal that ends the process owe nothing.                                   *)
FairSpec ==
    /\ Spec
    /\ \A c \in Callers : WF_vars(phase # "exited" /\ CallerStep(c))
    /\ \A w \in Writers : WF_vars(phase # "exited" /\ WriterStep(w))

-----------------------------------------------------------------------------

Thread == {"none", "created", "top", "get", "refresh", "query", "stamp", "match", "commit", "exited"}
Alert  == [key : Keys, time : 0..MaxTime, fate : Fates, taken : 0..MaxTime]

WorldOK ==
    /\ now \in StartTime..MaxTime
    /\ rules \in [Rules -> [created : 0..now, expires : Nat]]
    /\ stop \in BOOLEAN /\ rogue \in BOOLEAN /\ warned \in BOOLEAN
    /\ phase \in {"running", "flushing", "draining", "joining", "waiting", "leaving", "exited"}
    /\ drainStart \in 0..now

CallersOK ==
    /\ flows \in 0..MaxFlows
    /\ lastFired \in [Keys -> 0..now] /\ lastCleanup \in 0..now
    /\ cpc \in [Callers -> {"idle", "locking", "check", "create", "start", "put"}]
    /\ ckey \in [Callers -> Keys] /\ ctime \in [Callers -> 0..now]
    /\ cid \in [Callers -> 0..Len(alerts)]

AlertsOK ==
    /\ alerts \in Seq(Alert)
    /\ \A a \in AlertIds : alerts[a].time <= now /\ alerts[a].taken <= now
    /\ queue \in Seq(AlertIds) /\ Len(queue) <= QueueMax

WritersOK ==
    /\ writer \in {0} \cup Writers /\ wpc \in [Writers -> Thread]
    /\ held \in [Writers -> 0..Len(alerts)]
    /\ cache \subseteq Rules /\ cacheTs \in 0..now /\ cacheSession \in {0} \cup Writers
    /\ cacheLoaded \in BOOLEAN /\ cacheRead \in 0..now
    /\ fetched \in [Writers -> [rows : SUBSET Rules, at : 0..now]]

MainOK ==
    /\ joined \in {0} \cup Writers
    /\ phase \in {"joining", "waiting"} => writer \in Writers
    /\ phase = "waiting" => joined \in Writers

HandsOK ==
    /\ Range(queue) = {a \in AlertIds : alerts[a].fate = "queued"}
    /\ \A w \in Writers : held[w] # 0 => alerts[held[w]].fate \in {"taken", "unmatched"}

(* Module variables, queue and threads keep their types; a thread's hand and   *)
(* the queue hold exactly the alerts whose fate says so.                       *)
TypeOK == WorldOK /\ CallersOK /\ AlertsOK /\ WritersOK /\ MainOK /\ HandsOK

SinkState(fate) ==
    CASE fate \in Waiting                 -> "open"
      [] fate = "stored"                  -> "stored"
      [] fate \in Lost \cup {"suppressed"} -> "dropped"

Sink == INSTANCE AlertSink WITH
            Times <- 0..MaxTime, Window <- DedupWindow,
            accepted <- [a \in AlertIds |-> [key   |-> alerts[a].key, time |-> alerts[a].time,
                                             state |-> SinkState(alerts[a].fate)]]

(* The detector is an alert sink.  "A repeat (src_ip, attack_type) inside      *)
(* DEDUP_WINDOW_SECS" is no new alert, whatever the cleanup of _dedup_cache     *)
(* removes in between (with one thread in on_flow_complete), and through queue, *)
(* writer and database each alert is stored at most once, or dropped for good.  *)
ImplementsSink == Sink!Spec

(* An anomaly is dropped as a repeat only if an alert of its key did fire     *)
(* within the window before it, in whatever order the threads take the lock.  *)
OnlyRepeatsDropped ==
    [][\A c \in Callers :
        (cpc[c] = "locking" /\ cpc'[c] = "idle") =>
            \E a \in AlertIds : /\ alerts[a].key = ckey[c]
                                /\ ctime[c] - alerts[a].time < DedupWindow]_vars

Became(a, fate) == a \in AlertIds /\ alerts[a].fate # fate /\ alerts'[a].fate = fate

(* How long before _suppress_ts the cached rules were read: what their query    *)
(* took, or, when refreshes have failed since, the time back to that query.      *)
Delay == cacheTs - cacheRead

(* The cache of suppression rules hides a new rule for its TTL and the delay   *)
(* with which its age was counted, no longer: a rule that had existed that long *)
(* when the writer took an alert it covers, and still counts, suppresses it.   *)
RuleTakesEffect ==
    [][\A a \in AlertIds : Became(a, "unmatched") =>
        ~ \E r \in Rules :
            /\ alerts[a].key \in Covers[r] /\ rules[r].expires > now
            /\ rules[r].created # 0
            /\ rules[r].created <= alerts[a].taken - SuppressTTL - Delay]_vars

(* Nor does it keep a rule alive for longer: an alert is suppressed only by a  *)
(* rule that covers it and that counted less than the TTL and the delay before *)
(* the writer took the alert.                                                  *)
SuppressionIsFresh ==
    [][\A a \in AlertIds : Became(a, "suppressed") =>
        \E r \in cache : /\ alerts[a].key \in Covers[r]
                         /\ rules[r].expires > alerts[a].taken - SuppressTTL - Delay]_vars

(* drain_alert_queue: the process ends under an alert that a writer, whichever, *)
(* has taken only after the warning that some may be lost, unless the flusher   *)
(* raced: a writer created beside another is an orphan nobody waits for, and    *)
(* one created after the drain began clears _writer_stop and is not waited for. *)
InHandIsFinished ==
    phase = "exited" /\ ~warned /\ ~rogue => \A w \in Writers : held[w] = 0

Undecided(a) == a \in AlertIds /\ alerts[a].fate \in Waiting

(* No failure of a database call, and no rule that cannot be read, ends the    *)
(* writer: until the drain begins every alert that fired is decided.           *)
EveryAlertIsDecided ==
    \A a \in 1..MaxFlows :
        Undecided(a) ~> (phase \notin {"running", "flushing"} \/ ~Undecided(a))

(* pipeline.py: "a failed refresh must never drop the alert: keep the stale    *)
(* cache"; the documents drop an alert only for a rule that matches it.        *)
CachedRulesDropNoAlert == \A a \in AlertIds : alerts[a].fate # "detached"
=============================================================================
