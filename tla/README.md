# A TLA+ verification of the Cognitive Intrusion Detection System

The repository is a network intrusion detection system in Python. A *detector*
process sniffs packets, groups them into flows, scores each finished flow with
an ensemble of engines and stores alerts. An *API* process serves those alerts,
scores flows on request and runs the *Guardian*, which blocks offenders in
AdGuard Home and rolls the blocks back. This directory holds TLA+ models of the
parts of it that are concurrent and stateful, the TLC configurations that check
them on small instances, and proofs, checked by TLAPS, of their most important
properties for every value of the constants.

`PROJECT.json` is the index: components, runs, mutants (the edits that break each
property), the map from definitions to source lines, findings, hazards, theorems.

## 1. Inventory

Paths are below `src/src/` unless they start with `src/`.

| Component | State it keeps | Operations | Modelled in |
|---|---|---|---|
| Guardian (`guardian/engine.py`, `telegram_listener.py`, `backends.py`) | `mitigation_actions` rows, `_last_seen_alert_id`, `_circuit_paused_notified`, Telegram offset, AdGuard's list | poll and block, expire and unblock, Confirm / Undo buttons | `Guardian` |
| Alert pipeline (`pipeline.py`, `src/main.py`) | dedup cache and its last cleanup, alert queue, writer thread, cached suppression rules | `on_flow_complete`, `_start_writer`, `_writer_loop`, `drain_alert_queue` | `AlertPipeline` |
| Flow tracking and dispatch (`features/flow_extractor.py`, `capture/dispatcher.py`) | flow table, expiry heap, payload hits, JA3 per flow | `process_packet`, `collect_expired`, `collect_all`, `dispatch`, `flush_all` | `Dispatcher` |
| Unsupervised baseline (`unsupervised/collector.py`, `triggers.py`, `window_trainer.py`, `engines/baseline_engine.py`) | live window, in-flight flag, drop counter, gate reference and reject counter, registry, served model | `observe`, `_run_training`, `train_window`, reload | `Baseline` |
| Prediction API (`api/routers/predict.py`, `enrichment/suppression.py`, `correlation.py`, `confidence_decay.py`) | in-memory dedup, decay history, suppression cache, incidents | `predict` and its enrichment | `PredictApi` |
| Ensemble scoring (`ensemble/scorer.py`, `engines/rules.py`) | none | `score` | `Detection`, as operators |
| WebSocket broadcast (`api/routers/websocket.py`) | client set | connect, disconnect, broadcast | `WebSocketHub` |
| Rate limit, keys, roles (`api/rate_limit.py`, `api/auth.py`, `api/routers/auth.py`) | hits per client, users, tokens | pass, prune, log in, manage users | `ApiGate` |
| Alerts and incidents API, MCP queries, dashboard data (`api/routers/alerts.py`, `mcp_server/queries.py`, `src/dashboard/data.py`) | alert and incident rows | edit, list, page, statistics, export | `AlertsApi`, `AlertRecords` |
| MCP texts (`mcp_server/sanitize.py`) | none | scrub and tag | `ScrubbedText` |
| LLM triage (`triage/runner.py`, `policy.py`, `schema.py`) | annotations with verdict and cost | batch under a budget | `TriageRunner` |
| Threat intelligence (`enrichment/threat_intel.py`) | address sets, refresh lock and time | lookup, background refresh | `ThreatIntel` |
| Asset inventory (`inventory/assets.py`) | counters per host | observe, drain, merge into rows | `AssetInventory` |
| Log rules (`logwatch/engine.py`, `rules.py`) | window and last alert per key | feed, evict, store | `LogRuleEngine` |
| Drift monitor (`monitoring/feature_drift.py`) | window, last level | observe, verdict, notify | `DriftMonitor` |
| Packet capture (`capture/packet_capture.py`) | bounded queue, drop counter | enqueue, work, stop | `PacketProcessor` |
| Features (`features/`) | one record per flow, one history per host | add a packet, extract | `FlowFeatures`, `HostFeatures`, `PacketInspection` |
| Engines (`engines/`) | loaded models, ring buffers, the quartet of the baseline | load, reload, update, score | `ModelLoading`, `BaselineModels`, `HostBuffers` |
| Metrics of the baseline (`api/metrics.py`, `api/routers/baseline.py`) | gauges | scrape, status | `BaselineScrape` |
| DNS log (`enrichment/dns_logger.py`) | queries per address | log, list | `DnsLog` |
| Trusted destinations (`pipeline.py`) | cache of names | resolve | `OutboundTrust` |
| SIEM forwarder (`src/siem/syslog/forwarder.py`) | last id | poll, send, save | `SiemForwarder` |
| Window dumps and evaluation (`unsupervised/dump.py`, `evaluation.py`, `scripts/eval_baseline.py`) | directory of dumped windows | dump and prune; load, split, fit, score, report | `BaselineBench` |
| Dashboard views, sandbox, training scripts, migrations | none shared, or numeric | | not modelled, see section 8 |

### How the components interact

    packets -> PacketProcessor -> Dispatcher.dispatch -> FlowExtractor
                                        | expired flows (flow-flusher; main at shutdown)
                                        v
          on_flow_complete: scoring, asset counters, BaselineCollector.observe
                                        | anomalies
                                        v
              dedup cache -> alert queue -> writer thread -> alerts table
                                                    ^            |
                              suppression_rules ----+            v
                              (written by the API)        guardian_loop -> AdGuard
                                                                 |            ^
                                                    mitigation_actions   unblock()
                                                        ^        ^            |
                                            Telegram buttons   expiry loop ---+

* Dispatcher to pipeline: a callback in the flusher thread, and in the main
  thread during shutdown; both may run at once because the join of the flusher
  comes after `flush_all` and has a timeout.
* Pipeline to Guardian: only through the database. The Guardian polls by id, so
  the order in which ids become visible matters.
* API to pipeline: suppression rules, which the detector reads through a cache
  that no write in the API process invalidates.
* Pipeline to baseline: `observe` is called for each flow in the same threads;
  the trainer runs in a thread of its own and swaps the engine's model.
* Workers to everything in `dispatch`: one packet passes the flow table, host
  history, payload inspection and DNS log, each with a lock of its own or none.
* API to its readers: listings, statistics, MCP tools, dashboard and forwarder
  read one table through separate code.
* Guardian tasks: one event loop, three tasks, two instances of the AdGuard
  backend that each read the whole list and write the whole list back.

### What is hard here

* **Interleaving.** Three asyncio tasks that switch at every `await`; packet
  workers, flusher, writer, trainer and main thread in the detector; lock
  sections that split what is logically one step (track a packet, then note
  its evidence; check the writer, then create it).
* **Failure.** Each HTTP request and each commit may fail, a POST whose response
  is lost has been applied, an exception inside a loop must not end its thread.
* **Crashes and restarts.** The Guardian and the baseline keep part of their
  state in memory and part in a database or registry.
* **Order.** Ids allocated before they are committed; timestamps read before a
  lock is taken.
* **Time.** Dedup window, cleanup interval, TTL of the rule cache, expiry of
  blocks, flow timeout, join timeouts.

### What makes each component correct

* Guardian: one pending action per address, one action per alert, nothing
  whitelisted on the list, nobody else's entries lost, no action while the
  breaker is open, every block rolled back in the end, buttons honoured only from
  allowed users, and (not kept by the code) final once resolved.
* Alert pipeline: only true repeats are dropped and repeats are spaced, a
  suppression rule works, and stops working, within the TTL of the cache and the time
  its query took, the queue is bounded, each alert is decided before the drain, the
  process ends under an alert being written only with a warning or after a writer was
  created in a race, and (not kept) a cached rule never costs an alert.
* Flow tracking: one record per conversation, expiry complete whatever the heap
  holds, no flow scored twice or forgotten, evidence only from the same
  five-tuple, and (not kept) only from the same flow.
* Baseline: one training run at a time, no sample in two windows, each dropped
  sample reported once, only accepted windows served, the gate's verdicts count
  consecutive rejections correctly, collection always resumes.
* Prediction API: an alert sink like the pipeline, scores that decay with the
  requests seen, one open incident per address unless two requests raced or an
  analyst reopened one in a race, rules no staler than the TTL of their cache.
* The services: seven promises, which each of them keeps in its own way. What
  enters is accounted for until it leaves; bounded memory answers like the whole
  history; what is checked in one step and used in another goes wrong only in a
  race (clients admitted one at a time stay within the limit of the stream, an alert is
  annotated a second time only by a run that began before the first annotation,
  notifications miss or repeat only windows whose workers overtook each other); no writer sets a
  state back, with an exception each property names; only what is admitted reaches a
  handler or an unpickler, and triage stores no advice but what its guard lets through;
  readers see one state; one thread refreshes the threat intelligence, and what is looked
  up is what the feeds said (and, not kept, a feed that fails costs no indicator).

`PROJECT.json` lists 40 hazards, each at its line, with the properties that would
catch it going wrong. Three have none, and a note that says why; the notes of the
others say what the property excuses.

## 2. Modules and how they correspond to the code

A comment beginning "Mutant of X" marks a definition used only to show that a
property can fail: it is X as a plausible bug would have it.

### Guardian

Actions are prefixed by the task they belong to: `G` for `guardian_loop`, `E` for
`guardian_expiry_loop`, `T` for `telegram_listener_loop`. A step is the code
between two awaits together with the effect of the statement or request
awaited, which is exactly where the event loop may switch. `block()` and
`unblock()` are a GET step and a POST step, so two tasks can overwrite each
other's list. `gSnap`, `eSnap`, `tSnap` are the lists read by the GET; `eDone`
are the rows the session has modified and not committed. A row's `due` and
`recent` stand for `expires_at < now` and `created_at > since`: each flips once, at
any moment, older rows leaving the breaker's window first. `RaiseAlert` allocates
an id and `CommitAlert` makes it visible, in any order: SQLite's one writer at a time is
one of the orders. `Crash` resets what is in memory and starts the
tasks again from the tables; Telegram delivers again what was not acknowledged.

### AlertPipeline

`Detect ... Put` are the callers (`"flusher"` and, during `flush_all`, `"main"`),
`Top ... Commit` the writer threads, `BeginShutdown`, `Drain`, `TestWriter`, `Join`,
`Leave`, `Exit` the main thread: it sets the stop flag, tests the thread object, reads it
again and waits for it, logs, and ends the process, and every other thread may move
between any two of these. `_start_writer` is four steps (`CheckWriter`, `CreateWriter`, `StartWriter`,
`StartTwice`) because it tests and assigns a module variable without a lock.
`rogue` remembers that a writer was created beside another, or after the drain had set the
stop flag (creating one clears it). `now` is the clock; `ctime` the clock value the caller
read before it took the lock. A refresh is three steps: the database reads the rows (`Query`), they
replace the cache or the query fails (`Refresh`, `RefreshFails`), and `_suppress_ts` is
set from the clock as it is then (`Stamp`); `Delay` is the time between the first and the
last, with which the age of the cache is counted short. The rule cache carries what SQLAlchemy's identity map does to it:
`cacheSession` is the writer whose open session loaded the rules, `cacheLoaded`
is false after a commit or rollback of that session expired them. An expired rule
of a closed session cannot be read (`Unreadable`).

### Dispatcher

Workers: `Stamp` (take a packet and read the clock), one lock section of
`process_packet` (`TrackKnown`, `TrackNew`, `TrackEvicting`), then one lock
section per kind of evidence (`NoteEvidence`). Collectors: `Wake`,
`CollectExpired` for the flusher, `CollectAll` for the main thread, `TakeRecord`
and `Score` for each record. `flows` maps a five-tuple to start, last and newest
timestamps and whether it has two packets; `heap` is the expiry heap with its
stale entries; `hits` are the two LRU dictionaries.

### Baseline

`Collect`, `DropSample`, `Fire` are the lock section of `observe`; `HandOff` and
`HandOffFails` what follows it; `Fit` to `ReloadFails` the stages of `train_window`
with the stability gate in the middle; `Report` and `Resume` the two lock sections of
the `finally` block. A window carries the samples in it and how far its training
is. The registry outlives `Restart`, everything else is in memory.

### AlertSink, and the two modules that implement it

`AlertSink` is what a detection path promises: an anomaly is accepted only when the
last accepted one of its key is a window old, and is then decided once, stored or
dropped. In `AlertPipeline` the accepted anomalies are those that fired; one is
stored when its commit is through and dropped when the queue was full, a rule
matched or a database call failed. In `PredictApi` they are the requests whose
verdict passed the deduplication. `ImplementsSink == Sink!Spec` is a property of
both: each of their steps is one of the sink's or leaves it unchanged.

### Detection and PredictApi

`Detection` has no state: rules, the combined score of the ensemble as an exact
fraction, boost, override, decay and severity. `PredictApi` extends it. A request
is a coroutine; a step is what it does between two awaits at which another may
run. The part from the lists to the deduplication has none, and is one step
(`Verdict`); then come the rule cache (`UseCache`, `StartRefresh`, `Query`, `Fill`),
correlation (`Lookup`) and `Commit`. Here the clock is read before the query is sent, so
a late answer does not look fresh. An analyst's edit of an incident reads the
status (`ReadIncident`), awaits, and writes it (`WriteIncident`), so that one that has read an
older status may reopen an incident another one has closed; `back` remembers when.
Incidents an analyst creates by hand are left to `AlertsApi`. A request sees the rows others have committed
and its own. Rules are ORM objects here too: a rollback expires those of the
session (`ExpireRulesOf`).

### The services

| Module | What it models |
|---|---|
| `WebSocketHub` | a coroutine per connection and per broadcast around one `asyncio.Lock`, which passes on in the order it was asked for |
| `ApiGate` | what each request passes: limiter, key, role; accounts and tokens change meanwhile, a cleanup task forgets clients |
| `PacketProcessor` | sniffer, queue, workers and the steps of `main` at shutdown; a join may time out |
| `AssetInventory` | counters per host on the capture path, drained and merged by two threads whose sessions read, compute and write back |
| `ThreatIntel` | first lookup creates and refreshes; later ones start a thread that inherits the lock; three feeds, each may fail; AbuseIPDB's answer replaces the set that MISP's is added to |
| `LogRuleEngine` | rules with threshold, window and cooldown over events in time order, in bounded memory |
| `AlertRecords` | no state: what each reader of the alert store computes, stated reader by reader |
| `AlertsApi` | edits that read, await and write changed columns; readers that walk through pages; arrivals |
| `TriageRunner` | overlapping runs: read what was spent, pick, ask, validate, guard, annotate, within a budget; crashes; what others do meanwhile |
| `ModelLoading` | what each engine serves given files, manifest, MLflow and torch; labels and scores of one flow |
| `BaselineModels` | a reload swaps four artifacts while scores are taken |
| `HostBuffers` | ring buffers of two engines, and the sequences the trainer cuts from the same vectors |
| `DriftMonitor` | windows of flows added by several workers, verdicts and notifications |
| `FlowFeatures`, `HostFeatures` | what a record or a history accumulates packet by packet, against the packets themselves |
| `PacketInspection` | JA3 fields of a ClientHello, payload patterns and features; the responder's payloads are searched and what is found in them is not kept |
| `BaselineScrape` | collector, trainer and engine read one after the other by a scrape and by a route |
| `BaselineBench` | windows dumped and pruned while a bench lists and reads them; its split, scores, AUC and drift |
| `DnsLog` | dictionary operations of two workers that take no lock |
| `OutboundTrust` | cache of reverse lookups with time-outs, two threads, an executor of two |
| `ScrubbedText` | texts of a few characters through the replacements of `scrub_text`, and the views of alerts and addresses that show them, with the fields `get_alert` shows as they are stored |
| `SiemForwarder` | poll, send, save, restart; ids are given before they are visible |

These share no state but the API's configuration of keys, which two of them read and
none changes. `Services` composes them: a behaviour runs one, chosen in its
first state (`service`), while the variables of the others stay as they are. Each
property of `Services` conjoins what several modules promise under one heading;
the comments there and at the conjuncts say what each means for its code. The
services that pass on what they take in (the stream, the gate, capture, assets,
triage, drift, the forwarder) are declared in `Deliveries`, those that keep something several
writers replace and readers use (threat intelligence, the alert store, models, the quartet of the
baseline and how it is observed, sequence buffers, payloads, texts, the cache of names) in
`Stores`, with the assumptions on their constants;
`Services` adds the others, and `MCServices` gives the constants values.

## 3. Runs

Each run answers one question; all the passing ones together fire every action.

| Run | Instance | Shows |
|---|---|---|
| `guardian` | 3 addresses (one whitelisted, one the operator's own), 2 alerts of 3 kinds, breaker at 1, 1 press by one of 2 users, 1 restart, failures, ids committed in any order, fair tasks | type correctness and the six safety properties of the three tasks; every action leaves PENDING; no alert falls behind the poll unless a later id overtook it |
| `guardian_final` | as above, nothing fails, no restart | **violated**: finding 1 |
| `pipeline_alerts` | 1 key, 3 anomalies, 2 rules with short or long life, clock of 4 ticks over windows of 2, failures | what deduplication and suppression let through, and that the detector is an alert sink |
| `pipeline_shutdown` | 2 callers, 2 writer threads, queue of 1, 2 anomalies, failures, fair threads | what the process may end under, and liveness of the writer |
| `pipeline_detached` | 1 caller, 2 rules, nothing fails | **violated**: finding 2 |
| `flows_tracking` | 4 five-tuples (2 of one conversation, 1 with a JA3 fingerprint), 2 workers, table of 2, 3 packets, clock of 3 | table and heap stay in step, nothing scored twice, nothing overdue left behind |
| `flows_evidence` | 2 flows of one host, payload matches in one of them, 1 worker, 4 packets, clock of 3, fair threads | evidence stays with its five-tuple; flows expire and collected records are scored |
| `flows_ownflow` | 1 conversation, 3 packets | **violated**: finding 3 |
| `predict` | 2 concurrent requests of 3, 2 addresses, a rule that comes and goes, 2 analysts with 2 edits of incidents, windows of 1 in a clock up to 3, any database call may fail | the sink, decay, incidents, age of the rule cache |
| `services` | one of 21 services in each behaviour; two clients, threads or analysts each | the seven promises of the services |
| `intel_feed` | `ThreatIntel` alone, 2 feeds, 2 addresses, 2 lookups and 1 background refresh | **violated**: finding 4 |
| `baseline_training` | 2 callers, 2 hosts, 5 samples, thresholds 1 and 8 with ratio 3, 1 reject allowed, 1 restart, failures, fair threads | all of the baseline's properties |

### Why the bounds are enough

*Guardian.* Two actions are what a duplicate needs, two overlapping rewrites what
a lost update needs, and one press and one restart reach each place where they
matter. The third address separates "whitelisted", "the operator's" and
"neither". With the breaker at 1 the second poll finds it open, and two alerts
of one batch still get past it.
*Pipeline.* Three anomalies of one key are needed to fire, repeat, and fire after
the cleanup; the clock passes the window, the cleanup interval and the TTL. Two
rules are needed so that a scan of the cache can stop too early. A queue of 1
is full with two callers; two thread objects are all that two callers can
create, and with them the flusher creates one after the main thread has looked for it.
`pipeline_shutdown` sets the window to 0 so that deduplication never hides an alert from the
shutdown. The clock moves during a query, so a cache is stamped up to 3 ticks late.
*Dispatcher.* A table of 2 is full with three flows, one conversation uses both
directions, three packets let timestamps arrive out of order in two workers;
four packets give the flusher two records to handle in one round, so that what
one callback raises can harm the other.
*Baseline.* Windows close after one or two samples, so five samples
are enough for: stable, rejected, regime change, regime change, and a sample
dropped in between.

*Prediction API.* Two requests at once are what a race needs, a third comes after
both. Windows of 1 and a clock that starts at 2 and ends at 3 separate "within" from
"past". One reading of the first address matches a critical rule: its score of 1 alerts
at first and after one decay by 0.6, and at 0.36 no longer, so that decay changes an answer
within three requests. The other reading is harmless and counts all the same. The second address
only sends harmless requests, which is what evicts the first from a list of one. Two analysts with
one edit each are what it takes to reopen an incident. That an incident is found by the text of
another address (`Mentions`) needs two that alert; the run has one, the proof any number.
*Services.* Each comment above a block of constants in `MCServices` names the case
the values are for: room for one where two ask, a window of two where three events
come, versions of which one does not load. The smallest service has some 800
states (it swaps four artifacts in each order), the largest, triage, 205 000; all together
729 000. Alike threads are interchangeable (`Alike`).

Bounds are `MaxAlerts`, `MaxClicks`, `MaxCrashes`, `MaxFlows`, `MaxTime`,
`MaxPackets`, `MaxSamples`, `MaxRestarts`, `MaxRequests`, `MaxEdits` and, for the services,
the `Max...` constants in their blocks of `MCServices`; each only limits actions of
the environment, unless the comment at its declaration names it as a limit of the
code (`MaxClients`, `MaxHosts`, `MaxKeysPerRule`, `MaxBuffers` and the like). Deadlock is not checked: each system is at rest when the
environment has nothing left to do, or after its shutdown.

## 4. Fairness

* `Guardian`: weak fairness of each of the three tasks (the event loop runs them
  all), of `BlockElapses` for a row (time passes), and eventually no failing
  unblock or commit of the expiry loop, which retries at every poll without a
  limit. No fairness for alerts, presses or restarts, none for a request to
  succeed at any given try.
* `AlertPipeline`: weak fairness of each caller and writer while the process
  runs. Nothing for the clock, the signal that ends the process, or success of a
  database call.
* `Dispatcher`: weak fairness of each worker, flusher and main thread, and of the
  clock up to `MaxTime`; `FlowsExpire` asks only for flows whose timeout falls within
  the bound.
* `Baseline`: weak fairness of a caller's hand-over and of a training run (each
  stage either ends or raises; there is no wait in it without a bound). Flows may
  stop coming.
* `PredictApi` and the services are checked for safety only. A client may stop
  reading, a request may hang, and no document promises an answer in any time.

## 5. Proofs

`GuardianProofs.tla` proves, for all sets of addresses, users and alerts, all
limits, any number of alerts, presses and restarts, with failures and in any order of
commits, and from `GuardianAssumption` alone:

| Theorem | Statement |
|---|---|
| `TypeCorrect` | `Spec => []TypeOK` |
| `OnePendingPerAddress` | `Spec => []UniquePending` |
| `OneActionPerAlertHolds` | `Spec => []OneActionPerAlert` |
| `WhitelistHolds` | `Spec => []WhitelistNeverBlocked` |
| `OperatorEntriesHold` | `Spec => []OperatorEntriesKept` |
| `ResolvedByAllowedUserHolds` | `Spec => []ResolvedByAllowedUser` |
| `PausedMeansNoAction` | `Spec => NoActionWhilePaused` |
| `NewAlertIsAheadHolds` | `Spec => NewAlertIsAhead` |

`TypeOK` is inductive as it stands: it says which table entries the ids carried
over an await point to. The other invariants are not, and the strengthenings are:

* `PendingInv`: between the check and the commit of a new row, no row of that
  address is pending. It holds because only `guardian_loop` adds rows and no task
  makes a row pending again.
* `AlertInv`: what is in the batch or in hand lies above every alert that already has
  an action and not above `_last_seen_alert_id`; this is also what a restart
  preserves, since it starts after the newest visible alert.
* `ListInv`: each of the three snapshots, like the list itself, has no whitelisted
  address and keeps the operator's entries up to addresses with an action.
* `ResolvedInv`: when the listener is past its checks, the press in hand is by an
  allowed user, on a row of its own, and asks for what is done next.
* `PausedInv`: while paused, the loop is not in a batch.
* `SeenInv`: the cursor is 0 or the id of a visible alert. What becomes visible before
  any later id is therefore ahead of it.

`BaselineProofs.tla` proves, for all callers, hosts, thresholds and limits, any
number of samples and restarts, with and without failures, and from
`BaselineAssumption` alone:

| Theorem | Statement |
|---|---|
| `BaselineTypes` | `Spec => []TypeOK` |
| `OneTrainingHolds` | `Spec => []OneTraining` |
| `NoSampleTwiceHolds` | `Spec => []NoSampleTwice` |
| `DroppedAreReportedHolds` | `Spec => []DroppedAreReported` |
| `ServedIsAcceptedHolds` | `Spec => []ServedIsAccepted` |

* `TypeInv` adds to `TypeOK` that the hosts of the live window are finitely many:
  without it their number means nothing.
* `RunInv`: the windows under way are at most one, the flag is up while there is
  one, and a window on its way to the trainer is in the hand of one caller. The
  last part is needed because a caller's hand-over would otherwise be able to
  restart a window that is already being trained.
* `NoSampleTwice` is inductive once the samples of every window are known to be
  observed ones (`TypeOK`), and `DroppedAreReported` with the types of its counters.
* `GateInv`: the gate has accepted every window past it, and so every version
  in the registry, whichever of them a reload or a restart picks.

`GateVerdictsHold` (`Spec => []GateVerdicts`) is about the history of verdicts:

* `VerdictsInv`: the gate's counter is the length of the run of rejections the
  history ends with. Without it nothing relates the counter, which a restart and a
  regime change reset, to the verdicts that were given.

`DispatcherProofs.tla` proves, for all five-tuples and ways of pairing them up, any
number of workers, table size, timeout and number of packets, from
`DispatcherAssumption` alone:

| Theorem | Statement |
|---|---|
| `DispatcherTypes` | `Spec => []TypeOK` |
| `OneFlowHolds` | `Spec => []OneFlowPerConversation` |
| `HeapMatchesFlowsHolds` | `Spec => []HeapMatchesFlows` |
| `ExpiredAreCollectedHolds` | `Spec => ExpiredAreCollected` |
| `NoFlowTwiceHolds` | `Spec => []NoFlowTwice` |
| `EvidenceOfSameTupleHolds` | `Spec => []EvidenceOfSameTuple` |

* `HeapInv`: each active flow has an entry not later than its newest packet, and until
  the main thread collects there is one entry per flow. The first half is what makes
  `ExpiredAreCollected` true although entries are not moved when a packet arrives.
* `IdsInv`: flows in the table, on the collectors' lists, in their hands and among
  the scored ones are pairwise different. Each lock section moves a flow from one of
  the four places to the next.
* `EvidenceInv`: what is kept under a key was noted for that key. That is why evidence
  crosses flows of one five-tuple (finding 3) and no other border.

`AlertPipelineProofs.tla` proves, for all keys, rules, lifetimes, windows, queue
sizes and any finite number of writer threads, from `AlertPipelineAssumption`:

| Theorem | Statement |
|---|---|
| `PipelineTypes` | `Spec => []TypeOK` |
| `OnlyRepeatsDroppedHolds` | `Spec => OnlyRepeatsDropped` |
| `RuleTakesEffectHolds` | `Spec => RuleTakesEffect` |
| `SuppressionIsFreshHolds` | `Spec => SuppressionIsFresh` |
| `InHandIsFinishedHolds` | `Spec => []InHandIsFinished` |
| `PipelineIsSink` | `OneCaller => (Spec => ImplementsSink)` |

* `HandsInv` (part of `TypeInv`): an alert that is not decided is in exactly one place,
  a caller's hand, the queue or a writer's hand, and its fate names the place. So
  no two threads decide it, even when two writers run.
* `FiredInv`: an entry of the dedup cache is the time of an alert of its key.
* `CacheInv`: the cache, and what a query has brought a writer, has every rule that was there
  before that query and still counts, and none that had ceased to count by then; a writer
  that matches took its alert less than a TTL after the cache was stamped.
* `ShutdownInv`: as long as no writer was created in a race there is at most the one
  `_writer_thread` holds, the stop flag stays set, and when the main thread leaves
  without a warning each writer has ended or will at its next look at the flag.
* `OrderInv`: the clock a caller has read is not before any entry of the cache.
  This needs `OneCaller`, one thread in `on_flow_complete`, as it is while the
  detector runs. With two, as at shutdown, the clock is read before the lock is
  taken, and the other caller's cleanup, at a later time, may have removed the entry
  that still counts at the time the first one read: two alerts of a key are then
  spaced by less than the window. TLC finds this with two callers and two keys, so
  the hypothesis is not one of convenience. The run
  `pipeline_alerts` has one caller for the same reason. The other theorems need no
  such hypothesis.

`PredictApiProofs.tla` proves, for any number of concurrent requests, addresses,
readings and rules, with any failures, from `PredictApiAssumption` alone:

| Theorem | Statement |
|---|---|
| `PredictTypes` | `Spec => []TypeOK` |
| `OneIncidentHolds` | `Spec => []OneIncidentUnlessRaced` |
| `CacheLagsHolds` | `Spec => CacheLagsByTTL` |
| `PredictIsSink` | `Spec => ImplementsSink` |
| `DecayMatchesHistoryHolds` | `Spec => []DecayMatchesHistory` |

* `HoldsOK` (in `TypeOK`): what a request carries over its awaits are its own alert and
  a fate that fits the place it is at.
* `IncidentInv`: of the incidents of its address that were there when a request found none
  open, none has been open since, but by an edit that reopened it after; and so for the
  incident it goes on to create.
* `RuleInv`: the cache, and what a refresh has read and not stored yet, reflect the
  rules at their time. The time a refresh stamps is from before its query, which is what
  keeps a late answer from looking fresh; the detector's is from after it, hence `Delay` there.
* `EntryInv`: the dedup entry of a key is no older than any alert of that key. Here no
  hypothesis is needed: between the clock and the entry there is no await.
* `DecayInv`: at most `MaxTracked` addresses have a list; a list ends with the last
  request of its address, and whoever asked after that has a list too (`Listed`). From
  this follow the two halves of the property: a request that is still in a list is
  undisturbed (`Held`), since the addresses that came in a row after it are all
  tracked beside its own; and an undisturbed one of the window is still in its list
  (`Kept`), since an evicted address has the oldest last request, and then as many
  others as the capacity came after it. TLC checked these invariants, with three
  addresses, a capacity of two and six requests, before they were proved. That there
  is an oldest address rests on the least of a set of numbers (`LeastNumber`).

`DecayMatchesHistory` fixes the repetitions counted and the answer that follows from them, also
that a match of a critical rule stops alerting: it says what the code does, and section 6
what the documents say instead.

For the services, `DeliveriesProofs.tla` and `StoresProofs.tla` prove properties of
single modules, and `ServicesProofs.tla` puts them together. The assumptions are
those named in `Deliveries` and `Stores`, which the run of `MCServices` evaluates:
sizes are numbers (of which `WindowFlows` and the like are positive, since the
configuration would not start otherwise), pools are finite, values that
stand for "nobody" or "nothing" are not among the real ones, threads of two kinds differ.

| Theorem of `ServicesProofs` | Statement | From |
|---|---|---|
| `AllIsAccountedFor` | `Spec => []NothingLostOrDoubled` | `StreamIsGaplessHolds`, `PacketsAddUpHolds`, `StopIsPromptHolds`, `CountsAddUpHolds`, `WindowsAreTumblingHolds`, `ForwardedOnceHolds` |
| `LimitsBreakOnlyByRaces` | `Spec => []OnlyRacesBreakLimits` | `LimitExceededOnlyByRaceHolds`, `AnnotatedOnceHolds`, `WorseIsNotifiedHolds` |
| `AdmittedOnly` | `Spec => []OnlyWhatIsAdmitted` | `ServedIsAllowedHolds`, `StreamIsAuthorizedHolds`, `AdviceIsGuardedHolds`, `OnlyListedPicklesHolds` |
| `MovesForward` | `Spec => StateMovesForward` | `IncidentsMoveForwardHolds`, `VersionsMoveForwardHolds`, `FullBuffersStayHolds` |
| `RefreshesKeepIndicators` | `Spec => []RefreshKeepsIndicators` | `RefreshKeepsIndicatorsHolds` |
| `ReadersAreConsistent` | `Spec => []ReadersSeeOneState` | `WalksMissNothingHolds`, `ScoreFollowsLabelHolds`, `ScoresUseOneVersionHolds`, `ReadersOfPayloadsAgreeHolds`, `NoFalseAllClearHolds`, `ScrapesAreTrue` |

That a behaviour of the composition is one of each service (`HubRuns`, `GateRuns`, ...)
follows step by step: a step is the running service's own, or leaves its variables
alone (`OneServiceRuns`). `TrustIsRecentHolds` is proved as well, a conjunct
of `MemoryMatchesHistory`, whose other conjuncts TLC checks alone. The strengthenings:

* Stream. `OneAtATime`: of those who were admitted one at a time, clients or not yet,
  there are no more than the cap; by how many the others exceed it nothing bounds. `Turns`: broadcasts get the lock in the order they
  were called. `Loads`: only the one that has it sends, and to clients. `Streams`: from its
  first broadcast on a client has received every one that has had the lock up to its last, and
  while no send to it failed, all but the one it is still to be sent.
* Capture. `StopInv`: with the stop event set, only a worker that was already waiting for
  a packet can still take one. `OnePlace` and `Count`: a packet is in one place only, which
  is what makes the sum a sum of cardinalities.
* Assets. `Snapshots`: a row that a flush has read is still the stored one when it writes,
  unless the two flushers clashed, which they can only do once the main thread has set the
  stop event. `Balanced`: rows, flushes under way, memory and losses sum up to what was
  observed, column by column; for sets, as long as no more was observed than the cap.
* Drift. `InTurn`: unless workers overtake each other, at most one closed window is in
  hand, the last one, and until its verdict is recorded the level is that of the window before it.
  `Known`: whoever overtakes whom, the level kept is that of a window that was judged, so one
  that is not nominal was notified, or one as bad was.
* Forwarder. `SentInOrder`, `BatchInOrder`, `NothingMissed`: what is still to be sent is newer
  than all that was sent, and a wanted id between the last one and an entry of the batch is
  excused or stands before it. The saved id is covered as well, since a restart begins there.
* Triage. `Once`: an alert that nobody named is once on a runner's list, and what annotations
  it has by then were stored by others after the run had begun; hence any two of its stored
  annotations, too. `Advice`: what the model was told of an
  alert does not become wrong while it answers, and stored annotations are in order of time.
* Gate. `TokensAreEarned`: a token names an account that had its role when it was issued, and
  `held` remembers that. Deleting an account does not reach its tokens, which is why the
  property speaks of the token's life.
* Models. `PicklesVerified`: each pickle in use was verified when it was loaded, whichever
  fall-back loaded it.
* Buffers. The buffer that is dropped is a shortest one; that there is one rests on the least
  element of a set of lengths (`SmallestOf`, from the well-foundedness of the numbers).
* Walks. `Owed`: a row that a walk still owes stands at or after the walk's offset in every
  order its listing may have. In an order by id the place of a row is the number of
  newer ones (`PlaceInListing`), which arrivals only increase; in an order by time the older
  of two rows keeps its place relative to the other unless their times tie. A page moves the
  offset past exactly the rows it holds (`PageHolds`), and a short one is the last.
* Labels. `LabelsScored`: the supervised engine is chosen once, so the threshold a score
  was computed with is the one the verdict is judged by.
* Payloads. `SamplesSound`: the samples are the first payloads of the initiator, all of
  them while there is room; `HitsSound`: the hits are the matches of the initiator's
  payloads that do not look encrypted, whatever the responder sent.
* Scrapes. `CollectorSound`: a window that may fire is handed over in the same step, the next
  one is empty until the training ends, and what is trained on has an older id. A condition
  told to be complete is met (`CompleteIsMet`: the ratio is rounded down), so a window all of
  whose conditions are told complete lacks only time. `ReaderSound`: what a reader has
  read stays true of what it reads next, or a promotion has overtaken it.
* Trust. `Expires`: a cached answer expires no later than a lifetime after it was given,
  since the lifetime is counted from before the lookup; the history never moves back.
* Incidents. `Forward`: what an analyst is about to store of an incident nobody else has
  in hand continues what is stored.
* `RefreshInv`: the store's lock names the thread that refreshes, which is the one
  that inherited it, not the one that took it, or a thread that failed to start and left
  it taken; the first refresh runs under `_intel_lock` before any lookup.
  `IndicatorsKept` is inductive: the set is AbuseIPDB's last answer and what MISP has
  answered since. It does not say that MISP's earlier answer survives, which is false (finding 4).
* `ReloadInv`, `QuartetInv`: while `_swap_lock` is held, the artifacts already assigned
  are of the new version and the others of one old version; whenever it is free all
  four are of one. A reload under way is of a version no older than the active one,
  because `_reload_lock` admits one reload at a time.

Each proof has the shape: initial states satisfy the invariant, each
action preserves it (one step per action or group, from lemmas on what a group
of actions does to the state the invariant is about), the invariant implies the
property. In the longer ones a lemma first says what kinds of steps there are
for one invariant (`CacheSteps` in `AlertPipelineProofs`, for instance), so that
its proof has as many cases as differ, not one for each action.

Only model-checked:

* the liveness properties `EveryActionIsResolved`, `EveryAlertIsDecided`,
  `CollectedIsScored`, `FlowsExpire` and `CollectionResumes`: TLAPS does not reason
  about fairness and ENABLED here;
* of the services, `MemoryMatchesHistory`, except for `TrustIsRecent`. Most of
  its conjuncts compare a fold over a history of any length with what was kept of it
  (`SelectSeq`, sums, features, replacements in a text), which needs induction over data;
* the four properties of the findings, which are false.

## 6. Findings

Each is a run in which TLC shows the code doing something else than the
repository says.

1. **A resolved action does not stay resolved** (`guardian_final`). The expiry loop
   sets EXPIRED on rows it selected before an await per row
   (`guardian/engine.py:196-203`). If the operator presses Confirm or Undo in
   between, the commit overwrites it and the address is unblocked although the
   chat said it stays blocked. `src/doc/architecture.md:389`: "block becomes
   permanent, no longer subject to auto-rollback".
2. **Cached suppression rules drop alerts that match no rule**
   (`pipeline_detached`). The cache keeps ORM objects; the commit of the next
   alert expires them and the close of its session detaches them, so that until
   the next refresh reading any rule raises and the alert is lost, with no
   database failure at all (`pipeline.py:207`).
3. **Evidence of one flow reaches a later one** (`flows_ownflow`). Payload hits and
   JA3 are keyed by five-tuple and only removed when a flow is scored; an evicted
   flow, a one-packet flow, or a worker that writes after the flusher has
   collected leaves an entry for the next flow of that five-tuple
   (`capture/dispatcher.py:94`).
4. **A feed that fails costs its addresses** (`intel_feed`). AbuseIPDB's answer replaces the
   one set that MISP's addresses are added to (`enrichment/threat_intel.py:121`), so when MISP
   then fails they are gone until it answers again. `src/README.md:149`: "If a feed is
   unreachable, the existing data is preserved and a warning is logged."

Met while modelling, and not kept as runs:

* `guardian/engine.py:72`: only PENDING counts as active, so after Confirm a further alert of
  the address opens a second action, whose expiry lifts the block that
  `src/doc/architecture.md:389` calls permanent.
* `guardian/engine.py:126`: the breaker is consulted once per batch, so one batch
  may take more than `GUARDIAN_CIRCUIT_MAX_ACTIONS`; `src/README.md:622` describes a
  limit.
* `guardian/backends.py:53`: two tasks' read-modify-writes of AdGuard's list lose
  one another's change, so that a row may claim a block that is gone; the
  docstring (`backends.py:4`) rules out a row that "falsely claims the device was
  blocked".
* `guardian/engine.py:160`: when the commit fails after `block()`, no row rolls the
  block back; `src/README.md:193` promises a temporary block.
* `pipeline.py:222`: an alert whose commit fails is not retried
  (`src/doc/architecture.md:546`).
* `pipeline.py:282`: the drain sets the stop flag first, so the writer leaves queued
  alerts behind, and a writer the flusher creates after the test is not waited for at all;
  the docstring says "wait for pending alerts to flush".
* `features/flow_extractor.py:450`: eviction takes the flow that started first, not
  the least recently used one (`src/doc/ml-models.md:178`).
* `unsupervised/window_trainer.py:340`: the gate's reference includes windows that
  were never registered; the comment at line 304 says promoted ones.
* `enrichment/confidence_decay.py:33`: every scored request of an address counts, harmless ones
  included; its docstring (line 1), `src/README.md:601` and `src/wiki/Enrichment-and-SIEM.md:90`
  speak of repeated alerts. `DecayMatchesHistory` is stated over the requests, as the code has it.
* `api/routers/predict.py:114`: decay recomputes `is_anomaly` and so undoes the
  override of a critical rule, of which `ensemble/scorer.py:130` says that it
  must "always alert at critical severity" (and `src/README.md:73` that it "forces an alert").
* `enrichment/suppression.py:41`: an invalidation that arrives during a refresh is
  lost, and the rules it was about live for another TTL; a rollback in `predict`
  expires cached rules as it does in the pipeline.
* `enrichment/correlation.py`: an open incident is found by a substring of its
  title, so one about 10.0.0.12 is found for 10.0.0.1.
* `api/routers/alerts.py:292`: of two edits that both move an incident forward the
  later commit can set it back, and so reopen it; the comment at line 278 says that a status
  may only move forward. Line 84: pages are ordered by time alone, so
  alerts of one time may be repeated and missed.
* `mcp_server/queries.py:78`: `_validate_ip` does not normalise, so another spelling
  of an IPv6 address is answered with an empty all-clear.
* `mcp_server/sanitize.py:24` calls `payload_matches` closed names that need no scrubbing, but
  `logwatch/persist.py:25` and line 35 store raw log lines there, and `get_alert`
  (`mcp_server/queries.py:131`) returns them as they are. `ScrubbedText` has both fields among what is
  shown, and `ShownTextIsNeutral` says of which texts it speaks. Line 34 promises a bounded
  length, which a canonical JA3 string does not have.
* `api/routers/websocket.py:84`: "Max concurrent connections: 100" is exceeded by connections
  whose tests of the limit overlap, by any number of them.
* `triage/runner.py`: a call that times out costs nothing in the ledger, and runs that overlap
  may together spend a budget and a call each, since none sees what the others have not stored.
* `enrichment/threat_intel.py:205`: when the thread cannot be started the lock stays taken, and
  no refresh runs until the process is restarted.
* `src/siem/syslog/forwarder.py:98`: "Minimum severity" is compared for equality.
* `engines/ft_transformer_engine.py`: a checkpoint of another shape raises at
  start instead of falling back; an untrained LSTM counts as available.
* `pipeline.py:92`: the docstring says that the scrape thread is started here; it is
  not.
* `unsupervised/evaluation.py:94`: rows are scored "exactly as" the engine does, but
  the engine drops a host's sequence at its limit of hosts and the bench does not.
* `api/metrics.py:110`: "resets to 0 when training completes" does not hold
  between the two lock sections, nor when the thread fails to start; the drift
  gauge keeps an older value while no drift is known.

## 7. Plan

The model covers what the plan named, and the invariants of the five core modules and
six of the seven promises of the services are proved. What is left are the conjuncts of
`MemoryMatchesHistory` that might be proved without a fold: `LoggedUnlessCrowded` of `DnsLog`
and `DumpsAreNewest` of `BaselineBench`.

Not planned: a composition of `Dispatcher` with `AlertPipeline` at the callback. The
callback carries a record and returns nothing, both modules leave the other side
free (any record may be an anomaly, any anomaly may come), and the product of
their states is out of reach.

## 8. Not modelled

* Numeric inference, the networks, fitting, deviations and variances, entropy,
  JA3 hashing, the calibration temperature: pure functions of data, tested as
  such. Where their result decides control flow it is an input or a free choice.
* Training itself: a run ends with some threshold or fails.
* Simulated attacks (`unsupervised/attack_sim.py`: an input of `BaselineBench`),
  training scripts, notebooks: single-threaded programs that read files and write files.
* The parser of Gitea's log lines, the prompt of triage, GeoIP, MITRE tables,
  outgoing notifications, configuration: text, tables and I/O.
* Dashboard views, sandbox, demonstration and migrations: user interface and
  deployment. The data functions of the dashboard are in `AlertRecords`.
* Cryptography: hashing and signing succeed; a token is the record it signs.
* Wording, logging and formatting, and counters other than those of the baseline.

The map covers 31 % of the implementation; most of the rest is in the list above.
