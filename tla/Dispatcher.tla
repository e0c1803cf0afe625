----------------------------- MODULE Dispatcher -----------------------------
(***************************************************************************)
(* Flow tracking in the detector process: FlowExtractor                    *)
(* (src/src/features/flow_extractor.py) and the Dispatcher                 *)
(* (src/src/capture/dispatcher.py) that feeds it and hands expired flows   *)
(* to the detection pipeline.                                              *)
(*                                                                         *)
(*   workers:    the packet workers, each running dispatch for one packet  *)
(*   collectors: the flow-flusher thread (_flush_expired) and, at          *)
(*               shutdown, the main thread (flush_all)                     *)
(*                                                                         *)
(* A step is one lock section, or one read of the clock outside a lock.    *)
(* Packets are a five-tuple and the kinds of evidence (payload matches, a  *)
(* JA3 fingerprint) found in them; evidence is the flow it was seen in.    *)
(***************************************************************************)
EXTENDS Integers, Sequences, FiniteSets, Functions

CONSTANTS
    Keys,         \* five-tuples (src, dst, sport, dport, proto)
    Rev,          \* the five-tuple of the opposite direction
    Src,          \* the source address of a five-tuple
    Workers,      \* packet workers
    MaxActive,    \* MAX_ACTIVE_FLOWS
    Timeout,      \* FLOW_TIMEOUT
    Evidence,     \* the kinds of evidence ("payload", "ja3") each five-tuple's packets may carry
    MaxTime,      \* bound: the clock
    MaxPackets    \* bound: packets

Kinds == {"payload", "ja3"}
Flusher == "flusher"
Main == "main"
Collectors == {Flusher, Main}

ASSUME DispatcherAssumption ==
    /\ Rev \in [Keys -> Keys] /\ \A k \in Keys : Rev[Rev[k]] = k
    /\ Keys \subseteq DOMAIN Src
    /\ MaxActive \in Nat \ {0} /\ Timeout \in Nat \ {0}
    /\ Evidence \in [Keys -> SUBSET Kinds]
    /\ MaxTime \in Nat \ {0} /\ MaxPackets \in Nat

VARIABLES
    now,      \* time.time()
    flows,    \* _flows: FlowRecord of each active five-tuple
    heap,     \* _expiry_heap: pairs of a time and a five-tuple
    hits,     \* _payload_hits and _ja3_hits: entries, least recently written first
    born,     \* flows created so far (history: a flow's number is its identity)
    packets,  \* packets dispatched so far
    wpc, wpkt, wref,  \* a worker: where it is, its packet and timestamp, its flow
    cpc, cnow, clist, crec, \* a collector: where it is, the clock it read, the records
                            \* it collected, the one it is handling
    scored,   \* what was handed to the flow callback, in order (history)
    phase     \* running, flushing (main in dispatcher.stop), stopped

workerVars    == <<wpc, wpkt, wref, packets>>
collectorVars == <<cpc, cnow, clist, crec, scored>>
vars == <<now, flows, heap, hits, born, workerVars, collectorVars, phase>>

Active == DOMAIN flows

NoPacket == [key |-> "none", kinds |-> {}, ts |-> 0]
NoRef    == [key |-> "none", flow |-> 0]
NoRecord == [key |-> "none", flow |-> 0, payload |-> {}]

Init ==
    /\ now = 1
    /\ flows = <<>> /\ heap = {} /\ hits = [d \in Kinds |-> <<>>]
    /\ born = 0 /\ packets = 0
    /\ wpc = [w \in Workers |-> "idle"]
    /\ wpkt = [w \in Workers |-> NoPacket] /\ wref = [w \in Workers |-> NoRef]
    /\ cpc = [c \in Collectors |-> "idle"] /\ cnow = 0
    /\ clist = [c \in Collectors |-> {}] /\ crec = [c \in Collectors |-> NoRecord]
    /\ scored = <<>>
    /\ phase = "running"

(***************************************************************************)
(* FlowExtractor.process_packet                                            *)
(***************************************************************************)

(* A worker takes a packet off the queue and reads the clock. *)
Stamp(w) ==
    /\ wpc[w] = "idle" /\ phase = "running" /\ packets < MaxPackets
    /\ \E k \in Keys : \E kinds \in SUBSET Evidence[k] :
        wpkt' = [wpkt EXCEPT ![w] = [key |-> k, kinds |-> kinds, ts |-> now]]
    /\ wpc' = [wpc EXCEPT ![w] = "track"]
    /\ packets' = packets + 1
    /\ UNCHANGED <<now, flows, heap, hits, born, wref, collectorVars, phase>>

NewFlow(ts) == [flow |-> born + 1, start |-> ts, last |-> ts, newest |-> ts, many |-> FALSE]

(* add_packet sets last_time to the packet's timestamp, whatever it was;       *)
(* `newest` is the latest timestamp the flow has seen (history).               *)
AddPacket(f, ts) ==
    [f EXCEPT !.last = ts, !.many = TRUE, !.newest = IF ts > @ THEN ts ELSE @]

(* The flow goes on to ja3 and payload bookkeeping only in forward direction. *)
Continue(w, key, flow, forward) ==
    /\ wref' = [wref EXCEPT ![w] = [key |-> key, flow |-> flow]]
    /\ wpc' = [wpc EXCEPT ![w] = IF forward /\ wpkt[w].kinds # {} THEN "evidence" ELSE "idle"]

(* The packet belongs to an active flow, in one direction or the other. *)
TrackKnown(w) ==
    LET p == wpkt[w]
    IN  /\ wpc[w] = "track"
        /\ \/ /\ p.key \in Active
              /\ flows' = [flows EXCEPT ![p.key] = AddPacket(@, p.ts)]
              /\ Continue(w, p.key, flows[p.key].flow, TRUE)
           \/ /\ p.key \notin Active /\ Rev[p.key] \in Active
              /\ flows' = [flows EXCEPT ![Rev[p.key]] = AddPacket(@, p.ts)]
              /\ Continue(w, Rev[p.key], flows[Rev[p.key]].flow, FALSE)
        /\ UNCHANGED <<now, heap, hits, born, wpkt, packets, collectorVars, phase>>

(* Mutant of IsNew: the opposite direction is not looked up. *)
IsNewOneWay(k) == k \notin Active

IsNew(k) == k \notin Active /\ Rev[k] \notin Active

IsFull == Cardinality(Active) >= MaxActive

(* The candidates of min(..., key=start_time); which of them is dict order. *)
Oldest == {k \in Active : \A j \in Active : flows[k].start <= flows[j].start}

Add(table, k, ts) == [j \in DOMAIN table \cup {k} |-> IF j = k THEN NewFlow(ts) ELSE table[j]]

TrackNew(w) ==
    LET p == wpkt[w]
    IN  /\ wpc[w] = "track" /\ IsNew(p.key) /\ ~IsFull
        /\ flows' = Add(flows, p.key, p.ts)
        /\ heap' = heap \cup {<<p.ts, p.key>>}
        /\ born' = born + 1
        /\ Continue(w, p.key, born + 1, TRUE)
        /\ UNCHANGED <<now, hits, wpkt, packets, collectorVars, phase>>

(* Mutant of Compacted: the evicted flow's entry stays in the heap. *)
NotCompacted(rest) == heap

(* _evict_oldest rebuilds the heap without the entries of flows that are gone. *)
Compacted(rest) == {e \in heap : e[2] \in DOMAIN rest}

(* The table is full: the flow that started first is dropped, not scored. *)
TrackEvicting(w) ==
    LET p == wpkt[w]
    IN  /\ wpc[w] = "track" /\ IsNew(p.key) /\ IsFull
        /\ \E k \in Oldest :
            LET rest == Restrict(flows, Active \ {k})
            IN  /\ flows' = Add(rest, p.key, p.ts)
                /\ heap' = Compacted(rest) \cup {<<p.ts, p.key>>}
        /\ born' = born + 1
        /\ Continue(w, p.key, born + 1, TRUE)
        /\ UNCHANGED <<now, hits, wpkt, packets, collectorVars, phase>>

(***************************************************************************)
(* Dispatcher.dispatch: evidence per flow, in dictionaries with LRU limit. *)
(***************************************************************************)

(* Mutant of HitKey: evidence kept per source address, as before issue #21. *)
HitKeyHost(k) == Src[k]

HitKey(k) == k

Entry(d, k) == {i \in DOMAIN hits[d] : hits[d][i].key = HitKey(k)}

(* What the dictionary d holds for k: payload matches add up, JA3 is replaced. *)
Held(d, k) == UNION {hits[d][i].from : i \in Entry(d, k)}

(* A dictionary has one entry at most for a key. *)
Without(d, k) ==
    IF Entry(d, k) = {} THEN hits[d]
    ELSE LET i == CHOOSE i \in Entry(d, k) : TRUE
         IN  SubSeq(hits[d], 1, i - 1) \o SubSeq(hits[d], i + 1, Len(hits[d]))

(* The dictionary after k's entry is written and moved to the end. *)
Written(d, ref) ==
    LET full  == Entry(d, ref.key) = {} /\ Len(hits[d]) >= MaxActive
        rest  == IF full THEN Tail(hits[d]) ELSE Without(d, ref.key)
        found == [flow |-> ref.flow, key |-> ref.key]
    IN  Append(rest, [key  |-> HitKey(ref.key),
                      from |-> IF d = "payload" THEN Held(d, ref.key) \cup {found} ELSE {found}])

(* JA3 first, then payload matches: two lock sections, after process_packet's. *)
NoteEvidence(w) ==
    LET d == IF "ja3" \in wpkt[w].kinds THEN "ja3" ELSE "payload"
    IN  /\ wpc[w] = "evidence"
        /\ hits' = [hits EXCEPT ![d] = Written(d, wref[w])]
        /\ wpkt' = [wpkt EXCEPT ![w].kinds = @ \ {d}]
        /\ wpc' = [wpc EXCEPT ![w] = IF wpkt[w].kinds = {d} THEN "idle" ELSE "evidence"]
        /\ UNCHANGED <<now, flows, heap, born, wref, packets, collectorVars, phase>>

(***************************************************************************)
(* _flush_expired (flusher) and flush_all (main)                           *)
(***************************************************************************)

(* Flows without two packets have no feature vector: they are not in the list. *)
Records(keys) == {[key |-> k, flow |-> flows[k].flow] : k \in {j \in keys : flows[j].many}}

(* The flusher wakes up and reads the clock; the stop flag is read before it   *)
(* sleeps, not after.                                                          *)
Wake ==
    /\ cpc[Flusher] = "idle"
    /\ cnow' = now
    /\ cpc' = [cpc EXCEPT ![Flusher] = "collect"]
    /\ UNCHANGED <<now, flows, heap, hits, born, workerVars, clist, crec, scored, phase>>

(* Mutant of Due: an entry exactly at the cutoff waits for the next round. *)
DueStrict(cutoff) == {e \in heap : e[1] < cutoff}

Due(cutoff) == {e \in heap : e[1] <= cutoff}

(* Mutant of Repushed: a popped flow that is still in use is not pushed again. *)
RepushedNone(cutoff) == {}

(* Flows that got packets since their entry was pushed go back with last_time. *)
Repushed(cutoff) ==
    {<<flows[k].last, k>> : k \in {j \in Active : /\ flows[j].last > cutoff
                                                  /\ \E e \in Due(cutoff) : e[2] = j}}

CollectExpired ==
    LET cutoff   == cnow - Timeout
        idle     == {k \in Active : flows[k].last <= cutoff}
        heapLeft == (heap \ Due(cutoff)) \cup Repushed(cutoff)
        \* the fallback scan runs only when the heap is empty
        expired  == IF heapLeft = {} THEN idle
                    ELSE {k \in idle : \E e \in Due(cutoff) : e[2] = k}
    IN  /\ cpc[Flusher] = "collect"
        /\ clist' = [clist EXCEPT ![Flusher] = Records(expired)]
        /\ flows' = Restrict(flows, Active \ expired)
        /\ heap' = heapLeft
        /\ cpc' = [cpc EXCEPT ![Flusher] = "take"]
        /\ UNCHANGED <<now, hits, born, workerVars, cnow, crec, scored, phase>>

(* Mutant of Remaining: collect_all leaves the table as it was. *)
RemainingAll == flows

Remaining == <<>>

(* dispatcher.stop: flush_all collects everything; the heap is left alone. *)
CollectAll ==
    /\ phase = "flushing" /\ cpc[Main] = "idle"
    /\ clist' = [clist EXCEPT ![Main] = Records(Active)]
    /\ flows' = Remaining
    /\ cpc' = [cpc EXCEPT ![Main] = "take"]
    /\ UNCHANGED <<now, heap, hits, born, workerVars, cnow, crec, scored, phase>>

(* The next record: its payload matches are popped, *)
TakeRecord(c) ==
    /\ cpc[c] = "take"
    /\ \E r \in clist[c] :
        /\ crec' = [crec EXCEPT ![c] = [key |-> r.key, flow |-> r.flow, payload |-> Held("payload", r.key)]]
        /\ hits' = [hits EXCEPT !["payload"] = Without("payload", r.key)]
        /\ clist' = [clist EXCEPT ![c] = @ \ {r}]
    /\ cpc' = [cpc EXCEPT ![c] = "score"]
    /\ UNCHANGED <<now, flows, heap, born, workerVars, cnow, scored, phase>>

(* Mutant of AfterCallback: an exception of the callback ends the thread. *)
AfterCallbackFatal(raised) == IF raised THEN "dead" ELSE "take"

AfterCallback(raised) == "take"

(* then its JA3, and the callback runs; what it raises is logged. *)
Score(c) ==
    LET r == crec[c]
    IN  /\ cpc[c] = "score"
        /\ hits' = [hits EXCEPT !["ja3"] = Without("ja3", r.key)]
        /\ scored' = Append(scored, [key |-> r.key, flow |-> r.flow,
                                     evidence |-> r.payload \cup Held("ja3", r.key)])
        /\ \E raised \in BOOLEAN : cpc' = [cpc EXCEPT ![c] = AfterCallback(raised)]
        /\ crec' = [crec EXCEPT ![c] = NoRecord]
        /\ UNCHANGED <<now, flows, heap, born, workerVars, cnow, clist, phase>>

(* _flush_loop ends at its head once stop() has set the flag. *)
FlusherDone ==
    /\ cpc[Flusher] = "take" /\ clist[Flusher] = {}
    /\ cpc' = [cpc EXCEPT ![Flusher] = IF phase = "running" THEN "idle" ELSE "ended"]
    /\ UNCHANGED <<now, flows, heap, hits, born, workerVars, cnow, clist, crec, scored, phase>>

MainDone ==
    /\ cpc[Main] = "take" /\ clist[Main] = {}
    /\ cpc' = [cpc EXCEPT ![Main] = "ended"]
    /\ phase' = "stopped"
    /\ UNCHANGED <<now, flows, heap, hits, born, workerVars, cnow, clist, crec, scored>>

(* The signal: no packet is taken any more; a worker whose join timed out, and *)
(* a flusher asleep or at work, may still finish what they do.                 *)
BeginShutdown ==
    /\ phase = "running"
    /\ phase' = "flushing"
    /\ UNCHANGED <<now, flows, heap, hits, born, workerVars, collectorVars>>

Tick ==
    /\ now < MaxTime
    /\ now' = now + 1
    /\ UNCHANGED <<flows, heap, hits, born, workerVars, collectorVars, phase>>

WorkerStep(w) == TrackKnown(w) \/ TrackNew(w) \/ TrackEvicting(w) \/ NoteEvidence(w)
FlusherStep   == Wake \/ CollectExpired \/ TakeRecord(Flusher) \/ Score(Flusher) \/ FlusherDone
MainStep      == CollectAll \/ TakeRecord(Main) \/ Score(Main) \/ MainDone

Next ==
    \/ \E w \in Workers : Stamp(w) \/ WorkerStep(w)
    \/ FlusherStep \/ MainStep
    \/ BeginShutdown \/ Tick

Spec == Init /\ [][Next]_vars

(* Threads are scheduled and the clock advances; packets and the signal that  *)
(* ends the process may never come.                                            *)
FairSpec ==
    /\ Spec
    /\ \A w \in Workers : WF_vars(WorkerStep(w))
    /\ WF_vars(FlusherStep) /\ WF_vars(MainStep) /\ WF_vars(Tick)
-----------------------------------------------------------------------------

Flow == [flow : 1..born, start : 0..now, last : 0..now, newest : 0..now, many : BOOLEAN]
Found == [flow : 1..born, key : Keys]

(* The clock, the table of flows, which is bounded, and its heap. *)
TableOK ==
    /\ now \in 1..MaxTime /\ packets \in 0..MaxPackets /\ born \in Nat
    /\ Active \subseteq Keys /\ \A k \in Active : flows[k] \in Flow
    /\ IsFiniteSet(Active) /\ Cardinality(Active) <= MaxActive
    /\ heap \subseteq (0..now) \X Keys

(* The dictionaries of evidence, which are bounded too. *)
EvidenceOK ==
    /\ hits \in [Kinds -> Seq([key : Keys, from : SUBSET Found])]
    /\ \A d \in Kinds : Len(hits[d]) <= MaxActive

WorkersOK ==
    /\ wpc \in [Workers -> {"idle", "track", "evidence"}]
    /\ wpkt \in [Workers -> [key : Keys \cup {"none"}, kinds : SUBSET Kinds, ts : 0..now]]
    /\ wref \in [Workers -> [key : Keys \cup {"none"}, flow : 0..born]]
    /\ \A w \in Workers : wpc[w] # "idle" => wpkt[w].key \in Keys /\ wpkt[w].ts \in 1..now
    /\ \A w \in Workers : wpc[w] = "evidence" =>
          /\ wref[w].key \in Keys /\ wref[w].flow \in 1..born /\ wpkt[w].kinds # {}

CollectorsOK ==
    /\ cpc \in [Collectors -> {"idle", "collect", "take", "score", "ended"}]
    /\ cnow \in 0..now
    /\ clist \in [Collectors -> SUBSET [key : Keys, flow : 1..born]]
    /\ crec \in [Collectors -> [key : Keys \cup {"none"}, flow : 0..born, payload : SUBSET Found]]
    /\ \A c \in Collectors : cpc[c] = "score" => crec[c].key \in Keys /\ crec[c].flow \in 1..born
    /\ scored \in Seq([key : Keys, flow : 1..born, evidence : SUBSET Found])
    /\ phase \in {"running", "flushing", "stopped"}

TypeOK == TableOK /\ EvidenceOK /\ WorkersOK /\ CollectorsOK

(* Both directions of a conversation share one record, whatever the order in   *)
(* which workers process its packets: a second one would halve every feature.  *)
OneFlowPerConversation == \A k \in Active : Rev[k] \in Active => Rev[k] = k

(* The heap is what makes expiry complete and its memory bounded: until        *)
(* shutdown every active flow has exactly one entry and no entry is stale.     *)
HeapMatchesFlows ==
    (cpc[Main] = "idle") =>
        /\ {e[2] : e \in heap} = Active
        /\ Cardinality(heap) = Cardinality(Active)

(* Nothing hides from the flusher: after collect_expired no flow is left whose *)
(* packets are all older than the cutoff, even if timestamps taken outside     *)
(* the lock went backwards.                                                    *)
ExpiredAreCollected ==
    [][(cpc[Flusher] = "collect" /\ cpc'[Flusher] = "take") =>
        \A k \in DOMAIN flows' : flows'[k].newest > cnow - Timeout]_vars

(* A flow is scored at most once, with flusher and main both collecting. *)
NoFlowTwice ==
    \A i, j \in DOMAIN scored : scored[i].flow = scored[j].flow => i = j

(* Issue #21: evidence reaches only flows of its own five-tuple, not another   *)
(* flow of the same host.                                                      *)
EvidenceOfSameTuple ==
    \A i \in DOMAIN scored : \A f \in scored[i].evidence : f.key = scored[i].key

Listed(f) == \E c \in Collectors : \E r \in clist[c] : r.flow = f
(* Every record a collector has taken out of the table reaches the callback,   *)
(* whatever the callback raises for the records before it.                     *)
CollectedIsScored ==
    \A f \in 1..MaxPackets : Listed(f) ~> \E i \in DOMAIN scored : scored[i].flow = f

Tracked(f) == \E k \in Active : flows[k].flow = f /\ flows[k].newest + Timeout <= MaxTime
(* No flow stays in the table: it expires once its packets stop.  (A worker   *)
(* whose join timed out at shutdown may leave one behind flush_all.)           *)
FlowsExpire ==
    \A f \in 1..MaxPackets : Tracked(f) ~> (~Tracked(f) \/ phase # "running")

(* dispatcher.py:52: "Keyed by flow rather than src_ip so a match in one flow  *)
(* can't be attributed to another flow from the same host (issue #21)".        *)
EvidenceOfOwnFlow ==
    \A i \in DOMAIN scored : \A f \in scored[i].evidence : f.flow = scored[i].flow
=============================================================================
