-------------------------- MODULE PacketProcessor --------------------------
(***************************************************************************)
(* Capture, bounded queue and worker threads                               *)
(* (src/src/capture/packet_capture.py), and the order in which main stops  *)
(* them (src/main.py).  A step is what a thread does between two blocking   *)
(* calls; the queue and the drop counter are locked on their own.          *)
(***************************************************************************)
EXTENDS Naturals, Sequences, FiniteSets

CONSTANTS
    PktWorkers,  \* worker threads
    PktQueueSize,\* PACKET_QUEUE_SIZE
    MaxArrivals, \* bound: packets
    NoPkt        \* a worker holds no packet

VARIABLES
    arrived,  \* how many packets the sniffer has seen; a packet is its number
    pktQueue, \* _queue
    dropped,  \* _dropped
    worker,   \* where each worker is in _loop
    hand,     \* the packet whose callback a worker is in
    handled,  \* packets whose callback returned or raised
    capStop, procStop, \* the two _stop events
    sniffing, \* the capture thread is running
    joined,   \* workers main has waited for
    outlived, \* workers whose join timed out
    mainPc,   \* main's _shutdown
    extra     \* packets each worker took after procStop was set (history)

procVars == <<arrived, pktQueue, dropped, worker, hand, handled, capStop, procStop, sniffing,
              joined, outlived, mainPc, extra>>
mainVars == <<capStop, procStop, joined, outlived, mainPc>>

Init ==
    /\ arrived = 0 /\ pktQueue = <<>> /\ dropped = 0 /\ handled = {}
    /\ worker = [w \in PktWorkers |-> "loop"] /\ hand = [w \in PktWorkers |-> NoPkt]
    /\ capStop = FALSE /\ procStop = FALSE /\ sniffing = TRUE
    /\ joined = {} /\ outlived = {} /\ mainPc = "run" /\ extra = [w \in PktWorkers |-> 0]

(* A full queue never blocks the sniffer: the packet is counted and forgotten. *)
Enqueue ==
    /\ arrived < MaxArrivals /\ sniffing
    /\ arrived' = arrived + 1
    /\ IF Len(pktQueue) < PktQueueSize
       THEN pktQueue' = Append(pktQueue, arrived') /\ UNCHANGED dropped
       ELSE dropped' = dropped + 1 /\ UNCHANGED pktQueue
    /\ sniffing' = ~capStop  \* sniff() asks stop_filter after each packet, and only then
    /\ UNCHANGED <<worker, hand, handled, mainVars, extra>>

Loop(w) ==
    /\ worker[w] = "loop"
    /\ worker' = [worker EXCEPT ![w] = IF procStop THEN "exited" ELSE "get"]
    /\ UNCHANGED <<arrived, pktQueue, dropped, hand, handled, sniffing, mainVars, extra>>

Get(w) ==
    /\ worker[w] = "get" /\ pktQueue # <<>>
    /\ hand' = [hand EXCEPT ![w] = Head(pktQueue)] /\ pktQueue' = Tail(pktQueue)
    /\ worker' = [worker EXCEPT ![w] = "callback"]
    /\ extra' = IF procStop THEN [extra EXCEPT ![w] = @ + 1] ELSE extra
    /\ UNCHANGED <<arrived, dropped, handled, sniffing, mainVars>>

(* queue.Empty after half a second. *)
Empty(w) ==
    /\ worker[w] = "get" /\ pktQueue = <<>>
    /\ worker' = [worker EXCEPT ![w] = "loop"]
    /\ UNCHANGED <<arrived, pktQueue, dropped, hand, handled, sniffing, mainVars, extra>>

(* dispatcher.dispatch returns; what it raises is logged and the worker goes on. *)
Handled(w) ==
    /\ worker[w] = "callback"
    /\ handled' = handled \cup {hand[w]} /\ hand' = [hand EXCEPT ![w] = NoPkt]
    /\ worker' = [worker EXCEPT ![w] = "loop"]
    /\ UNCHANGED <<arrived, pktQueue, dropped, sniffing, mainVars, extra>>

(* capture.stop(): without another packet the join of the sniffer times out. *)
StopCapture ==
    /\ mainPc = "run" /\ capStop' = TRUE /\ mainPc' = "captureStopped"
    /\ UNCHANGED <<arrived, pktQueue, dropped, worker, hand, handled, sniffing, procStop, joined, outlived, extra>>

StopWorkers ==
    /\ mainPc = "captureStopped" /\ procStop' = TRUE /\ mainPc' = "joining"
    /\ UNCHANGED <<arrived, pktQueue, dropped, worker, hand, handled, sniffing, capStop, joined, outlived, extra>>

(* A join ends with the thread, or after its timeout if a callback takes longer. *)
JoinWorker(w) ==
    /\ mainPc = "joining" /\ w \notin joined
    /\ \/ worker[w] = "exited" /\ UNCHANGED outlived
       \/ worker[w] = "callback" /\ outlived' = outlived \cup {w}
    /\ joined' = joined \cup {w}
    /\ UNCHANGED <<arrived, pktQueue, dropped, worker, hand, handled, sniffing, capStop, procStop, mainPc, extra>>

(* What follows is dispatcher.stop(), drain_alert_queue() and sys.exit(). *)
Flush ==
    /\ mainPc = "joining" /\ joined = PktWorkers /\ mainPc' = "flushing"
    /\ UNCHANGED <<arrived, pktQueue, dropped, worker, hand, handled, sniffing, capStop, procStop, joined, outlived, extra>>

Next ==
    \/ Enqueue \/ StopCapture \/ StopWorkers \/ Flush
    \/ \E w \in PktWorkers : Loop(w) \/ Get(w) \/ Empty(w) \/ Handled(w) \/ JoinWorker(w)

Spec == Init /\ [][Next]_procVars

-----------------------------------------------------------------------------

(***************************************************************************)
(* Stopping is prompt whatever is queued: a worker takes at most one more  *)
(* packet after the event is set, none after main has gone on to flush the *)
(* flows, and it is in a callback then only if main gave up waiting for it. *)
(***************************************************************************)
StopIsPrompt ==
    /\ \A w \in PktWorkers : extra[w] <= 1
    /\ mainPc = "flushing" => \A w \in PktWorkers : worker[w] = "callback" => w \in outlived

(* Each packet is queued, in one worker's hand, handled, or counted as dropped. *)
PacketsAddUp ==
    /\ arrived = dropped + Len(pktQueue) + Cardinality(handled) + Cardinality({w \in PktWorkers : hand[w] # NoPkt})
    /\ \A v, w \in PktWorkers : v # w /\ hand[v] # NoPkt => hand[v] # hand[w]
=============================================================================
