------------------------- MODULE DeliveriesProofs -------------------------
(* Proofs about the services of Deliveries, for any constants. *)
EXTENDS Deliveries, Functions, FiniteSetTheorems, SequenceTheorems, TLAPS

-----------------------------------------------------------------------------
(* Capture: packets and the pool of workers.                                *)

(* An instance has operators of FiniteSets of its own. *)
LEMMA CaptureCardinality == ASSUME NEW S PROVE Capture!Cardinality(S) = Cardinality(S)
BY DEF Capture!Cardinality, Cardinality, Capture!IsFiniteSet, IsFiniteSet

PacketTypes ==
    /\ arrived \in Nat /\ dropped \in Nat /\ handled \subseteq 1..arrived
    /\ pktQueue \in Seq(1..arrived)
    /\ worker \in [PktWorkers -> {"loop", "get", "callback", "exited"}]
    /\ hand \in [PktWorkers -> (1..arrived) \cup {NoPkt}]
    /\ capStop \in BOOLEAN /\ procStop \in BOOLEAN /\ sniffing \in BOOLEAN
    /\ joined \subseteq PktWorkers /\ outlived \subseteq PktWorkers
    /\ mainPc \in {"run", "captureStopped", "joining", "flushing"}
    /\ extra \in [PktWorkers -> Nat]
    /\ \A w \in PktWorkers : worker[w] = "callback" <=> hand[w] # NoPkt

LEMMA PacketTypesInit == Capture!Init => PacketTypes
<1> SUFFICES ASSUME Capture!Init PROVE PacketTypes
  OBVIOUS
<1>1. pktQueue \in Seq(1..arrived) /\ handled \subseteq 1..arrived
  BY DEF Capture!Init
<1> QED
  BY <1>1 DEF Capture!Init, PacketTypes

LEMMA PacketTypesStep ==
    ASSUME PacketTypes, [Capture!Next]_(Capture!procVars)
    PROVE  PacketTypes'
<1>1. CASE UNCHANGED Capture!procVars
  BY <1>1 DEF Capture!procVars, PacketTypes
<1>2. CASE Capture!Enqueue
  <2>1. arrived' = arrived + 1 /\ arrived' \in Nat /\ 1..arrived \subseteq 1..arrived'
        /\ arrived' \in 1..arrived'
    BY <1>2 DEF Capture!Enqueue, PacketTypes
  <2>2. pktQueue' \in Seq(1..arrived')
    <3>1. pktQueue \in Seq(1..arrived')
      BY <2>1 DEF PacketTypes
    <3>2. pktQueue' = pktQueue \/ pktQueue' = Append(pktQueue, arrived')
      BY <1>2 DEF Capture!Enqueue
    <3> DEFINE S == 1..arrived'
    <3>3. pktQueue \in Seq(S) /\ arrived' \in S
      BY <2>1, <3>1
    <3> HIDE DEF S
    <3>4. pktQueue' \in Seq(S)
      BY <3>2, <3>3
    <3> QED
      BY <3>4 DEF S
  <2>3. dropped' \in Nat /\ sniffing' \in BOOLEAN
    BY <1>2 DEF Capture!Enqueue, PacketTypes
  <2>4. UNCHANGED <<worker, hand, handled, capStop, procStop, joined, outlived, mainPc, extra>>
    BY <1>2 DEF Capture!Enqueue, Capture!mainVars
  <2>5. hand' \in [PktWorkers -> (1..arrived') \cup {NoPkt}] /\ handled' \subseteq 1..arrived'
    BY <2>1, <2>4 DEF PacketTypes
  <2> QED
    BY <2>1, <2>2, <2>3, <2>4, <2>5 DEF PacketTypes
<1>3. CASE Capture!StopCapture \/ Capture!StopWorkers \/ Capture!Flush
  BY <1>3 DEF Capture!StopCapture, Capture!StopWorkers, Capture!Flush, PacketTypes
<1>4. ASSUME NEW w \in PktWorkers, Capture!Loop(w) \/ Capture!Empty(w) \/ Capture!JoinWorker(w)
      PROVE  PacketTypes'
  BY <1>4 DEF Capture!Loop, Capture!Empty, Capture!JoinWorker, Capture!mainVars, PacketTypes
<1>5. ASSUME NEW w \in PktWorkers, Capture!Get(w)
      PROVE  PacketTypes'
  <2>1. Head(pktQueue) \in 1..arrived /\ Tail(pktQueue) \in Seq(1..arrived)
    BY <1>5 DEF Capture!Get, PacketTypes
  <2>2. /\ hand' = [hand EXCEPT ![w] = Head(pktQueue)] /\ pktQueue' = Tail(pktQueue)
        /\ worker' = [worker EXCEPT ![w] = "callback"]
        /\ UNCHANGED <<arrived, dropped, handled, sniffing, Capture!mainVars>>
    BY <1>5 DEF Capture!Get
  <2>3. extra' \in [PktWorkers -> Nat]
    BY <1>5 DEF Capture!Get, PacketTypes
  <2>4. Head(pktQueue) # NoPkt
    BY <2>1, CaptureAssumption
  <2>5. /\ worker' \in [PktWorkers -> {"loop", "get", "callback", "exited"}]
        /\ hand' \in [PktWorkers -> (1..arrived) \cup {NoPkt}]
        /\ \A v \in PktWorkers : worker'[v] = "callback" <=> hand'[v] # NoPkt
    BY <2>1, <2>2, <2>4 DEF PacketTypes
  <2> QED
    BY <2>1, <2>2, <2>3, <2>5 DEF Capture!mainVars, PacketTypes
<1>6. ASSUME NEW w \in PktWorkers, Capture!Handled(w)
      PROVE  PacketTypes'
  BY <1>6 DEF Capture!Handled, Capture!mainVars, PacketTypes
<1> QED
  BY <1>1, <1>2, <1>3, <1>4, <1>5, <1>6 DEF Capture!Next

-----------------------------------------------------------------------------

(* The strengthening: no worker waits for a packet with procStop set but one that *)
(* began to wait before, and main joins only once it is set.                       *)
StopInv ==
    /\ procStop = TRUE <=> mainPc \in {"joining", "flushing"}
    /\ \A w \in PktWorkers : /\ procStop = FALSE \/ worker[w] = "get" => extra[w] = 0
                             /\ extra[w] <= 1
    /\ \A w \in joined : worker[w] = "exited" \/ w \in outlived
    /\ mainPc = "flushing" => joined = PktWorkers

LEMMA StopStep ==
    ASSUME PacketTypes, StopInv, [Capture!Next]_(Capture!procVars)
    PROVE  StopInv'
<1>1. CASE UNCHANGED Capture!procVars
  BY <1>1 DEF Capture!procVars, StopInv
<1>2. CASE Capture!Enqueue \/ Capture!StopCapture \/ Capture!StopWorkers \/ Capture!Flush
  BY <1>2 DEF Capture!Enqueue, Capture!StopCapture, Capture!StopWorkers, Capture!Flush, Capture!mainVars, PacketTypes, StopInv
<1>3. ASSUME NEW w \in PktWorkers, Capture!Loop(w) \/ Capture!Empty(w) \/ Capture!Handled(w)
      PROVE  StopInv'
  BY <1>3 DEF Capture!Loop, Capture!Empty, Capture!Handled, Capture!mainVars, PacketTypes, StopInv
<1>4. ASSUME NEW w \in PktWorkers, Capture!Get(w)
      PROVE  StopInv'
  <2>1. /\ worker[w] = "get" /\ worker' = [worker EXCEPT ![w] = "callback"]
        /\ UNCHANGED Capture!mainVars /\ extra[w] = 0
        /\ \/ procStop = FALSE /\ extra' = extra
           \/ procStop = TRUE /\ extra' = [extra EXCEPT ![w] = 1]
    <3>1. extra[w] = 0 /\ procStop \in BOOLEAN
      BY <1>4 DEF Capture!Get, PacketTypes, StopInv
    <3> QED
      BY <1>4, <3>1 DEF Capture!Get
  <2> QED
    BY <2>1 DEF Capture!mainVars, PacketTypes, StopInv
<1>5. ASSUME NEW w \in PktWorkers, Capture!JoinWorker(w)
      PROVE  StopInv'
  BY <1>5 DEF Capture!JoinWorker, PacketTypes, StopInv
<1> QED
  BY <1>1, <1>2, <1>3, <1>4, <1>5 DEF Capture!Next

(* Stopping is prompt for any number of workers and whatever is queued: a worker   *)
(* takes at most one more packet, none once main has gone on to flush the flows,   *)
(* when it is in a callback only if main gave up waiting for it.                   *)
THEOREM StopIsPromptHolds == Capture!Spec => []Capture!StopIsPrompt
<1>1. Capture!Init => PacketTypes /\ StopInv
  BY PacketTypesInit DEF Capture!Init, StopInv
<1>2. PacketTypes /\ StopInv /\ [Capture!Next]_(Capture!procVars) => (PacketTypes /\ StopInv)'
  BY PacketTypesStep, StopStep
<1>3. PacketTypes /\ StopInv => Capture!StopIsPrompt
  BY DEF PacketTypes, StopInv, Capture!StopIsPrompt
<1> QED
  BY <1>1, <1>2, <1>3, PTL DEF Capture!Spec

-----------------------------------------------------------------------------

(* The workers that are in a callback. *)
Holders == {w \in PktWorkers : hand[w] # NoPkt}

(* The strengthening: a packet is in one place only. *)
OnePlace ==
    /\ \A i, j \in 1..Len(pktQueue) : i # j => pktQueue[i] # pktQueue[j]
    /\ \A i \in 1..Len(pktQueue) : /\ pktQueue[i] \notin handled
                                   /\ \A w \in PktWorkers : hand[w] # pktQueue[i]
    /\ \A w \in PktWorkers : hand[w] \notin handled
    /\ \A v, w \in PktWorkers : v # w /\ hand[v] # NoPkt => hand[v] # hand[w]

Count == arrived = dropped + Len(pktQueue) + Cardinality(handled) + Cardinality(Holders)

LEMMA FinitePlaces ==
    ASSUME PacketTypes
    PROVE  /\ IsFiniteSet(handled) /\ Cardinality(handled) \in Nat
           /\ IsFiniteSet(Holders) /\ Cardinality(Holders) \in Nat
<1>1. IsFiniteSet(1..arrived)
  BY FS_Interval DEF PacketTypes
<1>2. IsFiniteSet(handled)
  BY <1>1, FS_Subset DEF PacketTypes
<1>3. IsFiniteSet(Holders)
  BY FS_Subset, CaptureAssumption DEF Holders
<1> QED
  BY <1>2, <1>3, FS_CardinalityType

LEMMA PlacesStep ==
    ASSUME PacketTypes, OnePlace, Count, [Capture!Next]_(Capture!procVars)
    PROVE  OnePlace' /\ Count'
<1> USE DEF PacketTypes
<1>1. CASE UNCHANGED <<arrived, pktQueue, dropped, hand, handled>>
  BY <1>1 DEF OnePlace, Count, Holders
<1>2. CASE Capture!Enqueue
  <2>1. /\ arrived' = arrived + 1 /\ UNCHANGED <<hand, handled>>
        /\ \/ pktQueue' = Append(pktQueue, arrived') /\ dropped' = dropped
           \/ dropped' = dropped + 1 /\ pktQueue' = pktQueue
    BY <1>2 DEF Capture!Enqueue
  <2>2. Count'
    <3>1. Len(pktQueue') + dropped' = Len(pktQueue) + dropped + 1
      BY <2>1
    <3>2. Holders' = Holders
      BY <2>1 DEF Holders
    <3> QED
      <4>1. /\ Len(pktQueue') \in Nat /\ Len(pktQueue) \in Nat /\ dropped \in Nat /\ dropped' \in Nat /\ arrived \in Nat
            /\ Cardinality(handled) \in Nat /\ Cardinality(Holders) \in Nat
        BY <2>1, FinitePlaces
      <4>2. Cardinality(handled') = Cardinality(handled) /\ Cardinality(Holders') = Cardinality(Holders)
        BY <2>1, <3>2
      <4>3. arrived' = arrived + 1 /\ arrived = dropped + Len(pktQueue) + Cardinality(handled) + Cardinality(Holders)
        BY <2>1 DEF Count
      <4> HIDE DEF PacketTypes
      <4>4. arrived' = dropped' + Len(pktQueue') + Cardinality(handled) + Cardinality(Holders)
        <5>1. \A q, d, p, e, h, k \in Nat : p + e = q + d + 1 => (d + q + h + k) + 1 = e + p + h + k
          OBVIOUS
        <5> QED
          BY <3>1, <4>1, <4>3, <5>1
      <4> QED
        BY <4>2, <4>4 DEF Count
  <2>3. OnePlace'
    <3>1. CASE pktQueue' = pktQueue
      BY <2>1, <3>1 DEF OnePlace
    <3>2. CASE pktQueue' = Append(pktQueue, arrived')
      <4>1. /\ Len(pktQueue') = Len(pktQueue) + 1 /\ pktQueue'[Len(pktQueue) + 1] = arrived'
            /\ \A i \in 1..Len(pktQueue) : pktQueue'[i] = pktQueue[i] /\ pktQueue[i] # arrived'
        BY <2>1, <3>2
      <4>2. arrived' \notin handled /\ \A w \in PktWorkers : hand[w] # arrived'
        <5>1. arrived' \in Nat /\ arrived' > arrived
          BY <2>1
        <5> QED
          BY <5>1, CaptureAssumption
      <4> DEFINE n == Len(pktQueue)
      <4>3. n \in Nat
        OBVIOUS
      <4>4. \A i \in 1..(n + 1) : i = n + 1 \/ i \in 1..n
        BY <4>3
      <4>5. /\ Len(pktQueue') = n + 1 /\ pktQueue'[n + 1] = arrived'
            /\ \A i \in 1..n : pktQueue'[i] = pktQueue[i] /\ pktQueue[i] # arrived'
        BY <4>1
      <4> HIDE DEF n
      <4>6. \A i, j \in 1..(n + 1) : i # j => pktQueue'[i] # pktQueue'[j]
        BY <4>3, <4>4, <4>5 DEF OnePlace, n
      <4>7. \A i \in 1..(n + 1) : /\ pktQueue'[i] \notin handled
                                  /\ \A w \in PktWorkers : hand[w] # pktQueue'[i]
        BY <4>2, <4>3, <4>4, <4>5 DEF OnePlace, n
      <4> QED
        BY <2>1, <4>6, <4>7, <4>5 DEF OnePlace
    <3> QED
      BY <2>1, <3>1, <3>2
  <2> QED
    BY <2>2, <2>3
<1>3. ASSUME NEW w \in PktWorkers, Capture!Get(w)
      PROVE  OnePlace' /\ Count'
  <2>1. /\ hand' = [hand EXCEPT ![w] = pktQueue[1]] /\ pktQueue' = Tail(pktQueue)
        /\ pktQueue # <<>> /\ pktQueue[1] # NoPkt /\ hand[w] = NoPkt
        /\ UNCHANGED <<arrived, dropped, handled>>
    BY <1>3, CaptureAssumption DEF Capture!Get
  <2>2. /\ Len(pktQueue) = Len(pktQueue') + 1 /\ Len(pktQueue') \in Nat
        /\ \A i \in 1..Len(pktQueue') : pktQueue'[i] = pktQueue[i + 1]
    BY <2>1
  <2>3. OnePlace'
    BY <2>1, <2>2 DEF OnePlace
  <2>4. Count'
    <3>1. Holders' = Holders \cup {w} /\ w \notin Holders
      BY <2>1 DEF Holders
    <3>2. Cardinality(Holders') = Cardinality(Holders) + 1
      BY <3>1, FinitePlaces, FS_AddElement
    <3> QED
      BY <2>1, <2>2, <3>2, FinitePlaces DEF Count
  <2> QED
    BY <2>3, <2>4
<1>4. ASSUME NEW w \in PktWorkers, Capture!Handled(w)
      PROVE  OnePlace' /\ Count'
  <2>1. /\ handled' = handled \cup {hand[w]} /\ hand' = [hand EXCEPT ![w] = NoPkt]
        /\ hand[w] # NoPkt /\ UNCHANGED <<arrived, pktQueue, dropped>>
    BY <1>4 DEF Capture!Handled
  <2>2. OnePlace'
    <3>1. /\ \A v \in PktWorkers : hand'[v] = IF v = w THEN NoPkt ELSE hand[v]
          /\ \A v \in PktWorkers : v # w => hand[v] # hand[w]
          /\ NoPkt \notin handled /\ hand[w] \notin handled
      <4>1. \A x \in handled : x \in Nat
        OBVIOUS
      <4>2. NoPkt \notin handled
        BY <4>1, CaptureAssumption
      <4>3. \A v \in PktWorkers : hand'[v] = IF v = w THEN NoPkt ELSE hand[v]
        BY <2>1
      <4>4. \A v \in PktWorkers : v # w => hand[v] # hand[w]
        BY <2>1 DEF OnePlace
      <4> QED
        BY <4>2, <4>3, <4>4 DEF OnePlace
    <3>2. \A i \in 1..Len(pktQueue) : /\ pktQueue[i] \notin handled'
                                      /\ \A v \in PktWorkers : hand'[v] # pktQueue[i]
      BY <2>1, <3>1, CaptureAssumption DEF OnePlace
    <3>3. \A v \in PktWorkers : hand'[v] \notin handled'
      BY <2>1, <3>1 DEF OnePlace
    <3>4. \A v, u \in PktWorkers : v # u /\ hand'[v] # NoPkt => hand'[v] # hand'[u]
      BY <3>1 DEF OnePlace
    <3> QED
      BY <2>1, <3>2, <3>3, <3>4 DEF OnePlace
  <2>3. Count'
    <3>1. Holders' = Holders \ {w} /\ w \in Holders /\ hand[w] \notin handled
      BY <2>1 DEF Holders, OnePlace
    <3>2. /\ Cardinality(Holders') = Cardinality(Holders) - 1
          /\ Cardinality(handled') = Cardinality(handled) + 1
      BY <2>1, <3>1, FinitePlaces, FS_AddElement, FS_RemoveElement
    <3> QED
      BY <2>1, <3>2, FinitePlaces DEF Count
  <2> QED
    BY <2>2, <2>3
<1>5. CASE Capture!StopCapture \/ Capture!StopWorkers \/ Capture!Flush \/ UNCHANGED Capture!procVars
  BY <1>1, <1>5 DEF Capture!StopCapture, Capture!StopWorkers, Capture!Flush, Capture!procVars
<1>6. ASSUME NEW w \in PktWorkers, Capture!Loop(w) \/ Capture!Empty(w) \/ Capture!JoinWorker(w)
      PROVE  OnePlace' /\ Count'
  BY <1>1, <1>6 DEF Capture!Loop, Capture!Empty, Capture!JoinWorker
<1> QED
  BY <1>2, <1>3, <1>4, <1>5, <1>6 DEF Capture!Next

(* However many threads take packets off the queue while the sniffer fills it, each *)
(* packet is in the queue, in one worker's hand, handled, or counted as dropped.    *)
THEOREM PacketsAddUpHolds == Capture!Spec => []Capture!PacketsAddUp
<1>1. Capture!Init => PacketTypes /\ OnePlace /\ Count
  <2> SUFFICES ASSUME Capture!Init PROVE PacketTypes /\ OnePlace /\ Count
    OBVIOUS
  <2>1. /\ arrived = 0 /\ dropped = 0 /\ pktQueue = <<>> /\ handled = {}
        /\ \A w \in PktWorkers : hand[w] = NoPkt
    BY DEF Capture!Init
  <2>2. Holders = {} /\ Cardinality({}) = 0
    BY <2>1, FS_EmptySet DEF Holders
  <2>3. Count
    BY <2>1, <2>2 DEF Count
  <2> QED
    BY <2>1, <2>3, PacketTypesInit DEF OnePlace
<1>2. PacketTypes /\ OnePlace /\ Count /\ [Capture!Next]_(Capture!procVars) => (PacketTypes /\ OnePlace /\ Count)'
  BY PacketTypesStep, PlacesStep
<1>3. OnePlace /\ Count => Capture!PacketsAddUp
  BY CaptureCardinality DEF OnePlace, Count, Holders, Capture!PacketsAddUp
<1> QED
  BY <1>1, <1>2, <1>3, PTL DEF Capture!Spec

-----------------------------------------------------------------------------
(* Hub: the WebSocket stream.                                                *)

LEMMA HubLibrary ==
    ASSUME NEW S
    PROVE  Hub!Cardinality(S) = Cardinality(S) /\ Hub!ToSet(S) = Range(S) /\ Hub!Last(S) = S[Len(S)]
BY DEF Hub!Cardinality, Cardinality, Hub!IsFiniteSet, IsFiniteSet, Hub!ToSet, Range, Hub!Last

Early  == {"new", "checking", "accepting", "joining"}   \* before a connection is a client
Joined == {"open", "leaving"}

HubTypes ==
    /\ mode \in [jwt : BOOLEAN, key : BOOLEAN]
    /\ conn \in [Sockets -> Early \cup Joined \cup {"refusing", "gone"}]
    /\ cred \in [Sockets -> Hub!Credentials]
    /\ clients \subseteq Sockets /\ raced \subseteq Sockets
    /\ called \in Nat /\ called <= MaxMessages /\ skipped \subseteq 1..called
    /\ waiters \in Seq(Sockets \cup Nat)
    /\ holder \in Sockets \cup Nat \cup {Nobody}
    /\ todo \in [Hub!Messages -> SUBSET Sockets] /\ failed \in [Hub!Messages -> SUBSET Sockets]
    /\ got \in [Sockets -> Seq(Nat)]

(* Clients have been let in, and one that is being refused has the lock. *)
Seats ==
    /\ \A s \in clients : conn[s] \in Joined
    /\ \A s \in Sockets : conn[s] = "refusing" => holder = s

LEMMA HubInit == Hub!Init => HubTypes /\ Seats
<1> SUFFICES ASSUME Hub!Init PROVE HubTypes /\ Seats
  OBVIOUS
<1>1. /\ mode \in [jwt : BOOLEAN, key : BOOLEAN] /\ called = 0 /\ skipped = {} /\ holder = Nobody
      /\ clients = {} /\ raced = {} /\ waiters = <<>> /\ conn = [s \in Sockets |-> "new"]
      /\ cred = [s \in Sockets |-> [token |-> FALSE, key |-> FALSE]] /\ got = [s \in Sockets |-> <<>>]
      /\ todo = [m \in Hub!Messages |-> {}] /\ failed = [m \in Hub!Messages |-> {}]
  BY DEF Hub!Init
<1>2. waiters \in Seq(Sockets \cup Nat) /\ got \in [Sockets -> Seq(Nat)]
  BY <1>1
<1>3. Seats
  BY <1>1 DEF Seats
<1> QED
  BY <1>1, <1>2, <1>3, HubAssumption DEF HubTypes, Early, Hub!Credentials

LEMMA QueueTypes ==
    ASSUME HubTypes
    PROVE  /\ \A t \in Sockets \cup Nat : Append(waiters, t) \in Seq(Sockets \cup Nat)
           /\ waiters # <<>> => Tail(waiters) \in Seq(Sockets \cup Nat) /\ Head(waiters) \in Sockets \cup Nat
BY DEF HubTypes

LEMMA HubTypesStep ==
    ASSUME HubTypes, Seats, [Hub!Next]_(Hub!hubVars)
    PROVE  HubTypes' /\ Seats'
<1> USE DEF HubTypes, Seats, Early, Joined, Hub!MyTurn, Hub!Ask, Hub!Goto
<1>1. CASE UNCHANGED Hub!hubVars
  BY <1>1 DEF Hub!hubVars
<1>2. ASSUME NEW s \in Sockets, Hub!Connect(s)
      PROVE  HubTypes' /\ Seats'
  <2>1. PICK c \in Hub!Credentials :
          /\ cred' = [cred EXCEPT ![s] = c]
          /\ \/ conn' = [conn EXCEPT ![s] = "checking"] /\ waiters' = Append(waiters, s)
             \/ conn' = [conn EXCEPT ![s] = "gone"] /\ waiters' = waiters
    BY <1>2 DEF Hub!Connect
  <2>4. s \in Sockets \cup Nat /\ waiters \in Seq(Sockets \cup Nat) /\ Append(waiters, s) \in Seq(Sockets \cup Nat)
    BY QueueTypes
  <2>2. waiters' \in Seq(Sockets \cup Nat) /\ cred' \in [Sockets -> Hub!Credentials]
    BY <2>1, <2>4
  <2>3. s \notin clients /\ conn' \in [Sockets -> Early \cup Joined \cup {"refusing", "gone"}]
    BY <1>2, <2>1 DEF Hub!Connect
  <2>5. UNCHANGED <<mode, holder, clients, called, skipped, todo, failed, got, raced>>
    BY <1>2 DEF Hub!Connect
  <2>6. \A o \in Sockets : conn'[o] = conn[o] \/ (o = s /\ conn'[o] \in {"checking", "gone"})
    BY <2>1
  <2> QED
    BY <2>2, <2>3, <2>5, <2>6
<1>3. ASSUME NEW s \in Sockets, Hub!Accepted(s) \/ Hub!Hangup(s)
      PROVE  HubTypes' /\ Seats'
  <2>0. s \in Sockets \cup Nat /\ Append(waiters, s) \in Seq(Sockets \cup Nat)
    BY QueueTypes
  <2>1. waiters' \in Seq(Sockets \cup Nat)
    BY <1>3, <2>0 DEF Hub!Accepted, Hub!Hangup
  <2> QED
    BY <1>3, <2>1 DEF Hub!Accepted, Hub!Hangup
<1>7. ASSUME NEW s \in Sockets, Hub!Admit(s)
      PROVE  HubTypes' /\ Seats'
  <2>1. waiters' \in Seq(Sockets \cup Nat) /\ raced' \subseteq Sockets
    BY <1>7, QueueTypes DEF Hub!Admit
  <2>2. s \notin clients /\ conn' = [conn EXCEPT ![s] = "accepting"]
    BY <1>7 DEF Hub!Admit
  <2> QED
    BY <1>7, <2>1, <2>2 DEF Hub!Admit
<1>8. ASSUME NEW s \in Sockets, Hub!Refuse(s)
      PROVE  HubTypes' /\ Seats'
  <2>1. waiters' \in Seq(Sockets \cup Nat) /\ holder = Nobody
    BY <1>8, QueueTypes DEF Hub!Refuse
  <2>2. s \notin clients /\ \A o \in Sockets : conn[o] # "refusing"
    BY <1>8, <2>1, HubAssumption DEF Hub!Refuse
  <2> QED
    BY <1>8, <2>1, <2>2 DEF Hub!Refuse
<1>9. ASSUME NEW s \in Sockets, Hub!Refused(s)
      PROVE  HubTypes' /\ Seats'
  <2>1. s \notin clients /\ \A o \in Sockets \ {s} : conn[o] # "refusing"
    BY <1>9 DEF Hub!Refused
  <2> QED
    BY <1>9, <2>1 DEF Hub!Refused
<1>4. ASSUME NEW s \in Sockets, Hub!Join(s) \/ Hub!Leave(s)
      PROVE  HubTypes' /\ Seats'
  <2>1. waiters' \in Seq(Sockets \cup Nat)
    BY <1>4, QueueTypes DEF Hub!Join, Hub!Leave
  <2>2. CASE Hub!Join(s)
    BY <2>1, <2>2 DEF Hub!Join
  <2>3. CASE Hub!Leave(s)
    BY <2>1, <2>3 DEF Hub!Leave
  <2> QED
    BY <1>4, <2>2, <2>3
<1>5. CASE Hub!Broadcast
  <2>1. called' \in Nat /\ called' <= MaxMessages
    BY <1>5, HubAssumption DEF Hub!Broadcast
  <2>5. /\ called' = called + 1
        /\ waiters' = waiters \/ waiters' = Append(waiters, called')
        /\ skipped' = skipped \/ skipped' = skipped \cup {called'}
    BY <1>5 DEF Hub!Broadcast
  <2>2. waiters' \in Seq(Sockets \cup Nat)
    <3>1. Append(waiters, called') \in Seq(Sockets \cup Nat)
      BY <2>1, QueueTypes
    <3> QED
      BY <2>5, <3>1
  <2>3. skipped' \subseteq 1..called'
    <3>1. 1..called \subseteq 1..called' /\ called' \in 1..called'
      BY <2>1, <2>5
    <3> QED
      BY <2>5, <3>1
  <2>4. UNCHANGED <<mode, holder, conn, cred, clients, todo, failed, got, raced>>
    BY <1>5 DEF Hub!Broadcast
  <2> QED
    BY <2>1, <2>2, <2>3, <2>4
<1>6. ASSUME NEW m \in 1..called, Hub!Begin(m) \/ Hub!End(m) \/ \E s \in Sockets : Hub!Send(m, s)
      PROVE  HubTypes' /\ Seats'
  <2>1. m \in Hub!Messages /\ m \in Nat /\ m \notin Sockets
    BY HubAssumption DEF Hub!Messages
  <2>2. CASE Hub!Begin(m)
    BY <2>1, <2>2, QueueTypes, HubAssumption DEF Hub!Begin
  <2>3. CASE Hub!End(m)
    BY <2>1, <2>3, HubAssumption DEF Hub!End
  <2>4. ASSUME NEW s \in Sockets, Hub!Send(m, s)
        PROVE  HubTypes' /\ Seats'
    <3>1. Append(got[s], m) \in Seq(Nat) /\ todo[m] \ {s} \in SUBSET Sockets /\ failed[m] \cup {s} \in SUBSET Sockets
      BY <2>1
    <3>2. /\ todo' = [todo EXCEPT ![m] = todo[m] \ {s}]
          /\ \/ got' = [got EXCEPT ![s] = Append(got[s], m)] /\ failed' = failed
             \/ failed' = [failed EXCEPT ![m] = failed[m] \cup {s}] /\ got' = got
          /\ UNCHANGED <<mode, holder, waiters, conn, cred, clients, called, skipped, raced>>
      BY <2>4 DEF Hub!Send
    <3>3. todo' \in [Hub!Messages -> SUBSET Sockets]
      BY <2>1, <3>1, <3>2
    <3>4. got' \in [Sockets -> Seq(Nat)] /\ failed' \in [Hub!Messages -> SUBSET Sockets]
      <4>1. CASE got' = [got EXCEPT ![s] = Append(got[s], m)] /\ failed' = failed
        BY <3>1, <4>1
      <4>2. CASE failed' = [failed EXCEPT ![m] = failed[m] \cup {s}] /\ got' = got
        BY <2>1, <3>1, <4>2
      <4> QED
        BY <3>2, <4>1, <4>2
    <3> QED
      BY <3>2, <3>3, <3>4
  <2> QED
    BY <1>6, <2>2, <2>3, <2>4
<1> QED
  BY <1>1, <1>2, <1>3, <1>4, <1>5, <1>6, <1>7, <1>8, <1>9 DEF Hub!Next

-----------------------------------------------------------------------------

(* The strengthening: whoever was admitted presented what the deployment asks for. *)
Authorized == \A s \in Sockets : conn[s] \notin {"new", "gone"} => Hub!Authorize(cred[s])

LEMMA AuthorizedStep ==
    ASSUME HubTypes, Seats, Authorized, [Hub!Next]_(Hub!hubVars)
    PROVE  Authorized'
<1> USE DEF HubTypes, Authorized, Hub!Goto
<1>1. CASE UNCHANGED <<mode, conn, cred>>
  BY <1>1 DEF Hub!Authorize
<1>2. ASSUME NEW s \in Sockets, Hub!Connect(s)
      PROVE  Authorized'
  BY <1>2 DEF Hub!Connect, Hub!Authorize
<1>3. ASSUME NEW s \in Sockets, mode' = mode, cred' = cred, conn[s] \notin {"new", "gone"},
             \E at \in {"accepting", "refusing", "gone", "joining", "open", "leaving"} : conn' = [conn EXCEPT ![s] = at]
      PROVE  Authorized'
  BY <1>3 DEF Hub!Authorize
<1>4. ASSUME NEW s \in Sockets,
             \/ Hub!Admit(s) \/ Hub!Refuse(s) \/ Hub!Refused(s) \/ Hub!Accepted(s)
             \/ Hub!Join(s) \/ Hub!Hangup(s) \/ Hub!Leave(s)
      PROVE  Authorized'
  <2>1. /\ mode' = mode /\ cred' = cred /\ conn[s] \notin {"new", "gone"}
        /\ \E at \in {"accepting", "refusing", "gone", "joining", "open", "leaving"} : conn' = [conn EXCEPT ![s] = at]
    BY <1>4 DEF Hub!Admit, Hub!Refuse, Hub!Refused, Hub!Accepted, Hub!Join, Hub!Hangup, Hub!Leave
  <2> QED
    BY <1>3, <2>1
<1>5. CASE Hub!Broadcast \/ \E m \in 1..called : Hub!Begin(m) \/ Hub!End(m) \/ \E s \in Sockets : Hub!Send(m, s)
  BY <1>1, <1>5 DEF Hub!Broadcast, Hub!Begin, Hub!End, Hub!Send
<1> QED
  BY <1>1, <1>2, <1>4, <1>5 DEF Hub!Next, Hub!hubVars

(* Whatever the order of admissions and broadcasts, alerts are sent to nobody who did *)
(* not present what the deployment asks for.                                           *)
THEOREM StreamIsAuthorizedHolds == Hub!Spec => []Hub!StreamIsAuthorized
<1>1. Hub!Init => HubTypes /\ Seats /\ Authorized
  BY HubInit DEF Hub!Init, Authorized
<1>2. HubTypes /\ Seats /\ Authorized /\ [Hub!Next]_(Hub!hubVars) => (HubTypes /\ Seats /\ Authorized)'
  BY HubTypesStep, AuthorizedStep
<1>3. HubTypes /\ Seats /\ Authorized => Hub!StreamIsAuthorized
  BY DEF HubTypes, Seats, Authorized, Joined, Hub!StreamIsAuthorized, Hub!Authorize
<1> QED
  BY <1>1, <1>2, <1>3, PTL DEF Hub!Spec

-----------------------------------------------------------------------------

(* Those who were admitted, clients by now or not. *)
Pending  == {s \in Sockets : conn[s] \in {"accepting", "joining"}}
Admitted == clients \cup Pending

(* The strengthening: of those who were admitted one at a time there are no more than *)
(* the limit, those included whose registration is still to come.                      *)
OneAtATime == Cardinality(Admitted \ raced) <= MaxClients

LEMMA FewerFit ==
    ASSUME NEW S, NEW T \in SUBSET Sockets, S \subseteq T, Cardinality(T) <= MaxClients
    PROVE  Cardinality(S) <= MaxClients
<1>1. IsFiniteSet(T) /\ IsFiniteSet(S) /\ Cardinality(S) <= Cardinality(T)
  BY HubAssumption, FS_Subset
<1> QED
  BY <1>1, FS_CardinalityType, HubAssumption

LEMMA OneAtATimeStep ==
    ASSUME HubTypes, Seats, OneAtATime, HubTypes', [Hub!Next]_(Hub!hubVars)
    PROVE  OneAtATime'
<1>1. CASE Admitted' \ raced' \subseteq Admitted \ raced
  BY <1>1, FewerFit DEF OneAtATime, Admitted, Pending, HubTypes
<1>2. ASSUME NEW s \in Sockets, Hub!Admit(s)
      PROVE  OneAtATime'
  <2>0. Cardinality(clients) \in Nat
    BY HubAssumption, FS_Subset, FS_CardinalityType DEF HubTypes
  <2>1. /\ Cardinality(clients) < MaxClients
        /\ \A o \in Sockets : conn'[o] = IF o = s THEN "accepting" ELSE conn[o]
        /\ clients' = clients
    BY <1>2, <2>0, HubLibrary, HubAssumption DEF Hub!Admit, Hub!Full, Hub!Goto, HubTypes
  <2>2. CASE Pending # {}
    <3>1. raced' = raced \cup {s}
      BY <1>2, <2>2 DEF Hub!Admit, Pending
    <3> QED
      BY <1>1, <2>1, <3>1 DEF Admitted, Pending
  <2>3. CASE Pending = {}
    <3>1. Admitted' = clients \cup {s}
      BY <2>1, <2>3 DEF Admitted, Pending
    <3>2. IsFiniteSet(clients)
      BY HubAssumption, FS_Subset DEF HubTypes
    <3>3. Cardinality(clients \cup {s}) = IF s \in clients THEN Cardinality(clients) ELSE Cardinality(clients) + 1
      BY <3>2, FS_AddElement
    <3>4. clients \cup {s} \in SUBSET Sockets /\ Cardinality(clients \cup {s}) <= MaxClients
      BY <2>0, <2>1, <3>3, HubAssumption DEF HubTypes
    <3>5. Admitted' \ raced' \subseteq clients \cup {s}
      BY <3>1
    <3>6. Cardinality(Admitted' \ raced') <= MaxClients
      BY <3>4, <3>5, FewerFit
    <3> QED
      BY <3>6 DEF OneAtATime
  <2> QED
    BY <2>2, <2>3
<1>3. ASSUME NEW s \in Sockets,
             \/ Hub!Connect(s) \/ Hub!Refuse(s) \/ Hub!Refused(s) \/ Hub!Accepted(s)
             \/ Hub!Join(s) \/ Hub!Hangup(s) \/ Hub!Leave(s)
      PROVE  OneAtATime'
  <2>1. Admitted' \subseteq Admitted /\ raced' = raced
    BY <1>3 DEF Hub!Connect, Hub!Refuse, Hub!Refused, Hub!Accepted, Hub!Join, Hub!Hangup, Hub!Leave, Hub!Goto,
                Admitted, Pending, HubTypes
  <2> QED
    BY <1>1, <2>1
<1>4. CASE Hub!Broadcast \/ UNCHANGED Hub!hubVars
           \/ \E m \in 1..called : Hub!Begin(m) \/ Hub!End(m) \/ \E s \in Sockets : Hub!Send(m, s)
  <2>1. Admitted' \subseteq Admitted /\ raced' = raced
    BY <1>4 DEF Hub!Broadcast, Hub!Begin, Hub!End, Hub!Send, Hub!hubVars, Admitted, Pending
  <2> QED
    BY <1>1, <2>1
<1> QED
  BY <1>2, <1>3, <1>4 DEF Hub!Next

(* However many connections come and go, the clients that were let in while no other   *)
(* was being let in never exceed the limit.                                            *)
THEOREM LimitExceededOnlyByRaceHolds == Hub!Spec => []Hub!LimitExceededOnlyByRace
<1>1. Hub!Init => HubTypes /\ Seats /\ OneAtATime
  <2> SUFFICES ASSUME Hub!Init PROVE OneAtATime
    BY HubInit
  <2>1. Admitted \ raced = {}
    BY DEF Hub!Init, Admitted, Pending
  <2> QED
    BY <2>1, FS_EmptySet, HubAssumption DEF OneAtATime
<1>2. HubTypes /\ Seats /\ OneAtATime /\ [Hub!Next]_(Hub!hubVars) => (HubTypes /\ Seats /\ OneAtATime)'
  BY HubTypesStep, OneAtATimeStep
<1>3. HubTypes /\ OneAtATime => Hub!LimitExceededOnlyByRace
  <2> SUFFICES ASSUME HubTypes, OneAtATime PROVE Cardinality(clients \ raced) <= MaxClients
    BY HubLibrary DEF Hub!LimitExceededOnlyByRace
  <2>1. clients \ raced \subseteq Admitted \ raced /\ Admitted \ raced \in SUBSET Sockets
    BY DEF Admitted, Pending, HubTypes
  <2> QED
    BY <2>1, FewerFit DEF OneAtATime
<1> QED
  BY <1>1, <1>2, <1>3, PTL DEF Hub!Spec
-----------------------------------------------------------------------------

(* The broadcasts that wait for the lock, and those that have had it.                  *)
Waiting == {m \in Nat : \E i \in 1..Len(waiters) : waiters[i] = m}
Done    == (1..called) \ (skipped \cup Waiting)
InOrder ==
    \A i, j \in 1..Len(waiters) :
        i < j /\ waiters[i] \in Nat /\ waiters[j] \in Nat => waiters[i] < waiters[j]

(* Broadcasts get the lock in the order they were called.                              *)
Turns ==
    /\ InOrder
    /\ Waiting \subseteq (1..called) \ skipped
    /\ \A k \in Done, w \in Waiting : k < w
    /\ holder \in Nat => holder \in Done /\ \A k \in Done : k <= holder

(* Only the broadcast that has the lock sends, to clients; the others have not begun   *)
(* or have ended.                                                                      *)
Loads ==
    /\ \A m \in Hub!Messages : todo[m] # {} => holder = m
    /\ holder \in Nat => todo[holder] \subseteq clients /\ todo[holder] \cap failed[holder] = {}
    /\ \A m \in Hub!Messages : m \notin Done => failed[m] = {}

(* The broadcast that has the lock has still to send to s.                             *)
Sending(s) == holder \in Nat /\ s \in todo[holder]

(* What s received are broadcasts that had the lock, in order; from its first one on   *)
(* it received them all up to its last, and as long as it is a client and no send to   *)
(* it failed, all.                                                                     *)
Stream(s) ==
    /\ conn[s] \in Early => got[s] = <<>>
    /\ \A i \in 1..Len(got[s]) : got[s][i] \in Done /\ (Sending(s) => got[s][i] # holder)
    /\ \A i, j \in 1..Len(got[s]) : i < j => got[s][i] < got[s][j]
    /\ \A k \in Done :
        (/\ got[s] # <<>> /\ got[s][1] <= k
         /\ \/ k <= got[s][Len(got[s])]
            \/ s \in clients /\ (holder \in Nat => s \notin failed[holder]) /\ ~(Sending(s) /\ k = holder))
        => k \in Range(got[s])
Streams == \A s \in Sockets : Stream(s)

LEMMA DoneIsCalled == ASSUME HubTypes PROVE Done \subseteq Hub!Messages /\ Done \subseteq Nat
BY HubAssumption DEF Done, HubTypes, Hub!Messages

(* Connections come and go in the queue without the broadcasts changing places.        *)
LEMMA QuietQueue ==
    ASSUME HubTypes, Turns, called' = called, skipped' = skipped,
           \/ waiters' = waiters
           \/ \E s \in Sockets : waiters' = Append(waiters, s)
           \/ waiters # <<>> /\ Head(waiters) \in Sockets /\ waiters' = Tail(waiters)
    PROVE  Waiting' = Waiting /\ Done' = Done /\ InOrder'
<1>0. waiters \in Seq(Sockets \cup Nat) /\ Sockets \cap Nat = {}
  BY HubAssumption DEF HubTypes
<1>1. CASE waiters' = waiters
  BY <1>1 DEF Waiting, Done, Turns, InOrder
<1>2. ASSUME NEW s \in Sockets, waiters' = Append(waiters, s)
      PROVE  Waiting' = Waiting /\ InOrder'
  <2>1. /\ Len(waiters') = Len(waiters) + 1 /\ waiters'[Len(waiters')] = s /\ s \notin Nat
        /\ \A i \in 1..Len(waiters) : waiters'[i] = waiters[i]
    BY <1>0, <1>2
  <2>2. Len(waiters) \in Nat
    BY <1>0
  <2>3. \A i \in 1..Len(waiters') : i = Len(waiters') \/ i \in 1..Len(waiters)
    BY <2>1, <2>2
  <2>4. \A m \in Nat : (\E i \in 1..Len(waiters') : waiters'[i] = m) <=> (\E i \in 1..Len(waiters) : waiters[i] = m)
    BY <2>1, <2>2, <2>3
  <2>5. InOrder'
    BY <2>1, <2>2, <2>3 DEF Turns, InOrder
  <2> QED
    BY <2>4, <2>5 DEF Waiting
<1>3. ASSUME waiters # <<>>, Head(waiters) \in Sockets, waiters' = Tail(waiters)
      PROVE  Waiting' = Waiting /\ InOrder'
  <2>1. /\ Len(waiters) \in Nat /\ Len(waiters') = Len(waiters) - 1 /\ waiters[1] \notin Nat
        /\ \A i \in 1..Len(waiters') : waiters'[i] = waiters[i + 1]
    BY <1>0, <1>3
  <2>2. \A m \in Nat : (\E i \in 1..Len(waiters') : waiters'[i] = m) <=> (\E i \in 1..Len(waiters) : waiters[i] = m)
    <3>1. \A m \in Nat, i \in 1..Len(waiters) : waiters[i] = m => i - 1 \in 1..Len(waiters') /\ waiters'[i - 1] = m
      BY <2>1
    <3>2. \A i \in 1..Len(waiters') : i + 1 \in 1..Len(waiters)
      BY <2>1
    <3> QED
      BY <2>1, <3>1, <3>2
  <2>3. InOrder'
    <3>1. \A i \in 1..Len(waiters') : i + 1 \in 1..Len(waiters)
      BY <2>1
    <3>2. \A i, j \in 1..Len(waiters') : i < j => i + 1 < j + 1
      BY <2>1
    <3> QED
      BY <2>1, <3>1, <3>2 DEF Turns, InOrder
  <2> QED
    BY <2>2, <2>3 DEF Waiting
<1> QED
  BY <1>1, <1>2, <1>3 DEF Done

LEMMA QueueBroadcast ==
    ASSUME HubTypes, HubTypes', Turns, Hub!Broadcast
    PROVE  Done' = Done /\ Turns'
<1>0. waiters \in Seq(Sockets \cup Nat) /\ called \in Nat /\ called' = called + 1 /\ skipped \subseteq 1..called
  BY DEF HubTypes, Hub!Broadcast
<1>1. holder' = holder
  BY DEF Hub!Broadcast
<1>2. CASE clients = {}
  <2>1. Waiting' = Waiting /\ skipped' = skipped \cup {called + 1} /\ InOrder'
    BY <1>0, <1>2 DEF Hub!Broadcast, Waiting, Turns, InOrder
  <2>2. Done' = Done
    BY <1>0, <2>1 DEF Done
  <2> QED
    BY <1>0, <1>1, <2>1, <2>2 DEF Turns
<1>3. CASE clients # {}
  <2>1. skipped' = skipped /\ waiters' = Append(waiters, called + 1) /\ called + 1 \in Nat
    BY <1>0, <1>3 DEF Hub!Broadcast, Hub!Ask
  <2>2. /\ Len(waiters) \in Nat /\ Len(waiters') = Len(waiters) + 1 /\ waiters'[Len(waiters')] = called + 1
        /\ \A i \in 1..Len(waiters) : waiters'[i] = waiters[i]
    BY <1>0, <2>1
  <2>3. Waiting' = Waiting \cup {called + 1}
    <3>1. \A m \in Nat : (\E i \in 1..Len(waiters') : waiters'[i] = m)
                         <=> (m = called + 1 \/ \E i \in 1..Len(waiters) : waiters[i] = m)
      BY <2>2
    <3> QED
      BY <2>1, <3>1 DEF Waiting
  <2>4. \A i \in 1..Len(waiters) : waiters[i] \in Nat => waiters[i] < called + 1
    BY <1>0 DEF Turns, Waiting
  <2>5. InOrder'
    BY <2>2, <2>4, <1>0 DEF Turns, InOrder
  <2>6. Done' = Done
    BY <1>0, <2>1, <2>3 DEF Done
  <2>7. Waiting' \subseteq (1..called') \ skipped'
    BY <1>0, <2>1, <2>3 DEF Turns
  <2>8. \A k \in Done', w \in Waiting' : k < w
    BY <1>0, <2>3, <2>6 DEF Turns, Done
  <2> QED
    BY <1>1, <2>5, <2>6, <2>7, <2>8 DEF Turns
<1> QED
  BY <1>2, <1>3

LEMMA QueueBegin ==
    ASSUME HubTypes, HubTypes', Turns, NEW m \in 1..called, Hub!Begin(m)
    PROVE  m \notin Done /\ Done' = Done \cup {m} /\ (\A k \in Done : k < m) /\ Turns'
<1>0. waiters \in Seq(Sockets \cup Nat) /\ called \in Nat /\ m \in Nat
  BY DEF HubTypes
<1>1. /\ waiters # <<>> /\ Head(waiters) = m /\ waiters' = Tail(waiters) /\ holder' = m
      /\ called' = called /\ skipped' = skipped
  BY DEF Hub!Begin, Hub!MyTurn
<1>2. /\ Len(waiters) \in Nat /\ Len(waiters) > 0 /\ Len(waiters') = Len(waiters) - 1 /\ waiters[1] = m
      /\ \A i \in 1..Len(waiters') : waiters'[i] = waiters[i + 1]
  BY <1>0, <1>1
<1>3. \A i \in 1..Len(waiters') : i + 1 \in 1..Len(waiters) /\ 1 < i + 1
  BY <1>2
<1>10. \A i, j \in 1..Len(waiters) :
         i < j /\ waiters[i] \in Nat /\ waiters[j] \in Nat => waiters[i] < waiters[j]
  BY DEF Turns, InOrder
<1>4. InOrder'
  <2>1. \A i, j \in 1..Len(waiters') : i < j => i + 1 < j + 1
    BY <1>2
  <2> QED
    BY <1>2, <1>3, <1>10, <2>1 DEF InOrder
<1>5. \A i \in 1..Len(waiters') : waiters'[i] \in Nat => m < waiters'[i]
  <2>1. 1 \in 1..Len(waiters)
    BY <1>2
  <2> QED
    BY <1>0, <1>2, <1>3, <1>10, <2>1
<1>6. m \in Waiting /\ m \notin Waiting' /\ (\A w \in Waiting' : m < w)
  BY <1>0, <1>2, <1>5 DEF Waiting
<1>7. Waiting = Waiting' \cup {m}
  <2>1. \A k \in Nat, i \in 1..Len(waiters) : waiters[i] = k => k = m \/ (i - 1 \in 1..Len(waiters') /\ waiters'[i - 1] = k)
    BY <1>2
  <2>2. \A k \in Nat : (\E i \in 1..Len(waiters) : waiters[i] = k)
                       <=> (k = m \/ \E i \in 1..Len(waiters') : waiters'[i] = k)
    <3>1. \A k \in Nat : (\E i \in 1..Len(waiters) : waiters[i] = k)
                       => (k = m \/ \E i \in 1..Len(waiters') : waiters'[i] = k)
      BY <2>1
    <3>2. \A k \in Nat : (\E i \in 1..Len(waiters') : waiters'[i] = k)
                       => (\E i \in 1..Len(waiters) : waiters[i] = k)
      BY <1>2, <1>3
    <3>3. \E i \in 1..Len(waiters) : waiters[i] = m
      BY <1>2
    <3> QED
      BY <3>1, <3>2, <3>3
  <2> QED
    BY <1>0, <2>2 DEF Waiting
<1>8. m \notin Done /\ Done' = Done \cup {m} /\ \A k \in Done : k < m
  BY <1>1, <1>6, <1>7 DEF Done, Turns
<1>9. /\ Waiting' \subseteq (1..called') \ skipped'
      /\ \A k \in Done', w \in Waiting' : k < w
      /\ \A k \in Done' : k <= m
  <2>1. Done \subseteq Nat
    BY DoneIsCalled
  <2> QED
    BY <1>0, <1>1, <1>6, <1>7, <1>8, <2>1 DEF Turns
<1> QED
  BY <1>1, <1>4, <1>8, <1>9 DEF Turns

(* A step that neither sends nor begins or ends a broadcast leaves the streams alone,  *)
(* as long as only connections without one become clients.                             *)
LEMMA QuietStreams ==
    ASSUME HubTypes, HubTypes', Loads, Streams, Done' = Done, UNCHANGED <<todo, failed, got>>,
           holder' = holder \/ (holder \notin Nat /\ holder' \notin Nat),
           holder \in Nat => clients \subseteq clients',
           \A s \in Sockets : conn'[s] \in Early => conn[s] \in Early,
           \A s \in clients' : s \in clients \/ conn[s] \in Early
    PROVE  Loads' /\ Streams'
<1>1. Loads'
  <2>1. \A m \in Hub!Messages : m \in Nat
    BY DEF Hub!Messages
  <2> QED
    BY <2>1 DEF Loads
<1>2. \A s \in Sockets : Sending(s)' <=> Sending(s)
  BY DEF Sending
<1>3. ASSUME NEW s \in Sockets
      PROVE  Stream(s)'
  <2>1. Stream(s)
    BY <1>3 DEF Streams
  <2>2. /\ conn'[s] \in Early => got'[s] = <<>>
        /\ \A i, j \in 1..Len(got'[s]) : i < j => got'[s][i] < got'[s][j]
    BY <2>1 DEF Stream
  <2>3. \A i \in 1..Len(got'[s]) : got'[s][i] \in Done' /\ (Sending(s)' => got'[s][i] # holder')
    BY <1>2, <2>1 DEF Stream, Sending
  <2>4. ASSUME NEW k \in Done', got'[s] # <<>>, got'[s][1] <= k,
               \/ k <= got'[s][Len(got'[s])]
               \/ s \in clients' /\ (holder' \in Nat => s \notin failed'[holder']) /\ ~(Sending(s)' /\ k = holder')
        PROVE  k \in Range(got'[s])
    <3>1. got[s] # <<>> /\ got[s][1] <= k /\ k \in Done /\ conn[s] \notin Early
      BY <2>1, <2>4 DEF Stream
    <3>2. s \in clients' => s \in clients
      BY <3>1
    <3>3. k <= got[s][Len(got[s])]
          \/ (s \in clients /\ (holder \in Nat => s \notin failed[holder]) /\ ~(Sending(s) /\ k = holder))
      BY <1>2, <2>4, <3>2 DEF Sending
    <3> QED
      BY <2>1, <3>1, <3>3 DEF Stream
  <2> QED
    BY <2>2, <2>3, <2>4 DEF Stream
<1> QED
  BY <1>1, <1>3 DEF Streams

LEMMA BeginStreams ==
    ASSUME HubTypes, HubTypes', Turns, Loads, Streams, NEW m \in 1..called, Hub!Begin(m)
    PROVE  Loads' /\ Streams'
<1>1. m \notin Done /\ Done' = Done \cup {m} /\ (\A k \in Done : k < m) /\ Done \subseteq Nat
  BY QueueBegin, DoneIsCalled
<1>2. /\ holder = Nobody /\ holder' = m /\ m \in Nat /\ m \in Hub!Messages /\ Nobody \notin Nat
      /\ todo' = [todo EXCEPT ![m] = clients] /\ UNCHANGED <<conn, clients, failed, got>>
  BY HubAssumption DEF Hub!Begin, Hub!MyTurn, HubTypes, Hub!Messages
<1>3. todo'[m] = clients /\ failed[m] = {} /\ \A n \in Hub!Messages : n # m => todo'[n] = {} /\ n # Nobody
  BY <1>1, <1>2 DEF Loads, HubTypes, Hub!Messages
<1>4. Loads'
  BY <1>1, <1>2, <1>3 DEF Loads
<1>5. \A s \in Sockets : ~Sending(s) /\ (Sending(s)' <=> s \in clients)
  BY <1>2, <1>3 DEF Sending
<1>6. ASSUME NEW s \in Sockets
      PROVE  Stream(s)'
  <2>1. Stream(s)
    BY <1>6 DEF Streams
  <2>2. /\ conn'[s] \in Early => got'[s] = <<>>
        /\ \A i, j \in 1..Len(got'[s]) : i < j => got'[s][i] < got'[s][j]
    BY <1>2, <2>1 DEF Stream
  <2>3. \A i \in 1..Len(got'[s]) : got'[s][i] \in Done' /\ (Sending(s)' => got'[s][i] # holder')
    BY <1>1, <1>2, <2>1 DEF Stream
  <2>4. ASSUME NEW k \in Done', got'[s] # <<>>, got'[s][1] <= k,
               \/ k <= got'[s][Len(got'[s])]
               \/ s \in clients' /\ (holder' \in Nat => s \notin failed'[holder']) /\ ~(Sending(s)' /\ k = holder')
        PROVE  k \in Range(got'[s])
    <3>1. got[s] \in Seq(Nat) /\ got[s] # <<>>
      BY <1>2, <2>4 DEF HubTypes
    <3>2. Len(got[s]) \in 1..Len(got[s])
      BY <3>1
    <3>3. got[s][Len(got[s])] \in Done
      BY <2>1, <3>2 DEF Stream
    <3>6. got[s][Len(got[s])] < m /\ got[s][Len(got[s])] \in Nat /\ got' = got /\ holder' = m /\ clients' = clients
      BY <1>1, <1>2, <3>3
    <3>7. k = m => Sending(s)' \/ s \notin clients
      BY <1>5
    <3>4. k # m
      BY <1>2, <2>4, <3>6, <3>7
    <3>5. k \in Done
      BY <1>1, <3>4
    <3> QED
      BY <1>2, <1>5, <2>1, <2>4, <3>5 DEF Stream
  <2> QED
    BY <2>2, <2>3, <2>4 DEF Stream
<1> QED
  BY <1>4, <1>6 DEF Streams

LEMMA EndStreams ==
    ASSUME HubTypes, HubTypes', Turns, Loads, Streams, Done' = Done, NEW m \in 1..called, Hub!End(m)
    PROVE  Loads' /\ Streams'
<1>1. /\ holder = m /\ holder' = Nobody /\ m \in Nat /\ m \in Hub!Messages /\ Nobody \notin Nat
      /\ todo[m] = {} /\ clients' = clients \ failed[m] /\ UNCHANGED <<conn, todo, failed, got>>
  BY HubAssumption DEF Hub!End, HubTypes, Hub!Messages
<1>2. Loads'
  BY <1>1 DEF Loads
<1>3. \A s \in Sockets : ~Sending(s) /\ ~Sending(s)'
  BY <1>1 DEF Sending
<1>4. ASSUME NEW s \in Sockets
      PROVE  Stream(s)'
  <2>1. Stream(s)
    BY <1>4 DEF Streams
  <2>2. /\ conn'[s] \in Early => got'[s] = <<>>
        /\ \A i, j \in 1..Len(got'[s]) : i < j => got'[s][i] < got'[s][j]
        /\ \A i \in 1..Len(got'[s]) : got'[s][i] \in Done' /\ (Sending(s)' => got'[s][i] # holder')
    BY <1>1, <1>3, <2>1 DEF Stream
  <2>4. ASSUME NEW k \in Done', got'[s] # <<>>, got'[s][1] <= k,
               \/ k <= got'[s][Len(got'[s])]
               \/ s \in clients' /\ (holder' \in Nat => s \notin failed'[holder']) /\ ~(Sending(s)' /\ k = holder')
        PROVE  k \in Range(got'[s])
    BY <1>1, <1>3, <2>1, <2>4 DEF Stream
  <2> QED
    BY <2>2, <2>4 DEF Stream
<1> QED
  BY <1>2, <1>4 DEF Streams

LEMMA SendStreams ==
    ASSUME HubTypes, HubTypes', Turns, Loads, Streams, Done' = Done,
           NEW m \in 1..called, NEW s \in Sockets, Hub!Send(m, s)
    PROVE  Loads' /\ Streams'
<1>0. m \in Nat /\ m \in Hub!Messages
  BY HubAssumption DEF Hub!Messages, HubTypes
<1>1. /\ holder = m /\ s \in clients /\ s \notin failed[m] /\ holder' = holder
      /\ todo' = [todo EXCEPT ![m] = todo[m] \ {s}] /\ UNCHANGED <<conn, clients>>
  BY <1>0 DEF Hub!Send, Loads
<1>2. \/ conn[s] = "open" /\ got' = [got EXCEPT ![s] = Append(got[s], m)] /\ failed' = failed
      \/ failed' = [failed EXCEPT ![m] = failed[m] \cup {s}] /\ got' = got
  BY DEF Hub!Send
<1>3. m \in Done /\ (\A k \in Done : k <= m) /\ Done \subseteq Nat
  BY <1>0, <1>1, DoneIsCalled DEF Turns
<1>4. Loads'
  <2>1. \A n \in Hub!Messages : todo'[n] \subseteq todo[n] /\ (n # m => failed'[n] = failed[n])
    BY <1>1, <1>2 DEF HubTypes
  <2>2. failed'[m] \subseteq failed[m] \cup {s} /\ todo'[m] = todo[m] \ {s}
    BY <1>0, <1>1, <1>2 DEF HubTypes
  <2> QED
    BY <1>0, <1>1, <1>3, <2>1, <2>2 DEF Loads
<1>5. Sending(s) /\ ~Sending(s)' /\ \A o \in Sockets : o # s => (Sending(o)' <=> Sending(o))
  BY <1>0, <1>1 DEF Sending, Hub!Send, HubTypes
<1>6. \A o \in Sockets : o # s => got'[o] = got[o] /\ (o \in failed'[m] <=> o \in failed[m])
  BY <1>0, <1>2 DEF HubTypes
<1>7. ASSUME NEW o \in Sockets, o # s
      PROVE  Stream(o)'
  <2>1. Stream(o) /\ got'[o] = got[o] /\ (o \in failed'[m] <=> o \in failed[m]) /\ (Sending(o)' <=> Sending(o))
    BY <1>5, <1>6, <1>7 DEF Streams
  <2>2. /\ conn'[o] \in Early => got'[o] = <<>>
        /\ \A i, j \in 1..Len(got'[o]) : i < j => got'[o][i] < got'[o][j]
        /\ \A i \in 1..Len(got'[o]) : got'[o][i] \in Done' /\ (Sending(o)' => got'[o][i] # holder')
    BY <1>1, <2>1 DEF Stream
  <2>3. ASSUME NEW k \in Done', got'[o] # <<>>, got'[o][1] <= k,
               \/ k <= got'[o][Len(got'[o])]
               \/ o \in clients' /\ (holder' \in Nat => o \notin failed'[holder']) /\ ~(Sending(o)' /\ k = holder')
        PROVE  k \in Range(got'[o])
    BY <1>1, <2>1, <2>3 DEF Stream
  <2> QED
    BY <2>2, <2>3 DEF Stream
<1>8. Stream(s)
  BY DEF Streams
<1>9. CASE got' = got /\ failed' = [failed EXCEPT ![m] = failed[m] \cup {s}]
  <2>1. s \in failed'[m]
    BY <1>0, <1>9 DEF HubTypes
  <2>2. /\ conn'[s] \in Early => got'[s] = <<>>
        /\ \A i, j \in 1..Len(got'[s]) : i < j => got'[s][i] < got'[s][j]
        /\ \A i \in 1..Len(got'[s]) : got'[s][i] \in Done' /\ (Sending(s)' => got'[s][i] # holder')
    BY <1>1, <1>5, <1>8, <1>9 DEF Stream
  <2>3. ASSUME NEW k \in Done', got'[s] # <<>>, got'[s][1] <= k,
               \/ k <= got'[s][Len(got'[s])]
               \/ s \in clients' /\ (holder' \in Nat => s \notin failed'[holder']) /\ ~(Sending(s)' /\ k = holder')
        PROVE  k \in Range(got'[s])
    BY <1>0, <1>1, <1>8, <1>9, <2>1, <2>3 DEF Stream
  <2>4. Stream(s)'
    BY <2>2, <2>3 DEF Stream
  <2> QED
    BY <1>4, <1>7, <2>4 DEF Streams
<1>10. CASE conn[s] = "open" /\ got' = [got EXCEPT ![s] = Append(got[s], m)] /\ failed' = failed
  <2>1. got[s] \in Seq(Nat) /\ got'[s] = Append(got[s], m) /\ Len(got[s]) \in Nat
    BY <1>10 DEF HubTypes
  <2>2. /\ Len(got'[s]) = Len(got[s]) + 1 /\ got'[s][Len(got'[s])] = m
        /\ \A i \in 1..Len(got[s]) : got'[s][i] = got[s][i]
        /\ \A i \in 1..Len(got'[s]) : i = Len(got'[s]) \/ i \in 1..Len(got[s])
    BY <1>0, <2>1
  <2>3. \A i \in 1..Len(got[s]) : got[s][i] \in Done /\ got[s][i] # m
    BY <1>1, <1>5, <1>8 DEF Stream
  <2>4. \A i \in 1..Len(got[s]) : got[s][i] < m
    BY <1>0, <1>3, <2>3
  <2>5. conn'[s] \notin Early
    BY <1>1, <1>10 DEF Early
  <2>6. \A i, j \in 1..Len(got'[s]) : i < j => got'[s][i] < got'[s][j]
    <3>1. \A i, j \in 1..Len(got[s]) : i < j => got[s][i] < got[s][j]
      BY <1>8 DEF Stream
    <3>2. \A i, j \in 1..Len(got'[s]) : i < j => i \in 1..Len(got[s])
      BY <2>1, <2>2
    <3> QED
      BY <2>2, <2>4, <3>1, <3>2
  <2>7. \A i \in 1..Len(got'[s]) : got'[s][i] \in Done' /\ (Sending(s)' => got'[s][i] # holder')
    BY <1>3, <1>5, <2>2, <2>3
  <2>8. ASSUME NEW k \in Done', got'[s][1] <= k
        PROVE  k \in Range(got'[s])
    <3>1. CASE k = m
      <4>1. Len(got'[s]) \in DOMAIN got'[s]
        BY <2>1, <2>2
      <4> QED
        BY <2>2, <3>1, <4>1 DEF Range
    <3>2. CASE k # m
      <4>1. k \in Done /\ k <= m /\ k \in Nat
        BY <1>3, <2>8
      <4>2. got[s] # <<>>
        BY <1>0, <2>1, <2>2, <2>8, <3>2, <4>1
      <4>3. got[s][1] = got'[s][1]
        BY <2>1, <2>2, <4>2
      <4>4. k \in Range(got[s])
        BY <1>0, <1>1, <1>8, <2>8, <3>2, <4>1, <4>2, <4>3 DEF Stream
      <4>5. \A i \in DOMAIN got[s] : i \in DOMAIN got'[s] /\ got'[s][i] = got[s][i]
        BY <2>1, <2>2
      <4> QED
        BY <4>4, <4>5 DEF Range
    <3> QED
      BY <3>1, <3>2
  <2>9. Stream(s)'
    BY <2>5, <2>6, <2>7, <2>8 DEF Stream
  <2> QED
    BY <1>4, <1>7, <2>9 DEF Streams
<1> QED
  BY <1>2, <1>9, <1>10

LEMMA StreamsStep ==
    ASSUME HubTypes, Seats, HubTypes', Turns, Loads, Streams, [Hub!Next]_(Hub!hubVars)
    PROVE  Turns' /\ Loads' /\ Streams'
<1>0. Nobody \notin Nat /\ \A s \in Sockets : s \notin Nat
  BY HubAssumption
<1>1. CASE UNCHANGED Hub!hubVars
  <2>1. Waiting' = Waiting /\ Done' = Done /\ InOrder'
    BY <1>1, QuietQueue DEF Hub!hubVars
  <2>2. Turns'
    BY <1>1, <2>1 DEF Hub!hubVars, Turns
  <2> QED
    BY <1>1, <2>1, <2>2, QuietStreams DEF Hub!hubVars
<1>2. ASSUME NEW s \in Sockets,
             \/ Hub!Connect(s) \/ Hub!Admit(s) \/ Hub!Refuse(s) \/ Hub!Refused(s) \/ Hub!Accepted(s)
             \/ Hub!Join(s) \/ Hub!Hangup(s) \/ Hub!Leave(s)
      PROVE  Turns' /\ Loads' /\ Streams'
  <2>1. /\ called' = called /\ skipped' = skipped /\ UNCHANGED <<todo, failed, got>>
        /\ \/ waiters' = waiters \/ waiters' = Append(waiters, s)
           \/ waiters # <<>> /\ Head(waiters) = s /\ waiters' = Tail(waiters)
    BY <1>2 DEF Hub!Connect, Hub!Admit, Hub!Refuse, Hub!Refused, Hub!Accepted, Hub!Join, Hub!Hangup, Hub!Leave,
                Hub!Ask, Hub!MyTurn
  <2>2. Waiting' = Waiting /\ Done' = Done /\ InOrder'
    BY <2>1, QuietQueue
  <2>3. holder' = holder \/ (holder \notin Nat /\ holder' \notin Nat)
    BY <1>0, <1>2 DEF Hub!Connect, Hub!Admit, Hub!Refuse, Hub!Refused, Hub!Accepted, Hub!Join, Hub!Hangup, Hub!Leave,
                Hub!MyTurn, Seats
  <2>4. Turns'
    BY <2>1, <2>2, <2>3 DEF Turns
  <2>5. \A o \in Sockets : conn'[o] \in Early => conn[o] \in Early
    BY <1>2 DEF Hub!Connect, Hub!Admit, Hub!Refuse, Hub!Refused, Hub!Accepted, Hub!Join, Hub!Hangup, Hub!Leave,
                Hub!Goto, Early, HubTypes
  <2>6. (holder \in Nat => clients \subseteq clients') /\ \A o \in clients' : o \in clients \/ conn[o] \in Early
    BY <1>0, <1>2 DEF Hub!Connect, Hub!Admit, Hub!Refuse, Hub!Refused, Hub!Accepted, Hub!Join, Hub!Hangup, Hub!Leave,
                Hub!MyTurn, Early
  <2> QED
    BY <2>1, <2>2, <2>3, <2>4, <2>5, <2>6, QuietStreams
<1>3. CASE Hub!Broadcast
  <2>1. UNCHANGED <<todo, failed, got, holder, conn, clients>>
    BY <1>3 DEF Hub!Broadcast
  <2> QED
    BY <1>3, <2>1, QueueBroadcast, QuietStreams
<1>4. ASSUME NEW m \in 1..called, Hub!Begin(m)
      PROVE  Turns' /\ Loads' /\ Streams'
  BY <1>4, QueueBegin, BeginStreams
<1>5. ASSUME NEW m \in 1..called, Hub!End(m)
      PROVE  Turns' /\ Loads' /\ Streams'
  <2>1. called' = called /\ skipped' = skipped /\ waiters' = waiters /\ holder' = Nobody
    BY <1>5 DEF Hub!End
  <2>2. Waiting' = Waiting /\ Done' = Done /\ InOrder'
    BY <2>1, QuietQueue
  <2>3. Turns'
    BY <1>0, <2>1, <2>2 DEF Turns
  <2> QED
    BY <1>5, <2>2, <2>3, EndStreams
<1>6. ASSUME NEW m \in 1..called, NEW s \in Sockets, Hub!Send(m, s)
      PROVE  Turns' /\ Loads' /\ Streams'
  <2>1. called' = called /\ skipped' = skipped /\ waiters' = waiters /\ holder' = holder
    BY <1>6 DEF Hub!Send
  <2>2. Waiting' = Waiting /\ Done' = Done /\ InOrder'
    BY <2>1, QuietQueue
  <2>3. Turns'
    BY <2>1, <2>2 DEF Turns
  <2> QED
    BY <1>6, <2>2, <2>3, SendStreams
<1> QED
  BY <1>1, <1>2, <1>3, <1>4, <1>5, <1>6 DEF Hub!Next

LEMMA StreamsAreGapless == HubTypes /\ Turns /\ Streams => Hub!StreamIsGapless
<1> SUFFICES ASSUME HubTypes, Turns, Streams, NEW s \in Sockets
             PROVE  /\ \A i, j \in DOMAIN got[s] : i < j => got[s][i] < got[s][j]
                    /\ got[s] # <<>> => \A m \in Head(got[s])..got[s][Len(got[s])] : m \in Range(got[s]) \cup skipped
  BY HubLibrary DEF Hub!StreamIsGapless
<1>1. got[s] \in Seq(Nat) /\ Len(got[s]) \in Nat /\ DOMAIN got[s] = 1..Len(got[s])
  BY DEF HubTypes
<1>2. Stream(s)
  BY DEF Streams
<1>3. \A i, j \in DOMAIN got[s] : i < j => got[s][i] < got[s][j]
  BY <1>1, <1>2 DEF Stream
<1>4. ASSUME got[s] # <<>>, NEW m \in Head(got[s])..got[s][Len(got[s])], m \notin skipped
      PROVE  m \in Range(got[s])
  <2>1. Head(got[s]) = got[s][1] /\ 1 \in 1..Len(got[s]) /\ Len(got[s]) \in 1..Len(got[s])
    BY <1>1, <1>4
  <2>2. got[s][1] \in Done /\ got[s][Len(got[s])] \in Done /\ Done \subseteq Nat
    BY <1>2, <2>1, DoneIsCalled DEF Stream
  <2>3. m \in Nat /\ got[s][1] <= m /\ m <= got[s][Len(got[s])]
    <3>1. got[s][1] \in Nat /\ got[s][Len(got[s])] \in Nat /\ m \in got[s][1]..got[s][Len(got[s])]
      BY <1>4, <2>1, <2>2
    <3> QED
      BY <3>1
  <2>4. got[s][1] \in 1..called /\ got[s][Len(got[s])] \in 1..called /\ called \in Nat
    BY <2>2 DEF Done, HubTypes
  <2>5. m \notin Waiting
    <3>1. m \in Waiting => got[s][Len(got[s])] < m
      BY <2>2 DEF Turns
    <3>2. got[s][Len(got[s])] \in Nat
      BY <2>2
    <3> QED
      BY <2>3, <3>1, <3>2
  <2>6. m \in 1..called
    BY <2>3, <2>4
  <2>7. m \in Done
    BY <1>4, <2>5, <2>6 DEF Done
  <2> QED
    BY <1>2, <1>4, <2>3, <2>7 DEF Stream
<1> QED
  BY <1>3, <1>4

(* Alerts reach a client in the order they were broadcast, none twice, and between its *)
(* first one and its last none is missing but those broadcast while nobody listened:   *)
(* for any number of connections that come, go and fail at any time.                   *)
THEOREM StreamIsGaplessHolds == Hub!Spec => []Hub!StreamIsGapless
<1>1. Hub!Init => HubTypes /\ Seats /\ Turns /\ Loads /\ Streams
  <2> SUFFICES ASSUME Hub!Init PROVE Turns /\ Loads /\ Streams
    BY HubInit
  <2>1. /\ waiters = <<>> /\ holder = Nobody /\ Nobody \notin Nat /\ called = 0 /\ Len(<<>>) = 0
        /\ todo = [m \in Hub!Messages |-> {}] /\ failed = [m \in Hub!Messages |-> {}]
        /\ got = [s \in Sockets |-> <<>>]
    BY HubAssumption DEF Hub!Init
  <2>2. Waiting = {} /\ Done = {} /\ InOrder
    BY <2>1 DEF Waiting, Done, InOrder
  <2>3. Turns /\ Loads
    BY <2>1, <2>2 DEF Turns, Loads
  <2>4. Streams
    BY <2>1, <2>2 DEF Streams, Stream
  <2> QED
    BY <2>3, <2>4
<1>2. HubTypes /\ Seats /\ Turns /\ Loads /\ Streams /\ [Hub!Next]_(Hub!hubVars)
      => (HubTypes /\ Seats /\ Turns /\ Loads /\ Streams)'
  BY HubTypesStep, StreamsStep
<1> QED
  BY <1>1, <1>2, StreamsAreGapless, PTL DEF Hub!Spec

-----------------------------------------------------------------------------
(* Siem: the forwarder of alerts.                                            *)

LEMMA SiemLibrary ==
    ASSUME NEW S
    PROVE  Siem!Cardinality(S) = Cardinality(S) /\ Siem!ToSet(S) = Range(S)
BY DEF Siem!Cardinality, Cardinality, Siem!IsFiniteSet, IsFiniteSet, Siem!ToSet, Range

Ids == 1..Len(alertSev)

SiemTypes ==
    /\ alertSev \in Seq(Severities) /\ committed \subseteq Ids
    /\ batch \in Seq(Ids) /\ polled \in BOOLEAN
    /\ lastId \in 0..Len(alertSev) /\ saved \in 0..Len(alertSev)
    /\ syslog \in Seq(Nat) /\ sentSince \subseteq 1..lastId

(* The last entries, as many as the process has sent.                                 *)
Since == (Len(syslog) - Cardinality(sentSince) + 1)..Len(syslog)

SentInOrder ==
    /\ Cardinality(sentSince) <= Len(syslog)
    /\ \A i \in Since : syslog[i] <= lastId
    /\ \A i, j \in Since : i < j => syslog[i] < syslog[j]

(* What is still to be sent is newer than all that was sent, and it is in order.       *)
BatchInOrder ==
    /\ \A i \in 1..Len(batch) : lastId < batch[i]
    /\ \A i, j \in 1..Len(batch) : i < j => batch[i] < batch[j]

(* The forwarder, and one that resumes from the file, have missed nothing but what is   *)
(* excused, nor will the rest of the batch.                                            *)
Forwards(id) == id \in Range(syslog) \cup excused
NothingMissed ==
    /\ \A id \in Siem!Wanted : id <= lastId \/ id <= saved => Forwards(id)
    /\ \A id \in Siem!Wanted, i \in 1..Len(batch) :
        lastId < id /\ id < batch[i] => id \in excused \/ \E j \in 1..Len(batch) : j < i /\ batch[j] = id

LEMMA AscendingIsWhole ==
    ASSUME NEW S, S \subseteq Nat, IsFiniteSet(S), NEW order \in Siem!ById(S)
    PROVE  /\ order \in Seq(S) /\ Len(order) = Cardinality(S)
           /\ \A i, j \in 1..Len(order) : i < j => order[i] < order[j]
           /\ \A x \in S : \E i \in 1..Len(order) : order[i] = x
<1> DEFINE n == Cardinality(S)
<1>1. n \in Nat
  BY FS_CardinalityType
<1>2. order \in [1..n -> S] /\ \A i, j \in 1..n : i < j => order[i] < order[j]
  BY SiemLibrary DEF Siem!ById
<1>3. order \in Seq(S) /\ Len(order) = n
  BY <1>1, <1>2, SeqDef
<1>4. \A i, j \in 1..n : i # j => order[i] # order[j]
  <2>1. \A i \in 1..n : order[i] \in Nat
    BY <1>2
  <2>2. \A i, j \in 1..n : i # j => i < j \/ j < i
    BY <1>1
  <2> QED
    BY <1>2, <2>1, <2>2
<1>5. order \in Injection(1..n, S)
  BY <1>2, <1>4 DEF Injection, IsInjective
<1>6. Cardinality(1..n) = n
  BY <1>1, FS_Interval
<1>7. order \in Surjection(1..n, S)
  BY <1>5, <1>6, FS_Injection
<1>8. \A x \in S : \E i \in 1..n : order[i] = x
  BY <1>7 DEF Surjection
<1> QED
  BY <1>2, <1>3, <1>8

LEMMA SiemKeeps ==
    ASSUME SiemTypes, SentInOrder, BatchInOrder, NothingMissed, [Siem!Next]_(Siem!forwardVars)
    PROVE  SiemTypes' /\ SentInOrder' /\ BatchInOrder' /\ NothingMissed'
<1>0. /\ Len(alertSev) \in Nat /\ Siem!Wanted \subseteq Ids /\ DOMAIN alertSev = Ids
      /\ lastId \in Nat /\ saved \in Nat /\ Len(batch) \in Nat /\ Len(syslog) \in Nat
  BY DEF SiemTypes, Siem!Wanted, Ids
<1>1. CASE UNCHANGED Siem!forwardVars
  BY <1>1 DEF Siem!forwardVars, SiemTypes, SentInOrder, BatchInOrder, NothingMissed, Forwards, Since, Siem!Wanted, Ids
<1>2. CASE Siem!CommitAlert
  BY <1>0, <1>2 DEF Siem!CommitAlert, SiemTypes, SentInOrder, BatchInOrder, NothingMissed, Forwards, Since, Siem!Wanted, Ids
<1>3. CASE Siem!Insert
  <2>1. PICK s \in Severities : alertSev' = Append(alertSev, s)
    BY <1>3 DEF Siem!Insert
  <2>2. UNCHANGED <<committed, batch, polled, lastId, saved, syslog, sentSince, excused>>
    BY <1>3 DEF Siem!Insert
  <2>3. /\ alertSev' \in Seq(Severities) /\ Len(alertSev') = Len(alertSev) + 1
        /\ \A i \in Ids : alertSev'[i] = alertSev[i]
        /\ DOMAIN alertSev' = 1..Len(alertSev')
    BY <2>1 DEF SiemTypes, Ids
  <2>4. Ids' = Ids \cup {Len(alertSev) + 1} /\ Ids \subseteq Ids'
    BY <1>0, <2>3 DEF Ids
  <2>5. batch \in Seq(Ids') /\ \A i \in 1..Len(batch) : batch[i] \in Ids
    <3>1. batch \in Seq(Ids)
      BY DEF SiemTypes
    <3> HIDE DEF Ids
    <3> QED
      BY <2>4, <3>1
  <2>6. SiemTypes'
    BY <1>0, <2>2, <2>3, <2>4, <2>5 DEF SiemTypes
  <2>7. SentInOrder' /\ BatchInOrder'
    BY <2>2 DEF SentInOrder, BatchInOrder, Since
  <2>8. \A id \in Siem!Wanted' : id \in Siem!Wanted \/ id = Len(alertSev) + 1
    BY <1>0, <2>3, <2>4 DEF Siem!Wanted, Ids
  <2>9. \A i \in 1..Len(batch) : batch[i] <= Len(alertSev)
    BY <1>0, <2>5 DEF Ids
  <2>10. lastId <= Len(alertSev) /\ saved <= Len(alertSev) /\ \A i \in 1..Len(batch) : batch[i] \in Nat
    BY <1>0, <2>5 DEF SiemTypes, Ids
  <2>11. NothingMissed'
    BY <1>0, <2>2, <2>8, <2>9, <2>10 DEF NothingMissed, Forwards
  <2> QED
    BY <2>6, <2>7, <2>11
<1>4. CASE Siem!Poll
  <2>1. /\ batch' \in Siem!ById(Siem!News) /\ polled' = TRUE
        /\ excused' = excused \cup {id \in Siem!Wanted \ Siem!Fetched : id > lastId /\ \E x \in Siem!Fetched : x > id}
        /\ UNCHANGED <<alertSev, committed, lastId, saved, syslog, sentSince>>
    BY <1>4 DEF Siem!Poll
  <2>2. Siem!News \subseteq Ids /\ Siem!News \subseteq Siem!Fetched /\ Ids \subseteq Nat
    <3>1. Siem!News \subseteq Siem!Fetched /\ Siem!Fetched \subseteq Siem!Wanted
      BY DEF Siem!News, Siem!Fetched
    <3>2. Ids \subseteq Nat
      BY <1>0 DEF Ids
    <3> QED
      BY <1>0, <3>1, <3>2
  <2>3. IsFiniteSet(Ids)
    BY <1>0, FS_Interval DEF Ids
  <2>4. IsFiniteSet(Siem!News) /\ Siem!News \subseteq Nat
    BY <2>2, <2>3, FS_Subset
  <2>5. /\ batch' \in Seq(Siem!News)
        /\ \A i, j \in 1..Len(batch') : i < j => batch'[i] < batch'[j]
        /\ \A x \in Siem!News : \E i \in 1..Len(batch') : batch'[i] = x
    BY <2>1, <2>4, AscendingIsWhole
  <2>6. \A i \in 1..Len(batch') : batch'[i] \in Siem!News /\ batch'[i] \in Nat
    <3>1. \A i \in 1..Len(batch') : batch'[i] \in Siem!News
      BY <2>5
    <3> QED
      BY <2>4, <3>1
  <2>7. batch' \in Seq(Ids)
    BY <2>2, <2>5, SeqMonotonic
  <2>8. SiemTypes' /\ SentInOrder'
    BY <2>1, <2>7 DEF SiemTypes, SentInOrder, Since, Ids
  <2>9. BatchInOrder'
    BY <2>1, <2>5, <2>6 DEF BatchInOrder, Siem!News
  <2>10. ASSUME NEW id \in Siem!Wanted, NEW i \in 1..Len(batch'), lastId < id, id < batch'[i]
         PROVE  id \in excused' \/ \E j \in 1..Len(batch') : j < i /\ batch'[j] = id
    <3>0. id \in Nat
      BY <1>0, <2>2
    <3>1. CASE id \in Siem!Fetched
      <4>1. id \in Siem!News
        BY <2>10, <3>0, <3>1, <1>0 DEF Siem!News
      <4>2. PICK j \in 1..Len(batch') : batch'[j] = id
        BY <2>5, <4>1
      <4>3. j \in Nat /\ i \in Nat /\ ~(i <= j)
        <5>1. Len(batch') \in Nat
          BY <2>5
        <5>2. i # j /\ i \in Nat /\ j \in Nat
          BY <2>10, <3>0, <4>2, <5>1
        <5>3. ~(i < j)
          <6>1. i < j => batch'[i] < id
            BY <2>5, <4>2
          <6>2. batch'[i] \in Nat
            BY <2>6
          <6> QED
            BY <2>10, <3>0, <6>1, <6>2
        <5> QED
          BY <5>2, <5>3
      <4> QED
        BY <4>2, <4>3
    <3>2. CASE id \notin Siem!Fetched
      <4>1. batch'[i] \in Siem!Fetched /\ batch'[i] > id
        BY <2>2, <2>6, <2>10, <3>0
      <4> QED
        BY <1>0, <2>1, <2>10, <3>0, <3>2, <4>1
    <3> QED
      BY <3>1, <3>2
  <2>11. Siem!Wanted' = Siem!Wanted /\ excused \subseteq excused'
    BY <2>1 DEF Siem!Wanted
  <2>12. NothingMissed'
    BY <2>1, <2>10, <2>11 DEF NothingMissed, Forwards
  <2> QED
    BY <2>8, <2>9, <2>12
<1>5. CASE Siem!Send
  <2> DEFINE h == Head(batch)
  <2>1. /\ batch # <<>> /\ syslog' = Append(syslog, h) /\ sentSince' = sentSince \cup {h}
        /\ lastId' = IF h > lastId THEN h ELSE lastId
        /\ batch' = Tail(batch) /\ UNCHANGED <<alertSev, committed, polled, saved, excused>>
    BY <1>5 DEF Siem!Send
  <2>2. /\ h = batch[1] /\ h \in Ids /\ Len(batch') = Len(batch) - 1 /\ Len(batch) > 0
        /\ \A i \in 1..Len(batch') : batch'[i] = batch[i + 1] /\ i + 1 \in 1..Len(batch) /\ 1 < i + 1
        /\ \A i \in 1..Len(batch) : batch[i] \in Ids
    <3>1. batch \in Seq(Ids)
      BY DEF SiemTypes
    <3> HIDE DEF Ids
    <3> QED
      BY <1>0, <2>1, <3>1
  <2>3. h > lastId /\ h \in Nat /\ lastId' = h /\ h <= Len(alertSev)
    BY <1>0, <2>1, <2>2 DEF BatchInOrder, Ids
  <2>4. IsFiniteSet(sentSince) /\ h \notin sentSince
    <3>1. IsFiniteSet(1..lastId)
      BY <1>0, FS_Interval
    <3>2. h \notin 1..lastId
      BY <1>0, <2>3
    <3> QED
      BY <3>1, <3>2, FS_Subset DEF SiemTypes
  <2>5. Cardinality(sentSince') = Cardinality(sentSince) + 1 /\ Cardinality(sentSince) \in Nat
    BY <2>1, <2>4, FS_AddElement, FS_CardinalityType
  <2>6. /\ syslog' \in Seq(Nat) /\ Len(syslog') = Len(syslog) + 1 /\ syslog'[Len(syslog')] = h
        /\ \A i \in 1..Len(syslog) : syslog'[i] = syslog[i] /\ syslog[i] \in Nat
    <3> HIDE DEF h
    <3>1. syslog \in Seq(Nat)
      BY DEF SiemTypes
    <3> QED
      BY <2>1, <2>3, <3>1
  <2>7. batch' \in Seq(Ids)
    <3>1. batch \in Seq(Ids)
      BY DEF SiemTypes
    <3> HIDE DEF Ids
    <3> QED
      BY <2>1, <3>1
  <2>8. sentSince' \subseteq 1..lastId'
    <3>1. sentSince \subseteq 1..lastId /\ h >= 1
      BY <1>0, <2>2 DEF SiemTypes, Ids
    <3> HIDE DEF h
    <3>2. 1..lastId \subseteq 1..h /\ h \in 1..h
      BY <1>0, <2>3, <3>1
    <3> QED
      BY <2>1, <2>3, <3>1, <3>2
  <2>9. SiemTypes'
    BY <1>0, <2>1, <2>2, <2>3, <2>6, <2>7, <2>8 DEF SiemTypes, Ids
  <2>10. \A i \in Since' : i = Len(syslog') \/ (i \in Since /\ i \in 1..Len(syslog))
    <3> DEFINE n == Len(syslog)  k == Cardinality(sentSince)
    <3>1. n \in Nat /\ k \in Nat /\ k <= n
      BY <1>0, <2>5, <2>6 DEF SentInOrder
    <3>2. Since = (n - k + 1)..n /\ Since' = ((n + 1) - (k + 1) + 1)..(n + 1) /\ Len(syslog') = n + 1
      BY <2>5, <2>6 DEF Since
    <3> HIDE DEF n, k
    <3>3. \A i \in ((n + 1) - (k + 1) + 1)..(n + 1) : i = n + 1 \/ (i \in (n - k + 1)..n /\ i \in 1..n)
      BY <3>1
    <3> QED
      BY <3>2, <3>3 DEF n
  <2>11. \A i \in Since' : syslog'[i] <= h
    BY <1>0, <2>3, <2>6, <2>10 DEF SentInOrder
  <2>12. \A i, j \in Since' : i < j => syslog'[i] < syslog'[j]
    <3> HIDE DEF h
    <3>1. \A i \in Since' : i <= Len(syslog') /\ i \in Int
      BY <1>0, <2>5, <2>6 DEF Since
    <3>2. ASSUME NEW i \in Since, i \in 1..Len(syslog)
          PROVE  syslog'[i] < h
      <4>1. syslog[i] <= lastId /\ syslog'[i] = syslog[i] /\ syslog[i] \in Nat
        BY <2>6, <3>2 DEF SentInOrder
      <4> QED
        BY <1>0, <2>3, <4>1
    <3>3. \A i, j \in Since' : i < j => i # Len(syslog')
      <4>1. Len(syslog') \in Int
        BY <1>0, <2>6
      <4> QED
        BY <3>1, <4>1
    <3> QED
      BY <2>6, <2>10, <3>2, <3>3 DEF SentInOrder
  <2>13. SentInOrder'
    BY <1>0, <2>3, <2>5, <2>6, <2>11, <2>12 DEF SentInOrder
  <2>14. BatchInOrder'
    <3>1. 1 \in 1..Len(batch)
      BY <1>0, <2>2
    <3>2. \A i \in 1..Len(batch') : h < batch'[i]
      BY <2>2, <3>1 DEF BatchInOrder
    <3>3. \A i, j \in 1..Len(batch') : i < j => i + 1 < j + 1
      BY <1>0, <2>2
    <3>4. \A i, j \in 1..Len(batch') : i < j => batch'[i] < batch'[j]
      BY <2>2, <3>3 DEF BatchInOrder
    <3> QED
      BY <2>3, <3>2, <3>4 DEF BatchInOrder
  <2>15. Siem!Wanted' = Siem!Wanted /\ excused' = excused /\ saved' = saved
    BY <2>1 DEF Siem!Wanted
  <2>16. Range(syslog') = Range(syslog) \cup {h}
    <3>1. DOMAIN syslog = 1..Len(syslog) /\ DOMAIN syslog' = 1..Len(syslog')
      BY <2>6 DEF SiemTypes
    <3>2. 1..Len(syslog') = 1..Len(syslog) \cup {Len(syslog')}
      BY <1>0, <2>6
    <3> QED
      BY <2>6, <3>1, <3>2 DEF Range
  <2>17. ASSUME NEW id \in Siem!Wanted, id <= h \/ id <= saved
         PROVE  id \in Range(syslog') \cup excused
    <3>0. id \in Nat
      BY <1>0 DEF Ids
    <3>1. CASE id <= lastId \/ id <= saved
      BY <2>16, <3>1 DEF NothingMissed, Forwards
    <3>2. CASE lastId < id /\ id < h
      <4>1. 1 \in 1..Len(batch)
        BY <1>0, <2>2
      <4>2. id \in excused \/ \E j \in 1..Len(batch) : j < 1 /\ batch[j] = id
        BY <2>2, <3>2, <4>1 DEF NothingMissed
      <4> QED
        BY <4>2
    <3>3. CASE id = h
      BY <2>16, <3>3
    <3> QED
      BY <1>0, <2>3, <2>17, <3>0, <3>1, <3>2, <3>3
  <2>18. ASSUME NEW id \in Siem!Wanted, NEW i \in 1..Len(batch'), h < id, id < batch'[i]
         PROVE  id \in excused \/ \E j \in 1..Len(batch') : j < i /\ batch'[j] = id
    <3>0. id \in Nat /\ lastId < id /\ i \in Nat /\ i + 1 \in 1..Len(batch) /\ batch'[i] = batch[i + 1]
      BY <1>0, <2>2, <2>3, <2>18 DEF Ids
    <3>1. id \in excused \/ \E j \in 1..Len(batch) : j < i + 1 /\ batch[j] = id
      BY <2>18, <3>0 DEF NothingMissed
    <3>2. ASSUME NEW j \in 1..Len(batch), j < i + 1, batch[j] = id
          PROVE  j - 1 \in 1..Len(batch') /\ j - 1 < i /\ batch'[j - 1] = id
      <4>1. j # 1
        BY <2>2, <2>3, <2>18, <3>0, <3>2
      <4>2. j - 1 \in 1..Len(batch') /\ j - 1 < i /\ (j - 1) + 1 = j
        BY <1>0, <2>2, <3>0, <3>2, <4>1
      <4> QED
        BY <2>2, <3>2, <4>2
    <3> QED
      BY <3>1, <3>2
  <2>19. NothingMissed'
    BY <2>3, <2>15, <2>17, <2>18 DEF NothingMissed, Forwards
  <2> QED
    BY <2>9, <2>13, <2>14, <2>19
<1>6. CASE Siem!SendFails \/ Siem!Save
  <2>1. /\ UNCHANGED <<alertSev, committed, lastId, syslog, sentSince, excused>>
        /\ batch' = <<>> /\ polled' = FALSE /\ (saved' = saved \/ saved' = lastId)
    BY <1>6 DEF Siem!SendFails, Siem!Save
  <2>2. batch' \in Seq(Ids) /\ Len(batch') = 0
    BY <2>1
  <2>5. SiemTypes'
    BY <2>1, <2>2 DEF SiemTypes, Ids
  <2>6. SentInOrder'
    BY <2>1 DEF SentInOrder, Since
  <2>3. SiemTypes' /\ SentInOrder' /\ BatchInOrder'
    BY <2>2, <2>5, <2>6 DEF BatchInOrder
  <2>4. NothingMissed'
    BY <2>1, <2>2 DEF NothingMissed, Forwards, Siem!Wanted
  <2> QED
    BY <2>3, <2>4
<1>7. CASE Siem!Restart
  <2>1. /\ UNCHANGED <<alertSev, committed, saved, syslog, excused>>
        /\ batch' = <<>> /\ polled' = FALSE /\ sentSince' = {} /\ (lastId' = saved \/ lastId' = 0)
    BY <1>7 DEF Siem!Restart
  <2>2. batch' \in Seq(Ids) /\ Len(batch') = 0 /\ Cardinality(sentSince') = 0
    BY <2>1, FS_EmptySet
  <2>8. lastId' \in 0..Len(alertSev) /\ syslog' \in Seq(Nat) /\ sentSince' \subseteq 1..lastId'
    BY <1>0, <2>1 DEF SiemTypes
  <2>9. alertSev' \in Seq(Severities) /\ committed' \subseteq Ids' /\ batch' \in Seq(Ids') /\ saved' \in 0..Len(alertSev)
    BY <2>1, <2>2 DEF SiemTypes, Ids
  <2>3. SiemTypes' /\ BatchInOrder'
    <3>1. Len(alertSev') = Len(alertSev) /\ polled' \in BOOLEAN
      BY <2>1
    <3>2. SiemTypes'
      BY <2>8, <2>9, <3>1 DEF SiemTypes
    <3>3. BatchInOrder'
      BY <2>2 DEF BatchInOrder
    <3> QED
      BY <3>2, <3>3
  <2>4. Since' = {}
    BY <1>0, <2>1, <2>2 DEF Since
  <2>5. SentInOrder'
    BY <1>0, <2>1, <2>2, <2>4 DEF SentInOrder
  <2>6. \A id \in Siem!Wanted : id > 0 /\ id \in Nat
    BY <1>0 DEF Ids
  <2>7. NothingMissed'
    BY <2>1, <2>2, <2>6 DEF NothingMissed, Forwards, Siem!Wanted
  <2> QED
    BY <2>3, <2>5, <2>7
<1> QED
  BY <1>1, <1>2, <1>3, <1>4, <1>5, <1>6, <1>7 DEF Siem!Next

(* Whatever fails, the forwarder sends no alert twice between two restarts and misses  *)
(* none but those that were committed late or crowded out of the listing.              *)
THEOREM ForwardedOnceHolds == Siem!Spec => []Siem!ForwardedOnce
<1>1. Siem!Init => SiemTypes /\ SentInOrder /\ BatchInOrder /\ NothingMissed
  <2> SUFFICES ASSUME Siem!Init PROVE SiemTypes /\ SentInOrder /\ BatchInOrder /\ NothingMissed
    OBVIOUS
  <2>1. /\ alertSev = <<>> /\ committed = {} /\ batch = <<>> /\ polled = FALSE
        /\ lastId = 0 /\ saved = 0 /\ syslog = <<>> /\ sentSince = {}
    BY DEF Siem!Init
  <2>2. Ids = {} /\ Len(syslog) = 0 /\ Len(batch) = 0 /\ Cardinality(sentSince) = 0
    BY <2>1, FS_EmptySet DEF Ids
  <2>3. SiemTypes
    <3>1. alertSev \in Seq(Severities) /\ Len(alertSev) = 0 /\ batch \in Seq(Ids) /\ syslog \in Seq(Nat)
      BY <2>1
    <3>2. lastId \in 0..Len(alertSev) /\ saved \in 0..Len(alertSev) /\ sentSince \subseteq 1..lastId
      BY <2>1, <3>1
    <3>3. committed \subseteq Ids /\ polled \in BOOLEAN
      BY <2>1
    <3> QED
      BY <3>1, <3>2, <3>3 DEF SiemTypes
  <2>4. Since = {} /\ Siem!Wanted = {}
    BY <2>1, <2>2 DEF Since, Siem!Wanted
  <2> QED
    BY <2>2, <2>3, <2>4 DEF SentInOrder, BatchInOrder, NothingMissed
<1>2. SiemTypes /\ SentInOrder /\ BatchInOrder /\ NothingMissed /\ [Siem!Next]_(Siem!forwardVars)
      => (SiemTypes /\ SentInOrder /\ BatchInOrder /\ NothingMissed)'
  BY SiemKeeps
<1>3. SentInOrder /\ NothingMissed => Siem!ForwardedOnce
  BY SiemLibrary DEF SentInOrder, NothingMissed, Forwards, Since, Siem!ForwardedOnce
<1> QED
  BY <1>1, <1>2, <1>3, PTL DEF Siem!Spec

-----------------------------------------------------------------------------
(* Drift: the windows of flow features.                                      *)

Stages == {"idle", "add", "compare", "record"}
DriftTypes ==
    /\ closed \in Seq(Nat) /\ lastLevel \in Nat /\ counted \in Nat /\ overtaken \in BOOLEAN
    /\ DOMAIN observing = DriftWorkers
    /\ \A w \in DriftWorkers :
        /\ DOMAIN observing[w] = {"stage", "vector", "index", "worse"}
        /\ observing[w].stage \in Stages /\ observing[w].index \in Nat
        /\ w \in Drift!InHand => observing[w].index \in 1..Len(closed)
    /\ window.n \in Nat

LEMMA DriftTypesInit == Drift!Init => DriftTypes
<1> SUFFICES ASSUME Drift!Init PROVE DriftTypes
  OBVIOUS
<1>1. closed = <<>> /\ window.n = 0 /\ overtaken = FALSE /\ lastLevel = 0 /\ counted = 0
  BY DEF Drift!Init, Drift!EmptyWindow
<1>2. closed \in Seq(Nat)
  BY <1>1
<1>3. /\ DOMAIN observing = DriftWorkers
      /\ \A w \in DriftWorkers :
          /\ DOMAIN observing[w] = {"stage", "vector", "index", "worse"}
          /\ observing[w].stage = "idle" /\ observing[w].index = 0
  BY DEF Drift!Init, Drift!Waiting
<1>4. overtaken \in BOOLEAN /\ lastLevel \in Nat /\ counted \in Nat /\ window.n \in Nat
  <2>1. overtaken \in BOOLEAN
    BY <1>1
  <2>2. lastLevel \in Nat /\ counted \in Nat /\ window.n \in Nat
    BY <1>1
  <2> QED
    BY <2>1, <2>2
<1>5. \A w \in DriftWorkers :
        observing[w].stage \in Stages /\ observing[w].index \in Nat /\ w \notin Drift!InHand
  BY <1>3 DEF Drift!InHand, Stages
<1> QED
  BY <1>2, <1>3, <1>4, <1>5 DEF DriftTypes

(* What a worker that adds a vector does: the window closes, or it does not.           *)
LEMMA AddCases ==
    ASSUME DriftTypes, NEW w \in DriftWorkers, Drift!Add(w)
    PROVE  /\ observing[w].stage = "add" /\ counted' = counted + 1
           /\ UNCHANGED <<lastLevel, notified>>
           /\ \/ /\ window.n + 1 < WindowFlows /\ window'.n = window.n + 1 /\ closed' = closed
                 /\ observing' = [observing EXCEPT ![w] = Drift!Waiting] /\ overtaken' = overtaken
              \/ /\ window.n + 1 >= WindowFlows /\ window' = Drift!EmptyWindow
                 /\ \E v \in Nat : closed' = Append(closed, v)
                 /\ observing' = [observing EXCEPT ![w] = [Drift!Waiting EXCEPT !.stage = "compare", !.index = Len(closed) + 1]]
                 /\ overtaken' = (overtaken \/ Drift!InHand # {})
<1> DEFINE win == [n |-> window.n + 1, sum |-> [f \in Drift!Features |-> window.sum[f] + observing[w].vector[f]]]
<1>1. win.n = window.n + 1 /\ Drift!Verdict(win) \in Nat
  BY DEF Drift!Verdict
<1>2. observing[w].stage = "add" /\ counted' = counted + 1 /\ UNCHANGED <<lastLevel, notified>>
  BY DEF Drift!Add
<1> HIDE DEF win
<1>3. /\ window' = IF win.n >= WindowFlows THEN Drift!EmptyWindow ELSE win
      /\ closed' = IF win.n >= WindowFlows THEN Append(closed, Drift!Verdict(win)) ELSE closed
      /\ observing' = [observing EXCEPT ![w] =
             IF win.n >= WindowFlows THEN [Drift!Waiting EXCEPT !.stage = "compare", !.index = Len(closed) + 1]
                                     ELSE Drift!Waiting]
      /\ overtaken' = (overtaken \/ (win.n >= WindowFlows /\ Drift!InHand # {}))
  BY DEF Drift!Add, Drift!Reset, win
<1>4. CASE win.n >= WindowFlows
  BY <1>1, <1>2, <1>3, <1>4
<1>5. CASE ~(win.n >= WindowFlows)
  <2>1. window.n + 1 < WindowFlows
    BY <1>1, <1>5, DriftAssumption DEF DriftTypes
  <2> QED
    BY <1>1, <1>2, <1>3, <1>5, <2>1 DEF DriftTypes
<1> QED
  BY <1>4, <1>5

(* The stages of the other workers stay what they are.                                 *)
LEMMA OthersStay ==
    ASSUME DriftTypes, NEW w \in DriftWorkers, NEW o \in DriftWorkers, o # w,
           \/ \E v \in Vectors : Drift!Observe(w, v)
           \/ Drift!Add(w) \/ Drift!Compare(w) \/ Drift!Record(w)
    PROVE  observing'[o] = observing[o]
BY AddCases DEF Drift!Observe, Drift!Compare, Drift!Record, DriftTypes

LEMMA CompareDoes ==
    ASSUME DriftTypes, NEW w \in DriftWorkers, Drift!Compare(w)
    PROVE  /\ observing'[w].stage = "record" /\ observing'[w].index = observing[w].index
           /\ observing'[w].worse <=> closed[observing[w].index] > lastLevel
           /\ DOMAIN observing'[w] = DOMAIN observing[w] /\ DOMAIN observing' = DriftWorkers
<1>1. observing' = [observing EXCEPT ![w].stage = "record", ![w].worse = closed[observing[w].index] > lastLevel]
  BY DEF Drift!Compare
<1>2. /\ DOMAIN observing' = DriftWorkers
      /\ observing'[w] = [observing[w] EXCEPT !.stage = "record", !.worse = closed[observing[w].index] > lastLevel]
  BY <1>1 DEF DriftTypes
<1> QED
  BY <1>2 DEF DriftTypes

LEMMA DriftTypesStep ==
    ASSUME DriftTypes, [Drift!Next]_(Drift!driftVars)
    PROVE  DriftTypes'
<1>1. CASE UNCHANGED Drift!driftVars \/ Drift!EngineLoads \/ Drift!Status
  BY <1>1 DEF Drift!driftVars, Drift!EngineLoads, Drift!Status, DriftTypes, Drift!InHand
<1>2. ASSUME NEW w \in DriftWorkers, NEW v \in Vectors, Drift!Observe(w, v)
      PROVE  DriftTypes'
  <2>1. UNCHANGED <<window, lastLevel, closed, counted, overtaken>>
    BY <1>2 DEF Drift!Observe
  <2>2. CASE observing' = observing
    BY <2>1, <2>2 DEF DriftTypes, Drift!InHand
  <2>3. CASE observing' = [observing EXCEPT ![w] = [Drift!Waiting EXCEPT !.stage = "add", !.vector = v]]
    BY <2>1, <2>3 DEF DriftTypes, Drift!InHand, Drift!Waiting, Stages
  <2> QED
    BY <1>2, <2>2, <2>3 DEF Drift!Observe
<1>3. ASSUME NEW w \in DriftWorkers, Drift!Add(w)
      PROVE  DriftTypes'
  <2>1. counted' \in Nat /\ lastLevel' \in Nat /\ Len(closed) \in Nat
    BY <1>3, AddCases DEF DriftTypes
  <2>2. CASE window'.n = window.n + 1 /\ closed' = closed /\ overtaken' = overtaken
             /\ observing' = [observing EXCEPT ![w] = Drift!Waiting]
    BY <2>1, <2>2 DEF Drift!Waiting, DriftTypes, Drift!InHand, Stages
  <2>3. ASSUME window' = Drift!EmptyWindow, NEW v \in Nat, closed' = Append(closed, v),
               observing' = [observing EXCEPT ![w] = [Drift!Waiting EXCEPT !.stage = "compare", !.index = Len(closed) + 1]],
               overtaken' = (overtaken \/ Drift!InHand # {})
        PROVE  DriftTypes'
    <3>1. window'.n = 0 /\ overtaken' \in BOOLEAN
      BY <2>3 DEF Drift!EmptyWindow
    <3>2. closed' \in Seq(Nat) /\ Len(closed') = Len(closed) + 1
      BY <2>3 DEF DriftTypes
    <3>3. /\ DOMAIN observing' = DriftWorkers
          /\ DOMAIN observing'[w] = {"stage", "vector", "index", "worse"}
          /\ observing'[w].stage = "compare" /\ observing'[w].index = Len(closed) + 1
      BY <2>3 DEF Drift!Waiting, DriftTypes
    <3>4. \A o \in DriftWorkers : o # w => observing'[o] = observing[o]
      BY <1>3, OthersStay
    <3>5. ASSUME NEW o \in DriftWorkers
          PROVE  /\ DOMAIN observing'[o] = {"stage", "vector", "index", "worse"}
                 /\ observing'[o].stage \in Stages /\ observing'[o].index \in Nat
                 /\ o \in Drift!InHand' => observing'[o].index \in 1..Len(closed')
      <4>1. CASE o = w
        BY <2>1, <3>2, <3>3, <4>1 DEF Stages
      <4>2. CASE o # w
        <5>1. observing'[o] = observing[o] /\ (o \in Drift!InHand' => o \in Drift!InHand)
          BY <3>4, <4>2 DEF Drift!InHand
        <5> QED
          BY <2>1, <3>2, <5>1 DEF DriftTypes
      <4> QED
        BY <4>1, <4>2
    <3> QED
      BY <2>1, <3>1, <3>2, <3>3, <3>5 DEF DriftTypes
  <2> QED
    BY <1>3, AddCases, <2>2, <2>3
<1>4. ASSUME NEW w \in DriftWorkers, Drift!Compare(w)
      PROVE  DriftTypes'
  <2>1. UNCHANGED <<window, lastLevel, closed, counted, overtaken>> /\ observing[w].stage = "compare"
    BY <1>4 DEF Drift!Compare
  <2>2. \A o \in DriftWorkers : o # w => observing'[o] = observing[o]
    BY <1>4, OthersStay
  <2> QED
    BY <1>4, <2>1, <2>2, CompareDoes DEF DriftTypes, Drift!InHand, Stages
<1>5. ASSUME NEW w \in DriftWorkers, Drift!Record(w)
      PROVE  DriftTypes'
  <2>1. /\ UNCHANGED <<window, closed, counted, overtaken>> /\ lastLevel' = closed[observing[w].index]
        /\ observing' = [observing EXCEPT ![w] = Drift!Waiting] /\ w \in Drift!InHand
    BY <1>5 DEF Drift!Record, Drift!InHand
  <2>2. lastLevel' \in Nat
    BY <2>1 DEF DriftTypes
  <2> QED
    BY <2>1, <2>2 DEF DriftTypes, Drift!InHand, Drift!Waiting, Stages
<1> QED
  BY <1>1, <1>2, <1>3, <1>4, <1>5 DEF Drift!Next, Drift!WorkerNext

(* Every flow counts in exactly one window, and a window closes exactly when it is     *)
(* full, whatever the workers do at the same time.                                     *)
THEOREM WindowsAreTumblingHolds == Drift!Spec => []Drift!WindowsAreTumbling
<1>1. Drift!Init => DriftTypes /\ Drift!WindowsAreTumbling
  <2> SUFFICES ASSUME Drift!Init PROVE Drift!WindowsAreTumbling
    BY DriftTypesInit
  <2>1. window.n = 0 /\ window.sum = [f \in Drift!Features |-> 0] /\ counted = 0 /\ Len(closed) = 0
    BY DEF Drift!Init, Drift!EmptyWindow
  <2> QED
    BY <2>1, DriftAssumption DEF Drift!WindowsAreTumbling
<1>2. DriftTypes /\ Drift!WindowsAreTumbling /\ [Drift!Next]_(Drift!driftVars)
      => (DriftTypes /\ Drift!WindowsAreTumbling)'
  <2> SUFFICES ASSUME DriftTypes, Drift!WindowsAreTumbling, [Drift!Next]_(Drift!driftVars)
               PROVE  Drift!WindowsAreTumbling'
    BY DriftTypesStep
  <2>1. CASE UNCHANGED <<counted, window, closed>>
    BY <2>1 DEF Drift!WindowsAreTumbling
  <2>2. ASSUME NEW w \in DriftWorkers, Drift!Add(w)
        PROVE  Drift!WindowsAreTumbling'
    <3>1. counted' = counted + 1 /\ window.n \in Nat /\ Len(closed) \in Nat /\ WindowFlows \in Nat \ {0}
      BY <2>2, AddCases, DriftAssumption DEF DriftTypes
    <3>2. counted = WindowFlows * Len(closed) + window.n /\ window.n < WindowFlows
      BY DEF Drift!WindowsAreTumbling
    <3>3. CASE window.n + 1 < WindowFlows /\ window'.n = window.n + 1 /\ closed' = closed
      <4>1. counted' = WindowFlows * Len(closed') + window'.n
        BY <3>1, <3>2, <3>3
      <4> QED
        BY <3>1, <3>3, <4>1 DEF Drift!WindowsAreTumbling
    <3>4. ASSUME window.n + 1 >= WindowFlows, window' = Drift!EmptyWindow, NEW v \in Nat, closed' = Append(closed, v)
          PROVE  Drift!WindowsAreTumbling'
      <4>1. window'.n = 0 /\ window'.sum = [f \in Drift!Features |-> 0]
        BY <3>4 DEF Drift!EmptyWindow
      <4>2. Len(closed') = Len(closed) + 1
        BY <3>4 DEF DriftTypes
      <4>3. window.n + 1 = WindowFlows
        BY <3>1, <3>2, <3>4
      <4>4. WindowFlows * (Len(closed) + 1) = WindowFlows * Len(closed) + WindowFlows
        BY <3>1
      <4>5. counted' = WindowFlows * Len(closed') + 0
        BY <3>1, <3>2, <4>2, <4>3, <4>4
      <4> QED
        BY <3>1, <4>1, <4>5 DEF Drift!WindowsAreTumbling
    <3> QED
      BY <2>2, AddCases, <3>3, <3>4
  <2> QED
    BY <2>1, <2>2 DEF Drift!Next, Drift!WorkerNext, Drift!driftVars, Drift!EngineLoads, Drift!Status,
                      Drift!Observe, Drift!Compare, Drift!Record
<1> QED
  BY <1>1, <1>2, PTL DEF Drift!Spec

-----------------------------------------------------------------------------

(* The verdict of the n-th window; nominal before the first.                           *)
Level(n) == IF n = 0 THEN 0 ELSE closed[n]

(* Nobody notifies a nominal window.                                                   *)
OnlyWorse ==
    /\ \A i \in notified : i \in 1..Len(closed) /\ closed[i] > 0
    /\ \A w \in DriftWorkers :
        observing[w].stage = "record" /\ observing[w].worse => closed[observing[w].index] > 0

(* Unless workers overtook each other, at most one window, the last, is in hand.       *)
InTurn ==
    ~overtaken =>
    /\ \A v, w \in Drift!InHand : v = w
    /\ Drift!InHand = {} => lastLevel = Level(Len(closed)) /\ notified = Drift!Worsened
    /\ \A w \in Drift!InHand :
        /\ observing[w].index = Len(closed) /\ Len(closed) > 0
        /\ lastLevel = Level(Len(closed) - 1) /\ notified = Drift!Worsened \ {Len(closed)}
        /\ observing[w].stage = "record" => (observing[w].worse <=> closed[Len(closed)] > lastLevel)

LEMMA WorsenedIs ==
    ASSUME DriftTypes
    PROVE  /\ Drift!Worsened = {i \in 1..Len(closed) : closed[i] > Level(i - 1)}
           /\ \A i \in 1..Len(closed) : closed[i] \in Nat /\ Level(i - 1) \in Nat /\ Level(i) \in Nat
           /\ Len(closed) \in Nat
<1>1. DOMAIN closed = 1..Len(closed) /\ Len(closed) \in Nat /\ \A i \in 1..Len(closed) : closed[i] \in Nat
  BY DEF DriftTypes
<1>2. \A i \in 1..Len(closed) : Level(i - 1) = IF i = 1 THEN 0 ELSE closed[i - 1]
  BY <1>1 DEF Level
<1>3. \A i \in 1..Len(closed) : Level(i) \in Nat
  BY <1>1 DEF Level
<1>4. \A i \in 1..Len(closed) : Level(i - 1) \in Nat
  <2>1. \A i \in 1..Len(closed) : i = 1 \/ i - 1 \in 1..Len(closed)
    BY <1>1
  <2> QED
    BY <1>1, <1>2, <2>1
<1> QED
  BY <1>1, <1>2, <1>3, <1>4 DEF Drift!Worsened

LEMMA InTurnStep ==
    ASSUME DriftTypes, DriftTypes', OnlyWorse, InTurn, [Drift!Next]_(Drift!driftVars)
    PROVE  OnlyWorse' /\ InTurn'
<1>1. CASE UNCHANGED Drift!driftVars \/ Drift!EngineLoads \/ Drift!Status
  BY <1>1 DEF Drift!driftVars, Drift!EngineLoads, Drift!Status, OnlyWorse, InTurn, Drift!InHand, Drift!Worsened, Level
<1>2. ASSUME NEW w \in DriftWorkers, NEW v \in Vectors, Drift!Observe(w, v)
      PROVE  OnlyWorse' /\ InTurn'
  <2>1. UNCHANGED <<lastLevel, closed, notified, overtaken>>
    BY <1>2 DEF Drift!Observe
  <2>2. observing[w].stage = "idle" /\ observing'[w].stage \in {"idle", "add"}
    BY <1>2 DEF Drift!Observe, Drift!Waiting, DriftTypes
  <2>3. \A o \in DriftWorkers : o # w => observing'[o] = observing[o]
    BY <1>2, OthersStay
  <2>4. Drift!InHand' = Drift!InHand /\ w \notin Drift!InHand
    BY <2>2, <2>3 DEF Drift!InHand
  <2>5. \A o \in Drift!InHand : observing'[o] = observing[o]
    BY <2>3, <2>4 DEF Drift!InHand
  <2>6. Drift!Worsened' = Drift!Worsened
    BY <2>1 DEF Drift!Worsened
  <2>7. OnlyWorse'
    BY <2>1, <2>2, <2>3 DEF OnlyWorse
  <2>8. InTurn'
    BY <2>1, <2>4, <2>5, <2>6 DEF InTurn, Level
  <2> QED
    BY <2>7, <2>8
<1>3. ASSUME NEW w \in DriftWorkers, Drift!Add(w)
      PROVE  OnlyWorse' /\ InTurn'
  <2>0. observing[w].stage = "add" /\ UNCHANGED <<lastLevel, notified>>
    BY <1>3, AddCases
  <2>1. \A o \in DriftWorkers : o # w => observing'[o] = observing[o]
    BY <1>3, OthersStay
  <2>2. CASE closed' = closed /\ observing' = [observing EXCEPT ![w] = Drift!Waiting] /\ overtaken' = overtaken
    <3>1. observing'[w].stage = "idle"
      BY <2>2 DEF Drift!Waiting, DriftTypes
    <3>2. Drift!InHand' = Drift!InHand /\ w \notin Drift!InHand
      BY <2>0, <2>1, <3>1 DEF Drift!InHand
    <3>3. \A o \in Drift!InHand : observing'[o] = observing[o]
      BY <2>1, <3>2 DEF Drift!InHand
    <3>4. Drift!Worsened' = Drift!Worsened
      BY <2>2 DEF Drift!Worsened
    <3>5. OnlyWorse'
      BY <2>0, <2>1, <2>2, <3>1 DEF OnlyWorse
    <3>6. InTurn'
      BY <2>0, <2>2, <3>2, <3>3, <3>4 DEF InTurn, Level
    <3> QED
      BY <3>5, <3>6
  <2>3. ASSUME NEW v \in Nat, closed' = Append(closed, v),
               observing' = [observing EXCEPT ![w] = [Drift!Waiting EXCEPT !.stage = "compare", !.index = Len(closed) + 1]],
               overtaken' = (overtaken \/ Drift!InHand # {})
        PROVE  OnlyWorse' /\ InTurn'
    <3>1. observing'[w].stage = "compare" /\ observing'[w].index = Len(closed) + 1
      BY <2>3 DEF Drift!Waiting, DriftTypes
    <3>2. /\ Len(closed) \in Nat /\ Len(closed') = Len(closed) + 1 /\ closed'[Len(closed')] = v
          /\ \A i \in 1..Len(closed) : closed'[i] = closed[i]
      BY <2>3 DEF DriftTypes
    <3>3. OnlyWorse'
      <4>1. \A o \in DriftWorkers : observing'[o].stage = "record" => o \in Drift!InHand /\ observing'[o] = observing[o]
        BY <2>1, <3>1 DEF Drift!InHand
      <4>2. \A o \in DriftWorkers : observing'[o].stage = "record" /\ observing'[o].worse => closed'[observing'[o].index] > 0
        BY <3>2, <4>1 DEF OnlyWorse, DriftTypes
      <4>3. \A i \in notified' : i \in 1..Len(closed') /\ closed'[i] > 0
        BY <2>0, <3>2 DEF OnlyWorse
      <4> QED
        BY <4>2, <4>3 DEF OnlyWorse
    <3>4. ASSUME ~overtaken'
          PROVE  /\ Drift!InHand' = {w} /\ lastLevel' = Level(Len(closed) - 1)'
                 /\ notified' = Drift!Worsened' \ {Len(closed')}
      <4>1. ~overtaken /\ Drift!InHand = {}
        BY <2>3, <3>4 DEF DriftTypes
      <4>2. Drift!InHand' = {w}
        BY <2>1, <3>1, <4>1 DEF Drift!InHand
      <4>3. lastLevel = Level(Len(closed)) /\ notified = Drift!Worsened
        BY <4>1 DEF InTurn
      <4>4. \A n \in 0..Len(closed) : Level(n)' = Level(n)
        BY <3>2 DEF Level
      <4>5. Level(Len(closed) - 1)' = Level(Len(closed))
        <5>1. Len(closed') - 1 = Len(closed) /\ Len(closed) \in 0..Len(closed)
          BY <3>2
        <5>2. (Len(closed') - 1 = 0 <=> Len(closed) = 0) /\ (Len(closed) # 0 => Len(closed) \in 1..Len(closed))
          BY <3>2
        <5> QED
          BY <3>2, <5>1, <5>2 DEF Level
      <4>6. Drift!Worsened' \ {Len(closed')} = Drift!Worsened
        <5>1. Drift!Worsened' = {i \in 1..Len(closed') : closed'[i] > Level(i - 1)'}
          <6>1. DOMAIN closed' = 1..Len(closed')
            BY DEF DriftTypes
          <6>2. \A i \in 1..Len(closed') : Level(i - 1)' = IF i = 1 THEN 0 ELSE closed'[i - 1]
            BY <3>2 DEF Level
          <6> QED
            BY <6>1, <6>2 DEF Drift!Worsened
        <5>2. \A i \in 1..Len(closed) : i - 1 \in 0..Len(closed) /\ closed'[i] = closed[i] /\ i # Len(closed')
          BY <3>2
        <5>3. 1..Len(closed') = 1..Len(closed) \cup {Len(closed')}
          BY <3>2
        <5> QED
          BY <4>4, <5>1, <5>2, <5>3, WorsenedIs
      <4> QED
        BY <2>0, <4>2, <4>3, <4>5, <4>6
    <3>5. InTurn'
      <4>1. observing'[w].index = Len(closed') /\ Len(closed') > 0 /\ observing'[w].stage # "record"
        BY <3>1, <3>2
      <4>2. ASSUME ~overtaken', NEW o \in Drift!InHand'
            PROVE  /\ o = w /\ observing'[o].index = Len(closed') /\ Len(closed') > 0
                   /\ lastLevel' = Level(Len(closed) - 1)' /\ notified' = Drift!Worsened' \ {Len(closed')}
                   /\ observing'[o].stage # "record"
        BY <3>4, <4>1, <4>2
      <4>3. ~overtaken' => Drift!InHand' # {}
        BY <3>4
      <4> QED
        BY <4>2, <4>3 DEF InTurn
    <3> QED
      BY <3>3, <3>5
  <2> QED
    BY <1>3, AddCases, <2>2, <2>3
<1>4. ASSUME NEW w \in DriftWorkers, Drift!Compare(w)
      PROVE  OnlyWorse' /\ InTurn'
  <2>1. UNCHANGED <<lastLevel, closed, notified, overtaken>> /\ observing[w].stage = "compare"
    BY <1>4 DEF Drift!Compare
  <2>2. \A o \in DriftWorkers : o # w => observing'[o] = observing[o]
    BY <1>4, OthersStay
  <2>3. /\ observing'[w].stage = "record" /\ observing'[w].index = observing[w].index
        /\ observing'[w].worse <=> closed[observing[w].index] > lastLevel
    BY <1>4, CompareDoes
  <2>4. Drift!InHand' = Drift!InHand /\ w \in Drift!InHand
    BY <2>1, <2>2, <2>3 DEF Drift!InHand
  <2>5. closed[observing[w].index] \in Nat /\ lastLevel \in Nat
    BY <2>4, WorsenedIs DEF DriftTypes
  <2>6. OnlyWorse'
    BY <2>1, <2>2, <2>3, <2>5 DEF OnlyWorse
  <2>7. Drift!Worsened' = Drift!Worsened
    BY <2>1 DEF Drift!Worsened
  <2>8. ASSUME ~overtaken
        PROVE  /\ \A o \in Drift!InHand : o = w
               /\ observing[w].index = Len(closed) /\ Len(closed) > 0 /\ lastLevel = Level(Len(closed) - 1)
               /\ notified = Drift!Worsened \ {Len(closed)}
    BY <2>4, <2>8 DEF InTurn
  <2>9. InTurn'
    BY <2>1, <2>3, <2>4, <2>7, <2>8 DEF InTurn, Level
  <2> QED
    BY <2>6, <2>9
<1>5. ASSUME NEW w \in DriftWorkers, Drift!Record(w)
      PROVE  OnlyWorse' /\ InTurn'
  <2> DEFINE k == observing[w].index
  <2>1. /\ UNCHANGED <<closed, overtaken>> /\ lastLevel' = closed[k] /\ observing[w].stage = "record"
        /\ notified' = IF observing[w].worse THEN notified \cup {k} ELSE notified
        /\ observing' = [observing EXCEPT ![w] = Drift!Waiting]
    BY <1>5 DEF Drift!Record
  <2>2. observing'[w].stage = "idle" /\ \A o \in DriftWorkers : o # w => observing'[o] = observing[o]
    BY <2>1 DEF Drift!Waiting, DriftTypes
  <2>3. w \in Drift!InHand /\ Drift!InHand' = Drift!InHand \ {w}
    BY <2>1, <2>2 DEF Drift!InHand
  <2>4. k \in 1..Len(closed) /\ (observing[w].worse => closed[k] > 0)
    BY <2>1, <2>3 DEF OnlyWorse, DriftTypes
  <2>5. OnlyWorse'
    BY <2>1, <2>2, <2>4 DEF OnlyWorse
  <2>6. Drift!Worsened' = Drift!Worsened
    BY <2>1 DEF Drift!Worsened
  <2>7. ASSUME ~overtaken'
        PROVE  Drift!InHand' = {} /\ lastLevel' = Level(Len(closed))' /\ notified' = Drift!Worsened'
    <3>1. /\ \A o \in Drift!InHand : o = w
          /\ k = Len(closed) /\ Len(closed) > 0 /\ lastLevel = Level(Len(closed) - 1)
          /\ notified = Drift!Worsened \ {Len(closed)}
          /\ observing[w].worse <=> closed[Len(closed)] > lastLevel
      BY <2>1, <2>3, <2>7 DEF InTurn
    <3>2. observing[w].worse <=> Len(closed) \in Drift!Worsened
      BY <2>4, <3>1, WorsenedIs
    <3>3. lastLevel' = Level(Len(closed))'
      BY <2>1, <3>1, WorsenedIs DEF Level
    <3>4. notified' = Drift!Worsened
      BY <2>1, <3>1, <3>2
    <3> QED
      BY <2>3, <2>6, <3>1, <3>3, <3>4
  <2>8. InTurn'
    BY <2>7 DEF InTurn
  <2> QED
    BY <2>5, <2>8
<1> QED
  BY <1>1, <1>2, <1>3, <1>4, <1>5 DEF Drift!Next, Drift!WorkerNext

(* Whatever is as bad as the last level, or as a window that is no longer in hand, has *)
(* been notified.                                                                      *)
Known ==
    /\ Drift!AsBadNotified(lastLevel)
    /\ \A w \in DriftWorkers : observing[w].stage = "record" /\ ~observing[w].worse
                              => Drift!AsBadNotified(closed[observing[w].index])
    /\ \A i \in 1..Len(closed) :
         Drift!AsBadNotified(closed[i]) \/ \E w \in Drift!InHand : observing[w].index = i

LEMMA KnownStep ==
    ASSUME DriftTypes, DriftTypes', OnlyWorse, Known, [Drift!Next]_(Drift!driftVars)
    PROVE  Known'
<1>1. CASE UNCHANGED Drift!driftVars \/ Drift!EngineLoads \/ Drift!Status
  BY <1>1 DEF Drift!driftVars, Drift!EngineLoads, Drift!Status, Known, Drift!InHand, Drift!AsBadNotified
<1>2. ASSUME NEW w \in DriftWorkers, UNCHANGED <<lastLevel, closed, notified>>,
             \A o \in DriftWorkers : o # w => observing'[o] = observing[o],
             w \in Drift!InHand => w \in Drift!InHand' /\ observing'[w].index = observing[w].index,
             observing'[w].stage = "record" /\ ~observing'[w].worse => Drift!AsBadNotified(closed[observing'[w].index])
      PROVE  Known'
  <2>1. \A o \in Drift!InHand : o \in Drift!InHand' /\ observing'[o].index = observing[o].index
    BY <1>2 DEF Drift!InHand
  <2>2. \A o \in DriftWorkers : observing'[o].stage = "record" /\ ~observing'[o].worse
                                 => Drift!AsBadNotified(closed[observing'[o].index])
    BY <1>2 DEF Known
  <2> QED
    BY <1>2, <2>1, <2>2 DEF Known, Drift!AsBadNotified
<1>3. ASSUME NEW w \in DriftWorkers, NEW v \in Vectors, Drift!Observe(w, v)
      PROVE  Known'
  <2>1. UNCHANGED <<lastLevel, closed, notified>>
    BY <1>3 DEF Drift!Observe
  <2>2. observing[w].stage = "idle" /\ observing'[w].stage \in {"idle", "add"}
    BY <1>3 DEF Drift!Observe, Drift!Waiting, DriftTypes
  <2>3. \A o \in DriftWorkers : o # w => observing'[o] = observing[o]
    BY <1>3, OthersStay
  <2>4. w \notin Drift!InHand
    BY <2>2 DEF Drift!InHand
  <2> QED
    BY <1>2, <2>1, <2>2, <2>3, <2>4
<1>4. ASSUME NEW w \in DriftWorkers, Drift!Compare(w)
      PROVE  Known'
  <2> DEFINE k == observing[w].index
  <2>1. UNCHANGED <<lastLevel, closed, notified>> /\ observing[w].stage = "compare"
    BY <1>4 DEF Drift!Compare
  <2>2. \A o \in DriftWorkers : o # w => observing'[o] = observing[o]
    BY <1>4, OthersStay
  <2>3. observing'[w].stage = "record" /\ observing'[w].index = k /\ (observing'[w].worse <=> closed[k] > lastLevel)
    BY <1>4, CompareDoes
  <2>4. w \in Drift!InHand /\ w \in Drift!InHand'
    BY <2>1, <2>3 DEF Drift!InHand
  <2>5. closed[k] \in Nat /\ lastLevel \in Nat /\ \A i \in notified : closed[i] \in Nat
    BY <2>4, WorsenedIs DEF DriftTypes, OnlyWorse
  <2>6. closed[k] <= lastLevel => Drift!AsBadNotified(closed[k])
    BY <2>5 DEF Known, Drift!AsBadNotified
  <2> QED
    BY <1>2, <2>1, <2>2, <2>3, <2>4, <2>5, <2>6
<1>5. ASSUME NEW w \in DriftWorkers, Drift!Add(w)
      PROVE  Known'
  <2>0. observing[w].stage = "add" /\ UNCHANGED <<lastLevel, notified>>
    BY <1>5, AddCases
  <2>1. \A o \in DriftWorkers : o # w => observing'[o] = observing[o]
    BY <1>5, OthersStay
  <2>2. w \notin Drift!InHand
    BY <2>0 DEF Drift!InHand
  <2>3. CASE closed' = closed /\ observing' = [observing EXCEPT ![w] = Drift!Waiting]
    <3>1. observing'[w].stage = "idle"
      BY <2>3 DEF Drift!Waiting, DriftTypes
    <3> QED
      BY <1>2, <2>0, <2>1, <2>2, <2>3, <3>1
  <2>4. ASSUME NEW v \in Nat, closed' = Append(closed, v),
               observing' = [observing EXCEPT ![w] = [Drift!Waiting EXCEPT !.stage = "compare", !.index = Len(closed) + 1]]
        PROVE  Known'
    <3>1. observing'[w].stage = "compare" /\ observing'[w].index = Len(closed) + 1 /\ w \in Drift!InHand'
      BY <2>4 DEF Drift!Waiting, DriftTypes, Drift!InHand
    <3>2. /\ Len(closed) \in Nat /\ Len(closed') = Len(closed) + 1
          /\ \A i \in 1..Len(closed) : closed'[i] = closed[i]
      BY <2>4 DEF DriftTypes
    <3>3. \A o \in Drift!InHand : o \in Drift!InHand' /\ observing'[o] = observing[o] /\ observing[o].index \in 1..Len(closed)
      BY <2>1, <2>2 DEF Drift!InHand, DriftTypes
    <3>5. Drift!AsBadNotified(lastLevel)'
      BY <2>0, <3>2 DEF Known, OnlyWorse, Drift!AsBadNotified
    <3>6. ASSUME NEW o \in DriftWorkers, observing'[o].stage = "record", ~observing'[o].worse
          PROVE  Drift!AsBadNotified(closed[observing[o].index])'
      <4>1. o # w /\ observing'[o] = observing[o] /\ o \in Drift!InHand
        BY <2>1, <3>1, <3>6 DEF Drift!InHand
      <4>2. Drift!AsBadNotified(closed[observing[o].index]) /\ closed'[observing'[o].index] = closed[observing[o].index]
        BY <3>2, <3>3, <3>6, <4>1 DEF Known
      <4> QED
        BY <2>0, <3>2, <4>2 DEF OnlyWorse, Drift!AsBadNotified
    <3>7. ASSUME NEW i \in 1..Len(closed')
          PROVE  Drift!AsBadNotified(closed[i])' \/ \E o \in Drift!InHand' : observing'[o].index = i
      <4>1. CASE i = Len(closed) + 1
        BY <3>1, <4>1
      <4>2. CASE i # Len(closed) + 1
        <5>1. i \in 1..Len(closed) /\ closed'[i] = closed[i]
          BY <3>2, <4>2
        <5>2. CASE Drift!AsBadNotified(closed[i])
          BY <2>0, <3>2, <5>1, <5>2 DEF OnlyWorse, Drift!AsBadNotified
        <5>3. CASE \E o \in Drift!InHand : observing[o].index = i
          BY <3>3, <5>3
        <5> QED
          BY <5>1, <5>2, <5>3 DEF Known
      <4> QED
        BY <4>1, <4>2
    <3> QED
      BY <3>5, <3>6, <3>7 DEF Known
  <2> QED
    BY <1>5, AddCases, <2>3, <2>4
<1>6. ASSUME NEW w \in DriftWorkers, Drift!Record(w)
      PROVE  Known'
  <2> DEFINE k == observing[w].index
  <2>1. /\ closed' = closed /\ lastLevel' = closed[k] /\ observing[w].stage = "record"
        /\ notified' = IF observing[w].worse THEN notified \cup {k} ELSE notified
        /\ observing' = [observing EXCEPT ![w] = Drift!Waiting]
    BY <1>6 DEF Drift!Record
  <2>2. observing'[w].stage = "idle" /\ \A o \in DriftWorkers : o # w => observing'[o] = observing[o]
    BY <2>1 DEF Drift!Waiting, DriftTypes
  <2>3. w \in Drift!InHand /\ Drift!InHand' = Drift!InHand \ {w}
    BY <2>1, <2>2 DEF Drift!InHand
  <2>4. k \in 1..Len(closed) /\ closed[k] \in Nat
    BY <2>3, WorsenedIs DEF DriftTypes
  <2>6. closed[k] > 0 => \E x \in notified' : closed[x] >= closed[k]
    <3>1. CASE observing[w].worse
      BY <2>1, <2>4, <3>1
    <3>2. CASE ~observing[w].worse
      BY <2>1, <3>2 DEF Known, Drift!AsBadNotified
    <3> QED
      BY <3>1, <3>2
  <2>7. Drift!AsBadNotified(lastLevel)'
    BY <2>1, <2>6 DEF Drift!AsBadNotified
  <2>8. \A o \in DriftWorkers : observing'[o].stage = "record" /\ ~observing'[o].worse
                                 => Drift!AsBadNotified(closed[observing[o].index])'
    BY <2>1, <2>2 DEF Known, Drift!AsBadNotified
  <2>9. ASSUME NEW i \in 1..Len(closed)
        PROVE  Drift!AsBadNotified(closed[i])' \/ \E o \in Drift!InHand' : observing'[o].index = i
    <3>1. CASE i = k
      BY <2>1, <2>6, <3>1 DEF Drift!AsBadNotified
    <3>2. CASE Drift!AsBadNotified(closed[i])
      BY <2>1, <3>2 DEF Drift!AsBadNotified
    <3>3. CASE i # k /\ \E o \in Drift!InHand : observing[o].index = i
      <4>1. PICK o \in Drift!InHand : observing[o].index = i
        BY <3>3
      <4>2. o # w /\ o \in Drift!InHand' /\ observing'[o] = observing[o]
        BY <2>2, <2>3, <3>3, <4>1 DEF Drift!InHand
      <4> QED
        BY <4>1, <4>2
    <3> QED
      BY <3>1, <3>2, <3>3 DEF Known
  <2> QED
    BY <2>1, <2>7, <2>8, <2>9 DEF Known
<1> QED
  BY <1>1, <1>3, <1>4, <1>5, <1>6 DEF Drift!Next, Drift!WorkerNext

(* However many capture workers close windows: as long as no worker overtakes another,  *)
(* the verdicts that are notified are those that are worse than the one before; and     *)
(* whoever overtakes whom, a nominal one never is, and one that is not nominal is       *)
(* followed or preceded by the notification of one as bad.                              *)
THEOREM WorseIsNotifiedHolds == Drift!Spec => []Drift!WorseIsNotified
<1>1. Drift!Init => DriftTypes /\ OnlyWorse /\ InTurn /\ Known
  <2> SUFFICES ASSUME Drift!Init PROVE OnlyWorse /\ InTurn /\ Known
    BY DriftTypesInit
  <2>1. closed = <<>> /\ notified = {} /\ lastLevel = 0 /\ observing = [w \in DriftWorkers |-> Drift!Waiting]
    BY DEF Drift!Init
  <2>2. Drift!InHand = {} /\ (\A w \in DriftWorkers : observing[w].stage = "idle") /\ Len(closed) = 0
    BY <2>1 DEF Drift!InHand, Drift!Waiting
  <2>3. Drift!Worsened = {}
    BY <2>1 DEF Drift!Worsened
  <2>4. OnlyWorse /\ InTurn
    BY <2>1, <2>2, <2>3 DEF OnlyWorse, InTurn, Level
  <2>5. Known
    BY <2>1, <2>2 DEF Known, Drift!AsBadNotified
  <2> QED
    BY <2>4, <2>5
<1>2. DriftTypes /\ OnlyWorse /\ InTurn /\ Known /\ [Drift!Next]_(Drift!driftVars)
      => (DriftTypes /\ OnlyWorse /\ InTurn /\ Known)'
  BY DriftTypesStep, InTurnStep, KnownStep
<1>3. DriftTypes /\ OnlyWorse /\ InTurn /\ Known => Drift!WorseIsNotified
  <2> SUFFICES ASSUME DriftTypes, OnlyWorse, InTurn, Known PROVE Drift!WorseIsNotified
    OBVIOUS
  <2>1. DOMAIN closed = 1..Len(closed)
    BY DEF DriftTypes
  <2>2. Drift!InHand = {} => \A i \in DOMAIN closed : Drift!AsBadNotified(closed[i])
    BY <2>1 DEF Known
  <2> QED
    BY <2>2 DEF OnlyWorse, InTurn, Drift!WorseIsNotified
<1> QED
  BY <1>1, <1>2, <1>3, PTL DEF Drift!Spec

-----------------------------------------------------------------------------
(* Triage: runs of the agent and the annotations they store.                 *)

LEMMA TriageLibrary ==
    ASSUME NEW S
    PROVE  Triage!Cardinality(S) = Cardinality(S) /\ Triage!ToSet(S) = Range(S)
BY DEF Triage!Cardinality, Cardinality, Triage!IsFiniteSet, IsFiniteSet, Triage!ToSet, Range

AlertRows == [severity : STRING, whitelisted : BOOLEAN, at : Nat, acked : BOOLEAN, action : BOOLEAN]

Working(r) == agent[r].at # "idle"

RunnerTypes(r) ==
    /\ agent[r].at \in {"idle", "begun", "loop", "asked"}
    /\ Working(r) => agent[r].ids \in Seq(Nat) /\ agent[r].began \in 0..Len(annotations)
    /\ agent[r].at \in {"begun", "loop"} => DOMAIN agent[r] = {"at", "ids", "before", "spent", "began"}
    /\ agent[r].at = "asked" => agent[r].ids # <<>>

TriageTypes ==
    /\ triageTime \in Nat /\ alerts \in Seq(AlertRows)
    /\ Len(annotations) \in Nat /\ DOMAIN annotations = 1..Len(annotations)
    /\ DOMAIN agent = Runners /\ \A r \in Runners : RunnerTypes(r)

(* What a step of a runner makes of its list.                                          *)
LEMMA NewestIs ==
    ASSUME TriageTypes, NEW order \in Triage!Newest(Triage!Pending, BatchSize)
    PROVE  /\ order \in Seq(Nat)
           /\ \A i \in 1..Len(order) : order[i] \in Triage!Pending
           /\ \A i, j \in 1..Len(order) : i # j => order[i] # order[j]
<1> DEFINE newest == {x \in Triage!Pending : Triage!Cardinality({y \in Triage!Pending : y > x}) < BatchSize}
           n == Cardinality(newest)
<1>1. DOMAIN alerts = 1..Len(alerts) /\ Len(alerts) \in Nat
  BY DEF TriageTypes
<1>2. Triage!Pending \subseteq DOMAIN alerts /\ newest \subseteq Triage!Pending
  BY DEF Triage!Pending
<1>3. IsFiniteSet(newest) /\ newest \subseteq Nat
  <2>1. IsFiniteSet(1..Len(alerts)) /\ 1..Len(alerts) \subseteq Nat
    BY <1>1, FS_Interval
  <2> HIDE DEF newest
  <2> QED
    BY <1>1, <1>2, <2>1, FS_Subset
<1>4. n \in Nat
  BY <1>3, FS_CardinalityType
<1>5. order \in [1..n -> newest] /\ \A i, j \in 1..n : i < j => order[i] > order[j]
  BY TriageLibrary DEF Triage!Newest
<1> HIDE DEF newest, n
<1>6. order \in Seq(newest) /\ Len(order) = n
  BY <1>4, <1>5, SeqDef
<1>7. \A i, j \in 1..n : i # j => i < j \/ j < i
  BY <1>4
<1>8. \A i \in 1..n : order[i] \in Nat
  BY <1>3, <1>5
<1>9. \A i, j \in 1..n : i # j => order[i] # order[j]
  BY <1>5, <1>7, <1>8
<1> QED
  BY <1>2, <1>3, <1>5, <1>6, <1>9, SeqMonotonic

LEMMA BeginDoes ==
    ASSUME TriageTypes, NEW r \in Runners, Triage!Begin(r)
    PROVE  /\ UNCHANGED <<triageTime, alerts, annotations, explicit>>
           /\ agent[r].at = "idle" /\ DOMAIN agent' = Runners
           /\ agent'[r].at = "begun" /\ agent'[r].ids = <<>> /\ agent'[r].began = Len(annotations)
           /\ DOMAIN agent'[r] = {"at", "ids", "before", "spent", "began"}
           /\ \A o \in Runners : o # r => agent'[o] = agent[o]
BY DEF Triage!Begin, TriageTypes

LEMMA TakeDoes ==
    ASSUME TriageTypes, NEW r \in Runners, NEW ids \in Seq(Nat), Triage!Take(r, ids)
    PROVE  /\ agent[r].at = "begun" /\ DOMAIN agent' = Runners
           /\ agent'[r].at = "loop" /\ agent'[r].ids = ids /\ agent'[r].began = agent[r].began
           /\ DOMAIN agent'[r] = {"at", "ids", "before", "spent", "began"}
           /\ \A o \in Runners : o # r => agent'[o] = agent[o]
<1>1. agent[r].at = "begun" /\ agent' = [agent EXCEPT ![r].at = "loop", ![r].ids = ids]
  BY DEF Triage!Take
<1>2. DOMAIN agent[r] = {"at", "ids", "before", "spent", "began"} /\ DOMAIN agent = Runners
  BY <1>1 DEF TriageTypes, RunnerTypes
<1>3. agent'[r] = [agent[r] EXCEPT !.at = "loop", !.ids = ids] /\ DOMAIN agent' = Runners
      /\ \A o \in Runners : o # r => agent'[o] = agent[o]
  BY <1>1, <1>2
<1> QED
  BY <1>1, <1>2, <1>3

LEMMA AskDoes ==
    ASSUME TriageTypes, NEW r \in Runners, Triage!Ask(r)
    PROVE  /\ UNCHANGED <<triageTime, alerts, annotations, explicit>>
           /\ agent[r].at = "loop" /\ agent[r].ids # <<>> /\ DOMAIN agent' = Runners
           /\ agent'[r].began = agent[r].began
           /\ \A o \in Runners : o # r => agent'[o] = agent[o]
           /\ \/ /\ agent'[r].at = "loop" /\ agent'[r].ids = Tail(agent[r].ids)
                 /\ DOMAIN agent'[r] = {"at", "ids", "before", "spent", "began"}
              \/ /\ agent'[r].at = "asked" /\ agent'[r].ids = agent[r].ids
                 /\ Head(agent[r].ids) \in DOMAIN alerts
                 /\ agent'[r].hasAction = alerts[Head(agent[r].ids)].action
                 /\ agent'[r].whitelisted = alerts[Head(agent[r].ids)].whitelisted
<1> DEFINE id == Head(agent[r].ids)
<1>1. /\ UNCHANGED <<triageTime, alerts, annotations, explicit>>
      /\ agent[r].at = "loop" /\ agent[r].ids # <<>>
      /\ agent' = [agent EXCEPT ![r] =
            IF id \notin DOMAIN alerts THEN [agent[r] EXCEPT !.ids = Tail(agent[r].ids)]
            ELSE [at |-> "asked", ids |-> agent[r].ids, before |-> agent[r].before, spent |-> agent[r].spent,
                  began |-> agent[r].began, hasAction |-> alerts[id].action, whitelisted |-> alerts[id].whitelisted]]
  BY DEF Triage!Ask, Triage!Finished
<1>2. CASE id \notin DOMAIN alerts
  <2>1. DOMAIN agent[r] = {"at", "ids", "before", "spent", "began"} /\ DOMAIN agent = Runners
    BY <1>1 DEF TriageTypes, RunnerTypes
  <2>2. agent'[r] = [agent[r] EXCEPT !.ids = Tail(agent[r].ids)] /\ DOMAIN agent' = Runners
        /\ \A o \in Runners : o # r => agent'[o] = agent[o]
    BY <1>1, <1>2, <2>1
  <2> QED
    BY <1>1, <2>1, <2>2
<1>3. CASE id \in DOMAIN alerts
  <2> DEFINE asked == [at |-> "asked", ids |-> agent[r].ids, before |-> agent[r].before, spent |-> agent[r].spent,
                       began |-> agent[r].began, hasAction |-> alerts[id].action, whitelisted |-> alerts[id].whitelisted]
  <2>1. agent' = [agent EXCEPT ![r] = asked]
    BY <1>1, <1>3
  <2>2. /\ asked.at = "asked" /\ asked.ids = agent[r].ids /\ asked.hasAction = alerts[id].action
        /\ asked.whitelisted = alerts[id].whitelisted /\ asked.began = agent[r].began
    OBVIOUS
  <2> HIDE DEF asked
  <2>3. agent'[r] = asked /\ DOMAIN agent' = Runners /\ \A o \in Runners : o # r => agent'[o] = agent[o]
    BY <2>1 DEF TriageTypes
  <2> QED
    BY <1>1, <1>3, <2>2, <2>3
<1> QED
  BY <1>2, <1>3

(* What a runner that annotates puts into the table.                                   *)
NewRow(r, row) ==
    [alert |-> Head(agent[r].ids), at |-> triageTime, status |-> row.status, verdict |-> row.verdict,
     recommendation |-> row.recommendation, confidence |-> row.confidence, cost |-> row.cost,
     by |-> r, began |-> agent[r].began]

LEMMA AnnotateDoes ==
    ASSUME TriageTypes, NEW r \in Runners, NEW STATE row, agent[r].at = "asked", Triage!Annotate(r, row)
    PROVE  /\ UNCHANGED <<triageTime, alerts, explicit>>
           /\ Len(annotations') = Len(annotations) + 1 /\ DOMAIN annotations' = 1..Len(annotations')
           /\ \A i \in 1..Len(annotations) : annotations'[i] = annotations[i]
           /\ annotations'[Len(annotations')] = NewRow(r, row)
           /\ agent'[r].at = "loop" /\ agent'[r].ids = Tail(agent[r].ids) /\ DOMAIN agent' = Runners
           /\ agent'[r].began = agent[r].began
           /\ DOMAIN agent'[r] = {"at", "ids", "before", "spent", "began"}
           /\ \A o \in Runners : o # r => agent'[o] = agent[o]
<1>1. /\ annotations' = Append(annotations, NewRow(r, row)) /\ UNCHANGED <<triageTime, alerts, explicit>>
      /\ agent' = [agent EXCEPT ![r] = [at |-> "loop", ids |-> Tail(agent[r].ids), before |-> agent[r].before,
                                        spent |-> agent[r].spent + row.cost, began |-> agent[r].began]]
  BY DEF Triage!Annotate, NewRow
<1>2. /\ agent'[r].at = "loop" /\ agent'[r].ids = Tail(agent[r].ids) /\ DOMAIN agent' = Runners
      /\ agent'[r].began = agent[r].began /\ DOMAIN agent'[r] = {"at", "ids", "before", "spent", "began"}
      /\ \A o \in Runners : o # r => agent'[o] = agent[o]
  BY <1>1 DEF TriageTypes
<1>3. PICK new : new = NewRow(r, row)
  OBVIOUS
<1>4. /\ Len(annotations') = Len(annotations) + 1 /\ DOMAIN annotations' = 1..Len(annotations')
      /\ \A i \in 1..Len(annotations) : annotations'[i] = annotations[i]
      /\ annotations'[Len(annotations')] = new
  BY <1>1, <1>3 DEF TriageTypes
<1> QED
  BY <1>1, <1>2, <1>3, <1>4

LEMMA TriageTypesInit == Triage!Init => TriageTypes
<1> SUFFICES ASSUME Triage!Init PROVE TriageTypes
  OBVIOUS
<1>1. triageTime = 0 /\ alerts = <<>> /\ annotations = <<>>
      /\ agent = [r \in Runners |-> [at |-> "idle"]]
  BY DEF Triage!Init, Triage!Idle
<1>2. alerts \in Seq(AlertRows)
  BY <1>1
<1>4. triageTime \in Nat /\ Len(annotations) \in Nat /\ DOMAIN annotations = 1..Len(annotations)
  BY <1>1
<1>5. DOMAIN agent = Runners /\ \A r \in Runners : agent[r].at = "idle"
  BY <1>1
<1> QED
  BY <1>2, <1>4, <1>5 DEF TriageTypes, RunnerTypes, Working

(* The list of a runner that has its turn with the first alert of it.                  *)
LEMMA TailTypes ==
    ASSUME NEW ids \in Seq(Nat), ids # <<>>
    PROVE  /\ Tail(ids) \in Seq(Nat) /\ Head(ids) \in Nat /\ Len(Tail(ids)) = Len(ids) - 1 /\ Head(ids) = ids[1]
           /\ Len(ids) \in Nat \ {0}
           /\ \A i \in 1..Len(Tail(ids)) : Tail(ids)[i] = ids[i + 1] /\ i + 1 \in 1..Len(ids) /\ i + 1 # 1
           /\ Range(Tail(ids)) \subseteq Range(ids) /\ Range(ids) = {Head(ids)} \cup Range(Tail(ids))
<1>1. /\ Tail(ids) \in Seq(Nat) /\ Head(ids) \in Nat /\ Len(Tail(ids)) = Len(ids) - 1 /\ Head(ids) = ids[1]
      /\ Len(ids) \in Nat \ {0}
  OBVIOUS
<1>2. DOMAIN ids = 1..Len(ids) /\ DOMAIN Tail(ids) = 1..Len(Tail(ids))
  BY <1>1
<1>3. \A i \in 1..Len(Tail(ids)) : Tail(ids)[i] = ids[i + 1] /\ i + 1 \in 1..Len(ids) /\ i + 1 # 1
  OBVIOUS
<1>4. \A i \in 1..Len(ids) : i = 1 \/ (i - 1 \in 1..Len(Tail(ids)) /\ ids[i] = Tail(ids)[i - 1])
  OBVIOUS
<1>5. Range(Tail(ids)) \subseteq Range(ids)
  BY <1>2, <1>3 DEF Range
<1>6. Range(ids) \subseteq {Head(ids)} \cup Range(Tail(ids))
  <2> SUFFICES ASSUME NEW i \in 1..Len(ids) PROVE ids[i] \in {Head(ids)} \cup Range(Tail(ids))
    BY <1>2 DEF Range
  <2>1. CASE i = 1
    BY <1>1, <2>1
  <2>2. CASE i # 1
    <3>1. i - 1 \in DOMAIN Tail(ids) /\ ids[i] = Tail(ids)[i - 1]
      BY <1>2, <1>4, <2>2
    <3> QED
      BY <3>1 DEF Range
  <2> QED
    BY <2>1, <2>2
<1>7. Head(ids) \in Range(ids)
  BY <1>1, <1>2 DEF Range
<1> QED
  BY <1>1, <1>3, <1>5, <1>6, <1>7

LEMMA NamedTypes == ASSUME NEW ids \in NamedLists PROVE ids \in Seq(Nat)
BY TriageAssumption

(* A step of one runner that stores nothing leaves the others as they are.             *)
LEMMA OneRunner ==
    ASSUME TriageTypes, NEW r \in Runners, UNCHANGED <<triageTime, alerts, annotations>>,
           DOMAIN agent' = Runners, \A o \in Runners : o # r => agent'[o] = agent[o], RunnerTypes(r)'
    PROVE  TriageTypes'
<1>1. \A o \in Runners : RunnerTypes(o)'
  <2> SUFFICES ASSUME NEW o \in Runners, o # r PROVE RunnerTypes(o)'
    OBVIOUS
  <2>1. agent'[o] = agent[o] /\ RunnerTypes(o)
    BY DEF TriageTypes
  <2> QED
    BY <2>1 DEF RunnerTypes, Working
<1> QED
  BY <1>1 DEF TriageTypes

LEMMA TriageTypesStep ==
    ASSUME TriageTypes, [Triage!Next]_(Triage!triageVars)
    PROVE  TriageTypes'
<1>1. CASE UNCHANGED Triage!triageVars
  BY <1>1 DEF Triage!triageVars, TriageTypes, RunnerTypes, Working
<1>2. CASE Triage!Tick
  BY <1>2 DEF Triage!Tick, TriageTypes, RunnerTypes, Working
<1>3. CASE Triage!NewAlert
  <2>1. PICK k \in Kinds : alerts' = Append(alerts, [severity |-> k.severity, whitelisted |-> k.whitelisted, at |-> triageTime,
                                                     acked |-> FALSE, action |-> FALSE])
    BY <1>3 DEF Triage!NewAlert
  <2>2. k \in [severity : STRING, whitelisted : BOOLEAN] /\ triageTime \in Nat
    BY TriageAssumption DEF TriageTypes
  <2>3. [severity |-> k.severity, whitelisted |-> k.whitelisted, at |-> triageTime, acked |-> FALSE, action |-> FALSE] \in AlertRows
    BY <2>2 DEF AlertRows
  <2>4. alerts' \in Seq(AlertRows)
    BY <2>1, <2>3 DEF TriageTypes
  <2> QED
    BY <1>3, <2>4 DEF Triage!NewAlert, TriageTypes, RunnerTypes, Working
<1>4. CASE Triage!OthersAct
  <2>1. PICK id \in DOMAIN alerts : \/ alerts' = [alerts EXCEPT ![id].action = TRUE]
                                    \/ alerts' = [alerts EXCEPT ![id].acked = TRUE]
    BY <1>4 DEF Triage!OthersAct
  <2>2. alerts' \in Seq(AlertRows)
    <3>1. alerts[id] \in AlertRows /\ alerts \in Seq(AlertRows)
      BY DEF TriageTypes
    <3>2. [alerts[id] EXCEPT !.action = TRUE] \in AlertRows /\ [alerts[id] EXCEPT !.acked = TRUE] \in AlertRows
      BY <3>1 DEF AlertRows
    <3>3. alerts' = [alerts EXCEPT ![id] = [alerts[id] EXCEPT !.action = TRUE]]
          \/ alerts' = [alerts EXCEPT ![id] = [alerts[id] EXCEPT !.acked = TRUE]]
      BY <2>1
    <3>4. \A row \in AlertRows : [alerts EXCEPT ![id] = row] \in Seq(AlertRows)
      BY <3>1, ExceptSeq
    <3> QED
      BY <3>2, <3>3, <3>4
  <2> QED
    BY <1>4, <2>2 DEF Triage!OthersAct, TriageTypes, RunnerTypes, Working
<1>5. ASSUME NEW r \in Runners, Triage!Begin(r)
      PROVE  TriageTypes'
  <2>1. /\ UNCHANGED <<triageTime, alerts, annotations>> /\ agent'[r].at = "begun" /\ DOMAIN agent' = Runners
        /\ agent'[r].ids = <<>> /\ agent'[r].began = Len(annotations)
        /\ DOMAIN agent'[r] = {"at", "ids", "before", "spent", "began"}
        /\ \A o \in Runners : o # r => agent'[o] = agent[o]
    BY <1>5, BeginDoes
  <2>2. <<>> \in Seq(Nat) /\ Len(annotations) \in 0..Len(annotations)
    BY DEF TriageTypes
  <2>3. RunnerTypes(r)'
    BY <2>1, <2>2 DEF RunnerTypes
  <2> QED
    BY <2>1, <2>3, OneRunner
<1>6. ASSUME NEW r \in Runners, NEW ids \in Seq(Nat), Triage!Take(r, ids), UNCHANGED <<triageTime, alerts, annotations>>
      PROVE  TriageTypes'
  <2>1. /\ agent'[r].at = "loop" /\ agent'[r].ids = ids /\ DOMAIN agent'[r] = {"at", "ids", "before", "spent", "began"}
        /\ agent'[r].began = agent[r].began /\ agent[r].at = "begun"
        /\ DOMAIN agent' = Runners /\ \A o \in Runners : o # r => agent'[o] = agent[o]
    BY <1>6, TakeDoes
  <2>2. agent[r].began \in 0..Len(annotations)
    BY <2>1 DEF TriageTypes, RunnerTypes, Working
  <2>3. RunnerTypes(r)'
    BY <1>6, <2>1, <2>2 DEF RunnerTypes
  <2> QED
    BY <1>6, <2>1, <2>3, OneRunner
<1>7. ASSUME NEW r \in Runners, Triage!TakeNamed(r) \/ Triage!TakePending(r)
      PROVE  TriageTypes'
  BY <1>6, <1>7, NewestIs, NamedTypes DEF Triage!TakeNamed, Triage!TakePending
<1>8. ASSUME NEW r \in Runners, Triage!EndRun(r) \/ Triage!Crash(r)
      PROVE  TriageTypes'
  BY <1>8 DEF Triage!EndRun, Triage!Crash, Triage!Idle, TriageTypes, RunnerTypes, Working
<1>9. ASSUME NEW r \in Runners, Triage!Ask(r)
      PROVE  TriageTypes'
  <2>1. agent[r].ids \in Seq(Nat) /\ agent[r].ids # <<>> /\ agent[r].began \in 0..Len(annotations)
    BY <1>9, AskDoes DEF TriageTypes, RunnerTypes, Working
  <2>2. Tail(agent[r].ids) \in Seq(Nat)
    BY <2>1, TailTypes
  <2>3. /\ UNCHANGED <<triageTime, alerts, annotations>> /\ DOMAIN agent' = Runners
        /\ agent'[r].began = agent[r].began
        /\ \A o \in Runners : o # r => agent'[o] = agent[o]
        /\ \/ /\ agent'[r].at = "loop" /\ agent'[r].ids = Tail(agent[r].ids)
              /\ DOMAIN agent'[r] = {"at", "ids", "before", "spent", "began"}
           \/ agent'[r].at = "asked" /\ agent'[r].ids = agent[r].ids
    BY <1>9, AskDoes
  <2>4. RunnerTypes(r)'
    BY <2>1, <2>2, <2>3 DEF RunnerTypes
  <2> QED
    BY <2>3, <2>4, OneRunner
<1>10. ASSUME NEW r \in Runners, NEW STATE row, agent[r].at = "asked", Triage!Annotate(r, row)
       PROVE  TriageTypes'
  <2>1. agent[r].ids \in Seq(Nat) /\ agent[r].ids # <<>> /\ agent[r].began \in 0..Len(annotations)
    BY <1>10 DEF TriageTypes, RunnerTypes, Working
  <2>2. Tail(agent[r].ids) \in Seq(Nat)
    BY <2>1, TailTypes
  <2>3. /\ UNCHANGED <<triageTime, alerts>>
        /\ Len(annotations') = Len(annotations) + 1 /\ DOMAIN annotations' = 1..Len(annotations')
        /\ agent'[r].at = "loop" /\ agent'[r].ids = Tail(agent[r].ids) /\ DOMAIN agent' = Runners
        /\ DOMAIN agent'[r] = {"at", "ids", "before", "spent", "began"} /\ agent'[r].began = agent[r].began
        /\ \A o \in Runners : o # r => agent'[o] = agent[o]
    BY <1>10, AnnotateDoes
  <2>4. Len(annotations) \in Nat /\ 0..Len(annotations) \subseteq 0..Len(annotations')
    BY <2>3 DEF TriageTypes
  <2>5. RunnerTypes(r)'
    BY <2>1, <2>2, <2>3, <2>4 DEF RunnerTypes
  <2>6. \A o \in Runners : o # r => RunnerTypes(o)'
    BY <2>3, <2>4 DEF TriageTypes, RunnerTypes, Working
  <2>7. /\ Len(annotations') \in Nat /\ DOMAIN annotations' = 1..Len(annotations') /\ triageTime' \in Nat
        /\ alerts' \in Seq(AlertRows)
    BY <2>3 DEF TriageTypes
  <2> QED
    BY <2>3, <2>5, <2>6, <2>7 DEF TriageTypes
<1>11. ASSUME NEW r \in Runners, Triage!Answer(r) \/ Triage!CallFails(r)
       PROVE  TriageTypes'
  BY <1>10, <1>11 DEF Triage!Answer, Triage!CallFails
<1> QED
  BY <1>1, <1>2, <1>3, <1>4, <1>5, <1>7, <1>8, <1>9, <1>11 DEF Triage!Next

-----------------------------------------------------------------------------

(* What a runner has still to do: an alert nobody named is on its list once, and the    *)
(* annotations it has, if any, were stored after the run began, by others.             *)
Listed(r) ==
    Working(r) =>
        /\ \A i, j \in 1..Len(agent[r].ids) :
             i # j /\ agent[r].ids[i] = agent[r].ids[j] => agent[r].ids[i] \in explicit
        /\ \A k \in 1..Len(agent[r].ids), i \in 1..Len(annotations) :
             agent[r].ids[k] \notin explicit /\ annotations[i].alert = agent[r].ids[k]
                 => agent[r].began < i /\ annotations[i].by # r

Once ==
    /\ \A r \in Runners : Listed(r)
    /\ \A i, j \in 1..Len(annotations) :
         i < j /\ annotations[i].alert = annotations[j].alert /\ annotations[i].alert \notin explicit
             => annotations[j].began < i /\ annotations[i].by # annotations[j].by

LEMMA OnceStep ==
    ASSUME TriageTypes, TriageTypes', Once, [Triage!Next]_(Triage!triageVars)
    PROVE  Once'
<1>1. ASSUME UNCHANGED <<annotations, agent, explicit>>
      PROVE  Once'
  BY <1>1 DEF Once, Listed, Working
<1>2. ASSUME NEW r \in Runners, annotations' = annotations, explicit \subseteq explicit', Listed(r)',
             \A o \in Runners : o # r => agent'[o] = agent[o]
      PROVE  Once'
  <2>1. \A o \in Runners : Listed(o)'
    <3> SUFFICES ASSUME NEW o \in Runners, o # r PROVE Listed(o)'
      BY <1>2
    <3>1. agent'[o] = agent[o] /\ Listed(o)
      BY <1>2 DEF Once
    <3> QED
      BY <1>2, <3>1 DEF Listed, Working
  <2>2. \A i, j \in 1..Len(annotations') :
          i < j /\ annotations'[i].alert = annotations'[j].alert /\ annotations'[i].alert \notin explicit'
              => annotations'[j].began < i /\ annotations'[i].by # annotations'[j].by
    BY <1>2 DEF Once
  <2> QED
    BY <2>1, <2>2 DEF Once
<1>3. ASSUME NEW r \in Runners, Triage!Begin(r)
      PROVE  Once'
  <2>1. /\ UNCHANGED <<annotations, explicit>> /\ agent'[r].ids = <<>>
        /\ \A o \in Runners : o # r => agent'[o] = agent[o]
    BY <1>3, BeginDoes
  <2>2. Listed(r)'
    BY <2>1 DEF Listed
  <2> QED
    BY <1>2, <2>1, <2>2
<1>4. ASSUME NEW r \in Runners, NEW ids \in Seq(Nat), Triage!Take(r, ids), annotations' = annotations,
             explicit \subseteq explicit',
             \A i \in 1..Len(ids) : ids[i] \in Triage!Pending \/ ids[i] \in explicit',
             \A i, j \in 1..Len(ids) : i # j /\ ids[i] = ids[j] => ids[i] \in explicit'
      PROVE  Once'
  <2>1. agent'[r].ids = ids /\ \A o \in Runners : o # r => agent'[o] = agent[o]
    BY <1>4, TakeDoes
  <2>2. \A k \in 1..Len(ids), i \in 1..Len(annotations) : ids[k] \notin explicit' => annotations[i].alert # ids[k]
    BY <1>4 DEF Triage!Pending, Triage!Annotated, TriageTypes
  <2>3. Listed(r)'
    BY <1>4, <2>1, <2>2 DEF Listed
  <2> QED
    BY <1>2, <1>4, <2>1, <2>3
<1>5. ASSUME NEW r \in Runners, Triage!TakePending(r)
      PROVE  Once'
  <2>1. PICK ids \in Triage!Newest(Triage!Pending, BatchSize) : Triage!Take(r, ids)
    BY <1>5 DEF Triage!TakePending
  <2>2. annotations' = annotations /\ explicit' = explicit
    BY <1>5 DEF Triage!TakePending
  <2>3. /\ ids \in Seq(Nat) /\ (\A i \in 1..Len(ids) : ids[i] \in Triage!Pending)
        /\ \A i, j \in 1..Len(ids) : i # j => ids[i] # ids[j]
    BY NewestIs
  <2> QED
    BY <1>4, <2>1, <2>2, <2>3
<1>6. ASSUME NEW r \in Runners, Triage!TakeNamed(r)
      PROVE  Once'
  <2>1. PICK ids \in NamedLists : Triage!Take(r, ids) /\ explicit' = explicit \cup Triage!ToSet(ids)
    BY <1>6 DEF Triage!TakeNamed
  <2>2. annotations' = annotations
    BY <1>6 DEF Triage!TakeNamed
  <2>3. ids \in Seq(Nat)
    BY NamedTypes
  <2>4. \A i \in 1..Len(ids) : ids[i] \in explicit'
    BY <2>1, <2>3, TriageLibrary DEF Range
  <2> QED
    BY <1>4, <2>1, <2>2, <2>3, <2>4
<1>7. ASSUME NEW r \in Runners, Triage!EndRun(r) \/ Triage!Crash(r)
      PROVE  Once'
  <2>1. /\ UNCHANGED <<annotations, explicit>> /\ agent'[r].at = "idle"
        /\ \A o \in Runners : o # r => agent'[o] = agent[o]
    BY <1>7 DEF Triage!EndRun, Triage!Crash, Triage!Idle, TriageTypes
  <2>2. Listed(r)'
    BY <2>1 DEF Listed, Working
  <2> QED
    BY <1>2, <2>1, <2>2
<1>8. ASSUME NEW r \in Runners, Triage!Ask(r)
      PROVE  Once'
  <2>1. /\ UNCHANGED <<annotations, explicit>> /\ agent[r].at = "loop" /\ agent[r].ids # <<>>
        /\ agent'[r].began = agent[r].began /\ \A o \in Runners : o # r => agent'[o] = agent[o]
        /\ agent'[r].ids = agent[r].ids \/ agent'[r].ids = Tail(agent[r].ids)
    BY <1>8, AskDoes
  <2>2. Working(r) /\ agent[r].ids \in Seq(Nat) /\ Listed(r)
    BY <2>1 DEF Working, TriageTypes, RunnerTypes, Once
  <2>3. CASE agent'[r].ids = agent[r].ids
    <3>1. Listed(r)'
      BY <2>1, <2>2, <2>3 DEF Listed
    <3> QED
      BY <1>2, <2>1, <3>1
  <2>4. CASE agent'[r].ids = Tail(agent[r].ids)
    <3>1. \A k \in 1..Len(Tail(agent[r].ids)) : Tail(agent[r].ids)[k] = agent[r].ids[k + 1] /\ k + 1 \in 1..Len(agent[r].ids)
      BY <2>1, <2>2, TailTypes
    <3>2. \A i, j \in 1..Len(Tail(agent[r].ids)) : i # j => i + 1 # j + 1
      OBVIOUS
    <3>3. Listed(r)'
      BY <2>1, <2>2, <2>4, <3>1, <3>2 DEF Listed
    <3> QED
      BY <1>2, <2>1, <3>3
  <2> QED
    BY <2>1, <2>3, <2>4
<1>9. ASSUME NEW r \in Runners, NEW STATE row, agent[r].at = "asked", Triage!Annotate(r, row)
      PROVE  Once'
  <2> DEFINE ids == agent[r].ids
             n   == Len(annotations)
  <2>0. Working(r) /\ ids \in Seq(Nat) /\ ids # <<>> /\ Listed(r) /\ n \in Nat
    BY <1>9 DEF Working, TriageTypes, RunnerTypes, Once
  <2>1. /\ explicit' = explicit /\ Len(annotations') = n + 1
        /\ \A i \in 1..n : annotations'[i] = annotations[i]
        /\ agent'[r].ids = Tail(ids) /\ agent'[r].began = agent[r].began
        /\ \A o \in Runners : o # r => agent'[o] = agent[o]
    BY <1>9, AnnotateDoes
  <2>2. annotations'[n + 1] = NewRow(r, row)
    BY <1>9, AnnotateDoes
  <2>3. annotations'[n + 1].alert = ids[1] /\ annotations'[n + 1].by = r /\ annotations'[n + 1].began = agent[r].began
    <3>1. NewRow(r, row).alert = Head(ids) /\ NewRow(r, row).by = r /\ NewRow(r, row).began = agent[r].began
      BY DEF NewRow
    <3>2. Head(ids) = ids[1]
      BY <2>0, TailTypes
    <3> QED
      BY <2>2, <3>1, <3>2
  <2>4. /\ \A k \in 1..Len(Tail(ids)) : Tail(ids)[k] = ids[k + 1] /\ k + 1 \in 1..Len(ids) /\ k + 1 # 1
        /\ 1 \in 1..Len(ids)
    BY <2>0, TailTypes
  <2>5. \A i \in 1..(n + 1) : i = n + 1 \/ i \in 1..n
    BY <2>0
  <2> HIDE DEF ids, n
  <2>6. \A i, j \in 1..Len(ids) : i # j /\ ids[i] = ids[j] => ids[i] \in explicit
    BY <2>0 DEF Listed, ids
  <2>7. \A k \in 1..Len(ids), i \in 1..n : ids[k] \notin explicit /\ annotations[i].alert = ids[k]
                                          => agent[r].began < i /\ annotations[i].by # r
    BY <2>0 DEF Listed, ids, n
  <2>8. Listed(r)'
    <3>1. \A i, j \in 1..Len(Tail(ids)) : i # j /\ Tail(ids)[i] = Tail(ids)[j] => Tail(ids)[i] \in explicit
      <4>1. \A i, j \in 1..Len(Tail(ids)) : i # j => i + 1 # j + 1
        OBVIOUS
      <4> QED
        BY <2>4, <2>6, <4>1
    <3>2. ASSUME NEW k \in 1..Len(Tail(ids)), NEW i \in 1..(n + 1), Tail(ids)[k] \notin explicit, annotations'[i].alert = Tail(ids)[k]
          PROVE  agent[r].began < i /\ annotations'[i].by # r
      <4>1. i # n + 1
        BY <2>3, <2>4, <2>6, <3>2
      <4>2. i \in 1..n /\ annotations'[i] = annotations[i]
        BY <2>1, <2>5, <4>1
      <4> QED
        BY <2>4, <2>7, <3>2, <4>2
    <3> QED
      BY <2>1, <3>1, <3>2 DEF Listed
  <2>9. ASSUME NEW o \in Runners, o # r
        PROVE  Listed(o)'
    <3>1. agent'[o] = agent[o] /\ Listed(o) /\ (Working(o) => agent[o].began <= n /\ agent[o].began \in Nat)
      BY <2>1, <2>9 DEF Once, TriageTypes, RunnerTypes, n
    <3>2. ASSUME Working(o), NEW k \in 1..Len(agent[o].ids), NEW i \in 1..(n + 1),
                 agent[o].ids[k] \notin explicit, annotations'[i].alert = agent[o].ids[k]
          PROVE  agent[o].began < i /\ annotations'[i].by # o
      <4>1. CASE i = n + 1
        BY <2>0, <2>3, <2>9, <3>1, <3>2, <4>1 DEF n
      <4>2. CASE i # n + 1
        <5>1. i \in 1..n /\ annotations'[i] = annotations[i]
          BY <2>1, <2>5, <4>2
        <5> QED
          BY <3>1, <3>2, <5>1 DEF Listed, n
      <4> QED
        BY <4>1, <4>2
    <3> QED
      BY <2>1, <3>1, <3>2 DEF Listed, Working
  <2>10. ASSUME NEW i \in 1..(n + 1), NEW j \in 1..(n + 1), i < j, annotations'[i].alert = annotations'[j].alert,
                annotations'[i].alert \notin explicit
         PROVE  annotations'[j].began < i /\ annotations'[i].by # annotations'[j].by
    <3>1. i \in 1..n /\ annotations'[i] = annotations[i]
      BY <2>0, <2>1, <2>5, <2>10 DEF n
    <3>2. CASE j = n + 1
      BY <2>3, <2>4, <2>7, <2>10, <3>1, <3>2
    <3>3. CASE j # n + 1
      <4>1. j \in 1..n /\ annotations'[j] = annotations[j]
        BY <2>1, <2>5, <3>3
      <4> QED
        BY <2>10, <3>1, <4>1 DEF Once, n
    <3> QED
      BY <3>2, <3>3
  <2>11. \A o \in Runners : Listed(o)'
    BY <2>8, <2>9
  <2> QED
    BY <2>1, <2>10, <2>11 DEF Once
<1>10. ASSUME NEW r \in Runners, Triage!Answer(r) \/ Triage!CallFails(r)
       PROVE  Once'
  BY <1>9, <1>10 DEF Triage!Answer, Triage!CallFails
<1> QED
  BY <1>1, <1>3, <1>5, <1>6, <1>7, <1>8, <1>10
     DEF Triage!Next, Triage!triageVars, Triage!NewAlert, Triage!OthersAct, Triage!Tick

(* For any number of runners that start, fail and end at any time: an alert nobody     *)
(* named is annotated a second time only by another runner, whose run had begun before *)
(* the first annotation was stored.                                                    *)
THEOREM AnnotatedOnceHolds == Triage!Spec => []Triage!AnnotatedOnce
<1>1. Triage!Init => TriageTypes /\ Once
  <2> SUFFICES ASSUME Triage!Init PROVE Once
    BY TriageTypesInit
  <2>1. annotations = <<>> /\ agent = [r \in Runners |-> [at |-> "idle"]]
    BY DEF Triage!Init, Triage!Idle
  <2> QED
    BY <2>1 DEF Once, Listed, Working
<1>2. TriageTypes /\ Once /\ [Triage!Next]_(Triage!triageVars) => (TriageTypes /\ Once)'
  BY TriageTypesStep, OnceStep
<1>3. TriageTypes /\ Once => Triage!AnnotatedOnce
  BY DEF TriageTypes, Once, Triage!AnnotatedOnce
<1> QED
  BY <1>1, <1>2, <1>3, PTL DEF Triage!Spec

-----------------------------------------------------------------------------

(* What a stored annotation respects.                                                  *)
Respects(row) ==
    /\ row.alert \in DOMAIN alerts
    /\ row.recommendation \in {"confirm_block", "undo_block"} => alerts[row.alert].action
    /\ row.recommendation = "confirm_block" => ~alerts[row.alert].whitelisted /\ row.verdict # "likely_benign"
    /\ row.verdict # "needs_human" => row.status = "ok" /\ row.confidence >= MinConfidence

(* What the model is told of an alert does not become wrong while it answers: actions   *)
(* are not taken back and a source keeps its policy; and annotations are in order of    *)
(* time, so that the last stored is also the latest.                                   *)
Told(r) ==
    agent[r].at = "asked" =>
        /\ Head(agent[r].ids) \in DOMAIN alerts
        /\ agent[r].hasAction => alerts[Head(agent[r].ids)].action
        /\ agent[r].whitelisted <=> alerts[Head(agent[r].ids)].whitelisted

Advice ==
    /\ \A r \in Runners : Told(r)
    /\ \A i \in 1..Len(annotations) : Respects(annotations[i]) /\ annotations[i].at \in 0..triageTime
    /\ \A i, j \in 1..Len(annotations) : i < j => annotations[i].at <= annotations[j].at

(* apply_guards, for any well-formed answer.                                           *)
LEMMA GuardedAdvice ==
    ASSUME NEW o, NEW hasAction, NEW whitelisted, Triage!Valid(o), NEW kept, kept = Triage!Guarded(o, hasAction, whitelisted)
    PROVE  /\ kept.recommendation \in {"confirm_block", "undo_block"} => hasAction
           /\ kept.recommendation = "confirm_block" => ~whitelisted /\ kept.verdict # "likely_benign"
           /\ kept.verdict # "needs_human" => o.confidence >= MinConfidence
<1> DEFINE sure    == IF o.confidence < MinConfidence THEN "needs_human" ELSE o.verdict
           acted   == IF o.recommendation \in {"confirm_block", "undo_block"} /\ ~hasAction THEN "escalate" ELSE o.recommendation
           allowed == IF acted = "confirm_block" /\ whitelisted THEN "escalate" ELSE acted
<1>1. o.confidence \in 0..100 /\ MinConfidence \in Nat
  BY TriageAssumption DEF Triage!Valid
<1>2. acted \in {"confirm_block", "undo_block"} => hasAction
  OBVIOUS
<1>3. (allowed \in {"confirm_block", "undo_block"} => hasAction) /\ (allowed = "confirm_block" => ~whitelisted)
  BY <1>2
<1>4. sure # "needs_human" => o.confidence >= MinConfidence
  BY <1>1
<1>5. kept = IF sure = "likely_benign" /\ allowed = "confirm_block"
             THEN [verdict |-> "needs_human", recommendation |-> "escalate"]
             ELSE [verdict |-> sure, recommendation |-> allowed]
  BY DEF Triage!Guarded
<1> HIDE DEF sure, acted, allowed
<1>6. CASE sure = "likely_benign" /\ allowed = "confirm_block"
  BY <1>5, <1>6
<1>7. CASE ~(sure = "likely_benign" /\ allowed = "confirm_block")
  <2>1. kept.verdict = sure /\ kept.recommendation = allowed
    BY <1>5, <1>7
  <2> QED
    BY <1>3, <1>4, <1>7, <2>1
<1> QED
  BY <1>6, <1>7

(* Alerts are only added, acted on and acknowledged.                                   *)
LEMMA AlertsGrow ==
    ASSUME TriageTypes, Triage!NewAlert \/ Triage!OthersAct
    PROVE  \A id \in DOMAIN alerts :
               /\ id \in DOMAIN alerts'
               /\ alerts[id].action => alerts'[id].action
               /\ alerts'[id].whitelisted = alerts[id].whitelisted
<1>0. alerts \in Seq(AlertRows)
  BY DEF TriageTypes
<1>1. CASE Triage!NewAlert
  <2>1. PICK k \in Kinds : alerts' = Append(alerts, [severity |-> k.severity, whitelisted |-> k.whitelisted, at |-> triageTime,
                                                     acked |-> FALSE, action |-> FALSE])
    BY <1>1 DEF Triage!NewAlert
  <2> QED
    BY <1>0, <2>1
<1>2. CASE Triage!OthersAct
  <2>1. PICK w \in DOMAIN alerts : \/ alerts' = [alerts EXCEPT ![w].action = TRUE]
                                   \/ alerts' = [alerts EXCEPT ![w].acked = TRUE]
    BY <1>2 DEF Triage!OthersAct
  <2>2. alerts[w] \in AlertRows
    BY <1>0
  <2>3. \A id \in DOMAIN alerts : id # w => alerts'[id] = alerts[id]
    BY <2>1
  <2>4. DOMAIN alerts' = DOMAIN alerts /\ (alerts'[w] = [alerts[w] EXCEPT !.action = TRUE] \/ alerts'[w] = [alerts[w] EXCEPT !.acked = TRUE])
    BY <2>1
  <2>5. (alerts[w].action => alerts'[w].action) /\ alerts'[w].whitelisted = alerts[w].whitelisted
    BY <2>2, <2>4 DEF AlertRows
  <2> QED
    BY <2>3, <2>4, <2>5
<1> QED
  BY <1>1, <1>2

LEMMA AdviceStep ==
    ASSUME TriageTypes, Advice, [Triage!Next]_(Triage!triageVars)
    PROVE  Advice'
<1>1. CASE UNCHANGED Triage!triageVars
  BY <1>1 DEF Triage!triageVars, Advice, Told, Respects
<1>2. CASE Triage!Tick
  <2>1. UNCHANGED <<alerts, annotations, agent>> /\ 0..triageTime \subseteq 0..triageTime'
    BY <1>2 DEF Triage!Tick, TriageTypes
  <2> QED
    BY <2>1 DEF Advice, Told, Respects
<1>3. CASE Triage!NewAlert \/ Triage!OthersAct
  <2>1. UNCHANGED <<triageTime, annotations, agent>>
    BY <1>3 DEF Triage!NewAlert, Triage!OthersAct
  <2>2. \A r \in Runners : Told(r)'
    BY <1>3, <2>1, AlertsGrow DEF Advice, Told
  <2>3. \A i \in 1..Len(annotations) : Respects(annotations[i])'
    BY <1>3, <2>1, AlertsGrow DEF Advice, Respects
  <2> QED
    BY <2>1, <2>2, <2>3 DEF Advice
<1>4. ASSUME NEW r \in Runners, UNCHANGED <<triageTime, alerts, annotations>>, Told(r)',
             \A o \in Runners : o # r => agent'[o] = agent[o]
      PROVE  Advice'
  <2>1. ASSUME NEW o \in Runners, o # r PROVE Told(o)'
    BY <1>4, <2>1 DEF Advice, Told
  <2> QED
    BY <1>4, <2>1 DEF Advice, Respects
<1>5. ASSUME NEW r \in Runners, Triage!Begin(r) \/ Triage!TakeNamed(r) \/ Triage!TakePending(r)
      PROVE  Advice'
  <2>1. Triage!Begin(r) \/ \E ids \in Seq(Nat) : Triage!Take(r, ids)
    BY <1>5, NewestIs, NamedTypes DEF Triage!TakeNamed, Triage!TakePending
  <2>2. UNCHANGED <<triageTime, alerts, annotations>>
    BY <1>5, BeginDoes DEF Triage!TakeNamed, Triage!TakePending
  <2>3. agent'[r].at # "asked" /\ \A o \in Runners : o # r => agent'[o] = agent[o]
    BY <2>1, BeginDoes, TakeDoes
  <2> QED
    BY <1>4, <2>2, <2>3 DEF Told
<1>6. ASSUME NEW r \in Runners, Triage!EndRun(r) \/ Triage!Crash(r)
      PROVE  Advice'
  <2>1. UNCHANGED <<triageTime, alerts, annotations>> /\ agent' = [agent EXCEPT ![r] = [at |-> "idle"]]
    BY <1>6 DEF Triage!EndRun, Triage!Crash, Triage!Idle
  <2>2. agent'[r].at = "idle" /\ \A o \in Runners : o # r => agent'[o] = agent[o]
    BY <2>1 DEF TriageTypes
  <2> QED
    BY <1>4, <2>1, <2>2 DEF Told
<1>7. ASSUME NEW r \in Runners, Triage!Ask(r)
      PROVE  Advice'
  <2>1. Told(r)'
    BY <1>7, AskDoes DEF Told
  <2> QED
    BY <1>4, <1>7, <2>1, AskDoes
<1>8. ASSUME NEW r \in Runners, NEW STATE row, agent[r].at = "asked", Triage!Annotate(r, row),
             row.recommendation \in {"confirm_block", "undo_block"} => agent[r].hasAction,
             row.recommendation = "confirm_block" => ~agent[r].whitelisted /\ row.verdict # "likely_benign",
             row.verdict # "needs_human" => row.status = "ok" /\ row.confidence >= MinConfidence
      PROVE  Advice'
  <2> DEFINE first == Head(agent[r].ids)
  <2>0. PICK n \in Nat : n = Len(annotations)
    BY DEF TriageTypes
  <2>1. /\ UNCHANGED <<triageTime, alerts>> /\ Len(annotations') = n + 1
        /\ (\A i \in 1..n : annotations'[i] = annotations[i]) /\ agent'[r].at = "loop"
        /\ \A o \in Runners : o # r => agent'[o] = agent[o]
    BY <1>8, <2>0, AnnotateDoes
  <2>2. annotations'[n + 1] = NewRow(r, row)
    BY <1>8, <2>0, AnnotateDoes
  <2>3. /\ first \in DOMAIN alerts /\ (agent[r].hasAction => alerts[first].action)
        /\ (agent[r].whitelisted <=> alerts[first].whitelisted)
    BY <1>8 DEF Advice, Told
  <2>4. Respects(annotations[n + 1])'
    <3>1. /\ annotations'[n + 1].alert = first /\ annotations'[n + 1].status = row.status
          /\ annotations'[n + 1].verdict = row.verdict /\ annotations'[n + 1].recommendation = row.recommendation
          /\ annotations'[n + 1].confidence = row.confidence
      BY <2>2 DEF NewRow
    <3>2. UNCHANGED alerts /\ Len(annotations') = n + 1
      BY <2>1
    <3> HIDE DEF first
    <3> QED
      BY <1>8, <2>3, <3>1, <3>2 DEF Respects
  <2>5. annotations'[n + 1].at = triageTime /\ triageTime \in Nat /\ n \in Nat
    BY <2>0, <2>2 DEF TriageTypes, NewRow
  <2> HIDE DEF first
  <2>6. \A o \in Runners : Told(o)'
    BY <2>1 DEF Advice, Told
  <2>7. ASSUME NEW i \in 1..(n + 1)
        PROVE  i = n + 1 \/ (i \in 1..n /\ annotations'[i] = annotations[i])
    BY <2>1, <2>5
  <2>8. \A i \in 1..n : Respects(annotations[i])' /\ annotations'[i].at \in 0..triageTime
    BY <2>0, <2>1 DEF Advice, Respects
  <2>9. \A i \in 1..(n + 1) : Respects(annotations[i])' /\ annotations'[i].at \in 0..triageTime
    <3> SUFFICES ASSUME NEW i \in 1..(n + 1) PROVE Respects(annotations[i])' /\ annotations'[i].at \in 0..triageTime
      OBVIOUS
    <3>1. CASE i = n + 1
      BY <2>4, <2>5, <3>1
    <3>2. CASE i # n + 1
      BY <2>7, <2>8, <3>2
    <3> QED
      BY <3>1, <3>2
  <2>10. \A i, j \in 1..(n + 1) : i < j => annotations'[i].at <= annotations'[j].at
    <3> SUFFICES ASSUME NEW i \in 1..(n + 1), NEW j \in 1..(n + 1), i < j PROVE annotations'[i].at <= annotations'[j].at
      OBVIOUS
    <3>1. i \in 1..n
      BY <2>5
    <3>2. CASE j = n + 1
      BY <2>5, <2>8, <3>1, <3>2
    <3>3. CASE j # n + 1
      BY <2>0, <2>7, <3>1, <3>3 DEF Advice
    <3> QED
      BY <3>2, <3>3
  <2> QED
    BY <2>1, <2>6, <2>9, <2>10 DEF Advice
<1>9. ASSUME NEW r \in Runners, Triage!Answer(r)
      PROVE  Advice'
  <2>1. PICK o \in Outputs, cost \in 0..MaxCall :
            Triage!Annotate(r, IF Triage!Valid(o)
                               THEN [Triage!Failed("ok", cost) EXCEPT
                                        !.verdict = Triage!Guarded(o, agent[r].hasAction, agent[r].whitelisted).verdict,
                                        !.recommendation = Triage!Guarded(o, agent[r].hasAction, agent[r].whitelisted).recommendation,
                                        !.confidence = o.confidence]
                               ELSE Triage!Failed("invalid_output", cost))
    BY <1>9 DEF Triage!Answer
  <2>2. agent[r].at = "asked"
    BY <1>9 DEF Triage!Answer
  <2>3. CASE Triage!Valid(o)
    <3> DEFINE kept == Triage!Guarded(o, agent[r].hasAction, agent[r].whitelisted)
               row  == [Triage!Failed("ok", cost) EXCEPT !.verdict = kept.verdict, !.recommendation = kept.recommendation,
                                                         !.confidence = o.confidence]
    <3>1. Triage!Annotate(r, row)
      BY <2>1, <2>3
    <3>2. /\ row.status = "ok" /\ row.verdict = kept.verdict /\ row.recommendation = kept.recommendation
          /\ row.confidence = o.confidence
      BY DEF Triage!Failed
    <3>3. /\ kept.recommendation \in {"confirm_block", "undo_block"} => agent[r].hasAction
          /\ kept.recommendation = "confirm_block" => ~agent[r].whitelisted /\ kept.verdict # "likely_benign"
          /\ kept.verdict # "needs_human" => o.confidence >= MinConfidence
      BY <2>3, GuardedAdvice
    <3> HIDE DEF row, kept
    <3>4. /\ row.recommendation \in {"confirm_block", "undo_block"} => agent[r].hasAction
          /\ row.recommendation = "confirm_block" => ~agent[r].whitelisted /\ row.verdict # "likely_benign"
          /\ row.verdict # "needs_human" => row.status = "ok" /\ row.confidence >= MinConfidence
      BY <3>2, <3>3
    <3> QED
      BY <1>8, <2>2, <3>1, <3>4
  <2>4. CASE ~Triage!Valid(o)
    <3>1. Triage!Annotate(r, Triage!Failed("invalid_output", cost))
      BY <2>1, <2>4
    <3>2. Triage!Failed("invalid_output", cost).recommendation = "none" /\ Triage!Failed("invalid_output", cost).verdict = "needs_human"
      BY DEF Triage!Failed
    <3> QED
      BY <1>8, <2>2, <3>1, <3>2
  <2> QED
    BY <2>3, <2>4
<1>10. ASSUME NEW r \in Runners, Triage!CallFails(r)
       PROVE  Advice'
  <2>1. PICK cost \in {0, MaxCall} : Triage!Annotate(r, Triage!Failed("backend_error", cost))
    BY <1>10 DEF Triage!CallFails
  <2>2. agent[r].at = "asked"
    BY <1>10 DEF Triage!CallFails
  <2>3. Triage!Failed("backend_error", cost).recommendation = "none" /\ Triage!Failed("backend_error", cost).verdict = "needs_human"
    BY DEF Triage!Failed
  <2> QED
    BY <1>8, <2>1, <2>2, <2>3
<1> QED
  BY <1>1, <1>2, <1>3, <1>5, <1>6, <1>7, <1>9, <1>10 DEF Triage!Next

(* The annotation of an alert that was stored last is the one a reader is shown.        *)
LEMMA LastIsShown ==
    ASSUME TriageTypes, Advice, NEW i \in DOMAIN annotations,
           \A j \in (i + 1)..Len(annotations) : annotations[j].alert # annotations[i].alert
    PROVE  Triage!Shown(annotations[i].alert) = annotations[i]
<1> DEFINE own == {k \in DOMAIN annotations : annotations[k].alert = annotations[i].alert}
           Best(k) == \A j \in own : annotations[k].at > annotations[j].at \/ (annotations[k].at = annotations[j].at /\ k >= j)
<1>1. own \subseteq 1..Len(annotations) /\ Len(annotations) \in Nat /\ i \in own
  BY DEF TriageTypes
<1>2. \A k \in own : k \in Nat /\ annotations[k].at \in Nat
  BY <1>1 DEF Advice, TriageTypes
<1>3. \A k \in own : k <= i
  BY <1>1, <1>2
<1>4. \A k \in own : annotations[k].at <= annotations[i].at
  BY <1>1, <1>2, <1>3 DEF Advice
<1>5. Best(i)
  BY <1>1, <1>2, <1>3, <1>4
<1>6. \A k \in own : Best(k) => k = i
  BY <1>1, <1>2, <1>3, <1>4
<1>7. Triage!Shown(annotations[i].alert) = annotations[CHOOSE k \in own : Best(k)]
  BY DEF Triage!Shown
<1> HIDE DEF own, Best
<1>8. (CHOOSE k \in own : Best(k)) = i
  BY <1>1, <1>5, <1>6
<1> QED
  BY <1>7, <1>8

(* No stored annotation contradicts the policy, whatever the model answers and whatever *)
(* happens to the alert in the meantime, and analysts are shown the last one stored.    *)
THEOREM AdviceIsGuardedHolds == Triage!Spec => []Triage!AdviceIsGuarded
<1>1. Triage!Init => TriageTypes /\ Advice
  <2> SUFFICES ASSUME Triage!Init PROVE Advice
    BY TriageTypesInit
  <2>1. annotations = <<>> /\ \A r \in Runners : agent[r].at = "idle"
    BY DEF Triage!Init, Triage!Idle
  <2>2. Len(annotations) = 0 /\ 1..0 = {}
    BY <2>1
  <2> QED
    BY <2>1, <2>2 DEF Advice, Told
<1>2. TriageTypes /\ Advice /\ [Triage!Next]_(Triage!triageVars) => (TriageTypes /\ Advice)'
  BY TriageTypesStep, AdviceStep
<1>3. TriageTypes /\ Advice => Triage!AdviceIsGuarded
  <2> SUFFICES ASSUME TriageTypes, Advice, NEW i \in DOMAIN annotations
               PROVE  /\ Respects(annotations[i])
                      /\ (\A j \in (i + 1)..Len(annotations) : annotations[j].alert # annotations[i].alert)
                            => Triage!Shown(annotations[i].alert) = annotations[i]
    BY DEF Triage!AdviceIsGuarded, Respects
  <2>1. Respects(annotations[i])
    BY DEF Advice, TriageTypes
  <2> QED
    BY <2>1, LastIsShown
<1> QED
  BY <1>1, <1>2, <1>3, PTL DEF Triage!Spec

-----------------------------------------------------------------------------
(* Gate: who reaches a handler.                                              *)

(* A token names an account that had its role when the token was issued, and the history *)
(* knows the accounts of this moment.                                                   *)
TokensAreEarned ==
    /\ clock \in Nat /\ mode.jwt \in BOOLEAN /\ mode.key \in BOOLEAN /\ DOMAIN users = Users
    /\ \A u \in Users : users[u] # "none" => \E h \in held : h[1] = u /\ h[2] = users[u] /\ h[3] = clock
    /\ \A t \in tokens : \E h \in held :
         h[1] = t.sub /\ h[2] = t.role /\ h[3] \in Nat /\ t.exp = h[3] + TokenLife

LEMMA ServeIsAllowed ==
    ASSUME TokensAreEarned, NEW a \in Addresses, Gate!Serve(a)
    PROVE  Gate!ServedIsAllowed'
<1>1. PICK route \in Gate!Routes, t \in tokens \cup {Gate!NoToken}, key \in BOOLEAN :
            /\ Gate!KeyRequired(route) => key
            /\ Gate!HasRole(route, t)
            /\ Gate!Effect(route)
            /\ served' = [route |-> route, token |-> t, key |-> key, at |-> clock]
  BY DEF Gate!Serve
<1>2. mode' = mode /\ held \subseteq held'
  BY <1>1 DEF Gate!Serve, Gate!Effect
<1>3. served'.route = route /\ served'.token = t /\ served'.key = key /\ served'.at = clock
  BY <1>1
<1> SUFFICES ASSUME route \notin {"probe", "login"}
             PROVE  /\ mode.key /\ ~mode.jwt => key
                    /\ mode.jwt => \E h \in held' : /\ h[1] = t.sub /\ h[2] \in Gate!AllowedRoles(route)
                                                     /\ h[3] > clock - TokenLife
  BY <1>2, <1>3 DEF Gate!ServedIsAllowed, Gate!AllowedRoles, Gate!Roles
<1>4. mode.key /\ ~mode.jwt => key
  BY <1>1 DEF Gate!KeyRequired
<1>5. ASSUME mode.jwt
      PROVE  \E h \in held' : h[1] = t.sub /\ h[2] \in Gate!AllowedRoles(route) /\ h[3] > clock - TokenLife
  <2>1. clock < t.exp /\ t.role \in Gate!AllowedRoles(route)
    BY <1>1, <1>5 DEF Gate!HasRole
  <2>2. t \in tokens
    <3>1. Gate!NoToken.exp = 0 /\ clock \in Nat
      BY DEF Gate!NoToken, TokensAreEarned
    <3>2. ~(clock < Gate!NoToken.exp)
      BY <3>1
    <3> QED
      BY <2>1, <3>2
  <2>3. PICK h \in held : h[1] = t.sub /\ h[2] = t.role /\ h[3] \in Nat /\ t.exp = h[3] + TokenLife
    BY <2>2 DEF TokensAreEarned
  <2>4. clock \in Nat /\ TokenLife \in Nat
    BY GateAssumption DEF TokensAreEarned
  <2>5. h[3] > clock - TokenLife
    BY <2>1, <2>3, <2>4
  <2> QED
    BY <1>2, <2>1, <2>3, <2>5
<1> QED
  BY <1>4, <1>5

LEMMA EffectKeepsTokens ==
    ASSUME TokensAreEarned, NEW route, Gate!Effect(route), UNCHANGED <<mode, clock>>
    PROVE  TokensAreEarned'
<1>0. clock \in Nat /\ TokenLife \in Nat /\ DOMAIN users = Users
  BY GateAssumption DEF TokensAreEarned
<1>1. CASE UNCHANGED <<users, held, tokens>>
  BY <1>1 DEF TokensAreEarned
<1>2. ASSUME NEW u \in Users, users[u] # "none", UNCHANGED <<users, held>>,
             tokens' = tokens \cup {[sub |-> u, role |-> users[u], exp |-> clock + TokenLife]}
      PROVE  TokensAreEarned'
  <2> DEFINE new == [sub |-> u, role |-> users[u], exp |-> clock + TokenLife]
  <2>1. PICK h \in held : h[1] = u /\ h[2] = users[u] /\ h[3] = clock
    BY <1>2 DEF TokensAreEarned
  <2>2. h[1] = new.sub /\ h[2] = new.role /\ h[3] \in Nat /\ new.exp = h[3] + TokenLife
    BY <1>0, <2>1
  <2>3. tokens' = tokens \cup {new}
    BY <1>2
  <2> HIDE DEF new
  <2>4. \A t \in tokens' : \E x \in held : x[1] = t.sub /\ x[2] = t.role /\ x[3] \in Nat /\ t.exp = x[3] + TokenLife
    BY <2>2, <2>3 DEF TokensAreEarned
  <2> QED
    BY <1>2, <2>4 DEF TokensAreEarned
<1>3. ASSUME NEW u \in Users, NEW r \in Gate!Roles, users' = [users EXCEPT ![u] = r],
             held' = held \cup {<<u, r, clock>>}, UNCHANGED tokens
      PROVE  TokensAreEarned'
  <2>1. DOMAIN users' = Users /\ \A x \in Users : users'[x] = IF x = u THEN r ELSE users[x]
    BY <1>0, <1>3
  <2>2. \A x \in Users : users'[x] # "none" => \E h \in held' : h[1] = x /\ h[2] = users'[x] /\ h[3] = clock
    <3> SUFFICES ASSUME NEW x \in Users, users'[x] # "none" PROVE \E h \in held' : h[1] = x /\ h[2] = users'[x] /\ h[3] = clock
      OBVIOUS
    <3>1. CASE x = u
      <4>1. <<u, r, clock>> \in held' /\ users'[x] = r
        BY <1>3, <2>1, <3>1
      <4> QED
        BY <3>1, <4>1
    <3>2. CASE x # u
      BY <1>3, <2>1, <3>2 DEF TokensAreEarned
    <3> QED
      BY <3>1, <3>2
  <2>3. held \subseteq held'
    BY <1>3
  <2> QED
    BY <1>3, <2>1, <2>2, <2>3 DEF TokensAreEarned
<1>4. ASSUME NEW u \in Users, users' = [users EXCEPT ![u] = "none"], UNCHANGED <<held, tokens>>
      PROVE  TokensAreEarned'
  <2>1. DOMAIN users' = Users /\ \A x \in Users : users'[x] # "none" => users'[x] = users[x]
    BY <1>0, <1>4
  <2> QED
    BY <1>4, <2>1 DEF TokensAreEarned
<1> QED
  BY <1>1, <1>2, <1>3, <1>4 DEF Gate!Effect

LEMMA GateKeeps ==
    ASSUME TokensAreEarned, Gate!ServedIsAllowed, [Gate!Next]_(Gate!gateVars)
    PROVE  TokensAreEarned' /\ Gate!ServedIsAllowed'
<1>1. ASSUME UNCHANGED <<mode, clock, users, held, tokens, served>>
      PROVE  TokensAreEarned' /\ Gate!ServedIsAllowed'
  BY <1>1 DEF TokensAreEarned, Gate!ServedIsAllowed, Gate!AllowedRoles
<1>2. CASE Gate!Tick
  <2>1. /\ clock' = clock + 1 /\ clock \in Nat /\ UNCHANGED <<mode, users, tokens, served>> /\ DOMAIN users = Users
        /\ held' = held \cup {<<u, users[u], clock'>> : u \in {v \in Users : users[v] # "none"}}
    BY <1>2 DEF Gate!Tick, TokensAreEarned
  <2>2. \A u \in Users : users[u] # "none" => <<u, users[u], clock'>> \in held'
    BY <2>1
  <2>3. held \subseteq held' /\ clock' \in Nat
    BY <2>1
  <2>4. TokensAreEarned'
    <3>1. \A u \in Users : users[u] # "none" => \E h \in held' : h[1] = u /\ h[2] = users[u] /\ h[3] = clock'
      BY <2>2
    <3> QED
      BY <2>1, <2>3, <3>1 DEF TokensAreEarned
  <2>5. Gate!ServedIsAllowed'
    BY <2>1, <2>3 DEF Gate!ServedIsAllowed, Gate!AllowedRoles
  <2> QED
    BY <2>4, <2>5
<1>3. ASSUME NEW a \in Addresses, Gate!Serve(a)
      PROVE  TokensAreEarned' /\ Gate!ServedIsAllowed'
  <2>1. \E route : Gate!Effect(route) /\ UNCHANGED <<mode, clock>>
    BY <1>3 DEF Gate!Serve
  <2> QED
    BY <1>3, <2>1, EffectKeepsTokens, ServeIsAllowed
<1> QED
  BY <1>1, <1>2, <1>3 DEF Gate!Next, Gate!gateVars, Gate!PruneInactive, Gate!Refuse, Gate!Deny

(* A handler is reached with the key or with a role its route allows, and with a role only  *)
(* if the account had it within the life of a token, whatever happens to accounts meanwhile. *)
THEOREM ServedIsAllowedHolds == Gate!Spec => []Gate!ServedIsAllowed
<1>1. Gate!Init => TokensAreEarned /\ Gate!ServedIsAllowed
  <2> SUFFICES ASSUME Gate!Init PROVE TokensAreEarned /\ Gate!ServedIsAllowed
    OBVIOUS
  <2>1. /\ clock = 0 /\ tokens = {} /\ mode \in [jwt : BOOLEAN, key : BOOLEAN]
        /\ users = [u \in Users |-> IF u = FirstAdmin THEN "admin" ELSE "none"]
        /\ held = {<<FirstAdmin, "admin", 0>>}
        /\ served.route = "probe"
    BY DEF Gate!Init
  <2>2. \A u \in Users : users[u] # "none" => u = FirstAdmin /\ users[u] = "admin"
    BY <2>1
  <2>3. <<FirstAdmin, "admin", 0>> \in held
    BY <2>1
  <2>4. \A u \in Users : users[u] # "none" => \E h \in held : h[1] = u /\ h[2] = users[u] /\ h[3] = clock
    BY <2>1, <2>2, <2>3
  <2>5. mode.jwt \in BOOLEAN /\ mode.key \in BOOLEAN /\ DOMAIN users = Users /\ clock \in Nat
    BY <2>1
  <2>6. TokensAreEarned
    BY <2>1, <2>4, <2>5 DEF TokensAreEarned
  <2> QED
    BY <2>1, <2>6 DEF Gate!ServedIsAllowed
<1>2. TokensAreEarned /\ Gate!ServedIsAllowed /\ [Gate!Next]_(Gate!gateVars)
        => (TokensAreEarned /\ Gate!ServedIsAllowed)'
  BY GateKeeps
<1> QED
  BY <1>1, <1>2, PTL DEF Gate!Spec

-----------------------------------------------------------------------------
(* Assets: counters on their way to the table of hosts.                      *)

Numbers == {"out", "inn"}
Lists   == {"listen", "called", "peers"}
Columns == {"out", "inn", "listen", "called", "peers", "kind"}

LEMMA AssetsCardinality == ASSUME NEW S PROVE Assets!Cardinality(S) = Cardinality(S)
BY DEF Assets!Cardinality, Cardinality, Assets!IsFiniteSet, IsFiniteSet

LEMMA AddIs ==
    ASSUME NEW c, NEW d
    PROVE  /\ \A k \in Numbers : Assets!Add(c, d)[k] = c[k] + d[k]
           /\ \A k \in Lists : Assets!Add(c, d)[k] = c[k] \cup d[k]
BY DEF Assets!Add, Numbers, Lists

LEMMA NothingIs ==
    /\ \A k \in Numbers : Assets!Nothing[k] = 0 /\ Assets!NoRow[k] = 0
    /\ \A k \in Lists : Assets!Nothing[k] = {} /\ Assets!NoRow[k] = {}
    /\ DOMAIN Assets!NoRow = Columns
BY DEF Assets!Nothing, Assets!NoRow, Numbers, Lists, Columns

(* A set that is not too long keeps all of its members.                                *)
LEMMA CapKeeps ==
    ASSUME NEW S, IsFiniteSet(S), S \subseteq Nat, Cardinality(S) <= SetCap
    PROVE  Assets!Cap(S) = S
<1> SUFFICES ASSUME NEW x \in S PROVE Cardinality({y \in S : y < x}) < SetCap
  BY AssetsCardinality DEF Assets!Cap
<1>1. {y \in S : y < x} \subseteq S \ {x}
  OBVIOUS
<1>2. IsFiniteSet(S \ {x}) /\ Cardinality(S \ {x}) = Cardinality(S) - 1 /\ Cardinality(S) \in Nat
  BY FS_RemoveElement, FS_CardinalityType
<1>3. Cardinality({y \in S : y < x}) <= Cardinality(S \ {x}) /\ IsFiniteSet({y \in S : y < x})
  BY <1>1, <1>2, FS_Subset
<1>4. Cardinality({y \in S : y < x}) \in Nat /\ SetCap \in Nat
  BY <1>3, FS_CardinalityType, AssetAssumption
<1> QED
  BY <1>2, <1>3, <1>4

LEMMA ClassifySame ==
    ASSUME NEW c, NEW d, c.out = d.out, c.inn = d.inn, c.listen = d.listen, c.called = d.called, c.peers = d.peers
    PROVE  Assets!Classify(c) = Assets!Classify(d)
BY DEF Assets!Classify

LEMMA MergedIs ==
    ASSUME NEW row, NEW c
    PROVE  /\ DOMAIN Assets!Merged(row, c) = Columns
           /\ \A k \in Numbers : Assets!Merged(row, c)[k] = row[k] + c[k]
           /\ \A k \in Lists : Assets!Merged(row, c)[k] = Assets!Cap(row[k] \cup c[k])
           /\ Assets!Merged(row, c).kind = Assets!Classify(Assets!Merged(row, c))
           /\ \A new : new = Assets!Merged(row, c) => new = [k \in Columns |-> new[k]]
<1> DEFINE sum == [Assets!Add(row, c) EXCEPT !.listen = Assets!Cap(@), !.called = Assets!Cap(@), !.peers = Assets!Cap(@)]
           m   == [k \in Columns |-> IF k = "kind" THEN Assets!Classify(sum) ELSE sum[k]]
<1>1. /\ sum.out = row.out + c.out /\ sum.inn = row.inn + c.inn /\ sum.listen = Assets!Cap(row.listen \cup c.listen)
      /\ sum.called = Assets!Cap(row.called \cup c.called) /\ sum.peers = Assets!Cap(row.peers \cup c.peers)
  BY DEF Assets!Add
<1>2. Assets!Merged(row, c) = m
  BY NothingIs DEF Assets!Merged
<1> HIDE DEF sum
<1>3. m.out = sum.out /\ m.inn = sum.inn /\ m.listen = sum.listen /\ m.called = sum.called /\ m.peers = sum.peers
      /\ m.kind = Assets!Classify(sum) /\ DOMAIN m = Columns
  BY DEF Columns
<1>4. m = [k \in Columns |-> m[k]]
  OBVIOUS
<1> HIDE DEF m
<1>5. Assets!Classify(m) = Assets!Classify(sum)
  BY <1>3, ClassifySame
<1>6. \A k \in Numbers : m[k] = row[k] + c[k]
  BY <1>1, <1>3 DEF Numbers
<1>7. \A k \in Lists : m[k] = Assets!Cap(row[k] \cup c[k])
  BY <1>1, <1>3 DEF Lists
<1> QED
  BY <1>2, <1>3, <1>4, <1>5, <1>6, <1>7

-----------------------------------------------------------------------------

Counter(c) == \A k \in Numbers : c[k] \in Nat
Row(r)     == Counter(r) /\ DOMAIN r = Columns
UnderWay   == {"read", "write"}

AssetTypes ==
    /\ assetStop \in BOOLEAN /\ clashed \in BOOLEAN
    /\ DOMAIN hosts \subseteq Lan /\ \A x \in DOMAIN hosts : Counter(hosts[x])
    /\ \A x \in Lan : Row(profiles[x]) /\ Counter(observed[x]) /\ Counter(lost[x])
    /\ \A x \in Lan, k \in Lists : IsFiniteSet(observed[x][k]) /\ observed[x][k] \subseteq Nat
    /\ DOMAIN flush = Assets!Flushers /\ DOMAIN drained = Assets!Flushers /\ DOMAIN snap = Assets!Flushers
    /\ \A f \in Assets!Flushers :
         /\ flush[f] \in {"idle", "read", "write", "dead", "done"}
         /\ DOMAIN drained[f] \subseteq Lan /\ (\A x \in DOMAIN drained[f] : Counter(drained[f][x]))
         /\ flush[f] \notin UnderWay => DOMAIN drained[f] = {}
         /\ \A x \in Lan : Row(snap[f][x])

(* A flow adds to the counters of a host it has room for, and to its lists where they have. *)
LEMMA CountedIs ==
    ASSUME NEW table, NEW ip, NEW c, DOMAIN table \subseteq Lan, Counter(c), \A x \in DOMAIN table : Counter(table[x]),
           NEW new, new = Assets!Counted(table, ip, c)
    PROVE  /\ DOMAIN table \subseteq DOMAIN new /\ DOMAIN new \subseteq Lan /\ DOMAIN new \subseteq DOMAIN table \cup {ip}
           /\ \A x \in DOMAIN table : x # ip => new[x] = table[x]
           /\ ip \in DOMAIN table =>
                /\ \A k \in Numbers : new[ip][k] = table[ip][k] + c[k]
                /\ \A k \in Lists : new[ip][k] = Assets!Room(table[ip][k], c[k])
           /\ ip \notin DOMAIN table /\ ip \in DOMAIN new => new[ip] = c
           /\ \A x \in DOMAIN new : Counter(new[x])
<1> DEFINE old == table[ip]
           upd == [out |-> old.out + c.out, inn |-> old.inn + c.inn, listen |-> Assets!Room(old.listen, c.listen),
                   called |-> Assets!Room(old.called, c.called), peers |-> Assets!Room(old.peers, c.peers)]
<1>1. CASE ip \in DOMAIN table
  <2>1. new = [table EXCEPT ![ip] = upd]
    BY <1>1 DEF Assets!Counted
  <2>2. (\A k \in Numbers : upd[k] = old[k] + c[k]) /\ \A k \in Lists : upd[k] = Assets!Room(old[k], c[k])
    BY DEF Numbers, Lists
  <2> HIDE DEF upd
  <2>3. DOMAIN new = DOMAIN table /\ new[ip] = upd /\ \A x \in DOMAIN table : x # ip => new[x] = table[x]
    BY <1>1, <2>1
  <2>4. Counter(upd)
    BY <1>1, <2>2 DEF Counter
  <2> QED
    BY <1>1, <2>2, <2>3, <2>4
<1>2. CASE ip \notin DOMAIN table /\ ip \in Lan /\ Assets!Cardinality(DOMAIN table) < MaxHosts
  <2>1. new = [x \in DOMAIN table \cup {ip} |-> IF x = ip THEN c ELSE table[x]]
    BY <1>2 DEF Assets!Counted
  <2>2. DOMAIN new = DOMAIN table \cup {ip} /\ new[ip] = c /\ \A x \in DOMAIN table : x # ip => new[x] = table[x]
    BY <2>1
  <2> QED
    BY <1>2, <2>2
<1>3. CASE ip \notin DOMAIN table /\ ~(ip \in Lan /\ Assets!Cardinality(DOMAIN table) < MaxHosts)
  <2>1. new = table
    BY <1>3 DEF Assets!Counted
  <2> QED
    BY <1>3, <2>1
<1> QED
  BY <1>1, <1>2, <1>3

(* What a flow does to a host: nothing at all, or it is observed and counted.            *)
Counts(x, d) ==
    /\ \A k \in Numbers : /\ d[k] \in Nat /\ observed'[x][k] = observed[x][k] + d[k]
                          /\ Assets!InMemory(x)'[k] = Assets!InMemory(x)[k] + d[k]
    /\ \A k \in Lists : /\ IsFiniteSet(d[k]) /\ d[k] \subseteq Nat /\ observed'[x][k] = observed[x][k] \cup d[k]
                        /\ \/ Assets!InMemory(x)'[k] = Assets!InMemory(x)[k] \cup d[k]
                           \/ /\ ~(Cardinality(Assets!InMemory(x)[k]) < SetCap)
                              /\ Assets!InMemory(x)'[k] = Assets!InMemory(x)[k]

LEMMA CountsIs ==
    ASSUME AssetTypes, NEW x \in Lan, NEW d, Counter(d), x \in DOMAIN hosts',
           \A k \in Lists : IsFiniteSet(d[k]) /\ d[k] \subseteq Nat,
           observed'[x] = Assets!Add(observed[x], d),
           x \in DOMAIN hosts => /\ \A k \in Numbers : hosts'[x][k] = hosts[x][k] + d[k]
                                 /\ \A k \in Lists : hosts'[x][k] = Assets!Room(hosts[x][k], d[k]),
           x \notin DOMAIN hosts => hosts'[x] = d
    PROVE  Counts(x, d)
<1>1. Assets!InMemory(x)' = hosts'[x] /\ Assets!InMemory(x) = IF x \in DOMAIN hosts THEN hosts[x] ELSE Assets!Nothing
  BY DEF Assets!InMemory
<1>2. /\ \A k \in Numbers : observed'[x][k] = observed[x][k] + d[k]
      /\ \A k \in Lists : observed'[x][k] = observed[x][k] \cup d[k]
  BY AddIs
<1>3. \A k \in Numbers : d[k] \in Nat
  BY DEF Counter
<1>4. CASE x \in DOMAIN hosts
  <2>1. \A k \in Lists : hosts'[x][k] = IF Cardinality(hosts[x][k]) < SetCap THEN hosts[x][k] \cup d[k] ELSE hosts[x][k]
    BY <1>4, AssetsCardinality DEF Assets!Room
  <2> QED
    BY <1>1, <1>2, <1>3, <1>4, <2>1 DEF Counts
<1>5. CASE x \notin DOMAIN hosts
  <2>1. \A k \in Numbers : 0 + d[k] = d[k]
    BY <1>3
  <2> QED
    BY <1>1, <1>2, <1>3, <1>5, <2>1, NothingIs DEF Counts
<1> QED
  BY <1>4, <1>5

LEMMA ObserveDoes ==
    ASSUME AssetTypes, Assets!Observe
    PROVE  /\ UNCHANGED <<profiles, flush, drained, snap, lost, assetStop, clashed>>
           /\ DOMAIN hosts' \subseteq Lan /\ \A x \in DOMAIN hosts' : Counter(hosts'[x])
           /\ \A x \in Lan : \/ Assets!InMemory(x)' = Assets!InMemory(x) /\ observed'[x] = observed[x]
                             \/ \E d : Counts(x, d)
<1>0. UNCHANGED <<profiles, flush, drained, snap, lost, assetStop, clashed>>
  BY DEF Assets!Observe
<1>1. PICK src \in Lan \cup Wan, dst \in Lan \cup Wan, port \in Ports :
        /\ src # dst
        /\ LET asked == [Assets!Nothing EXCEPT !.out = 1, !.called = {port}, !.peers = {dst}]
               heard == [Assets!Nothing EXCEPT !.inn = 1, !.listen = {port}, !.peers = {src}]
               table == Assets!Counted(Assets!Counted(hosts, src, asked), dst, heard)
           IN  /\ hosts' = table
               /\ observed' = [ip \in Lan |->
                    IF ip \notin DOMAIN table THEN observed[ip]
                    ELSE IF ip = src THEN Assets!Add(observed[ip], asked)
                    ELSE IF ip = dst THEN Assets!Add(observed[ip], heard)
                    ELSE observed[ip]]
  BY DEF Assets!Observe
<1> DEFINE asked == [Assets!Nothing EXCEPT !.out = 1, !.called = {port}, !.peers = {dst}]
           heard == [Assets!Nothing EXCEPT !.inn = 1, !.listen = {port}, !.peers = {src}]
           first == Assets!Counted(hosts, src, asked)
           table == Assets!Counted(first, dst, heard)
<1>2. /\ hosts' = table /\ src # dst
      /\ observed' = [ip \in Lan |-> IF ip \notin DOMAIN table THEN observed[ip]
                                     ELSE IF ip = src THEN Assets!Add(observed[ip], asked)
                                     ELSE IF ip = dst THEN Assets!Add(observed[ip], heard)
                                     ELSE observed[ip]]
  BY <1>1
<1>3. {port} \subseteq Nat /\ {src} \subseteq Nat /\ {dst} \subseteq Nat
  BY AssetAssumption
<1>4. IsFiniteSet({port}) /\ IsFiniteSet({src}) /\ IsFiniteSet({dst}) /\ IsFiniteSet({})
  BY FS_Singleton, FS_EmptySet
<1>5. /\ asked.out = 1 /\ asked.inn = 0 /\ asked.listen = {} /\ asked.called = {port} /\ asked.peers = {dst}
      /\ heard.out = 0 /\ heard.inn = 1 /\ heard.listen = {port} /\ heard.called = {} /\ heard.peers = {src}
  BY DEF Assets!Nothing
<1> HIDE DEF asked, heard
<1>6. Counter(asked) /\ Counter(heard)
  BY <1>5 DEF Counter, Numbers
<1>7. \A k \in Lists : /\ IsFiniteSet(asked[k]) /\ asked[k] \subseteq Nat
                       /\ IsFiniteSet(heard[k]) /\ heard[k] \subseteq Nat
  BY <1>3, <1>4, <1>5 DEF Lists
<1>8. /\ DOMAIN hosts \subseteq DOMAIN first /\ DOMAIN first \subseteq Lan /\ DOMAIN first \subseteq DOMAIN hosts \cup {src}
      /\ \A x \in DOMAIN hosts : x # src => first[x] = hosts[x]
      /\ src \in DOMAIN hosts => /\ \A k \in Numbers : first[src][k] = hosts[src][k] + asked[k]
                                 /\ \A k \in Lists : first[src][k] = Assets!Room(hosts[src][k], asked[k])
      /\ src \notin DOMAIN hosts /\ src \in DOMAIN first => first[src] = asked
      /\ \A x \in DOMAIN first : Counter(first[x])
  <2>1. DOMAIN hosts \subseteq Lan /\ \A x \in DOMAIN hosts : Counter(hosts[x])
    BY DEF AssetTypes
  <2>2. first = Assets!Counted(hosts, src, asked)
    OBVIOUS
  <2> HIDE DEF first
  <2> QED
    BY <1>6, <2>1, <2>2, CountedIs
<1> HIDE DEF first
<1>9. /\ DOMAIN first \subseteq DOMAIN table /\ DOMAIN table \subseteq Lan /\ DOMAIN table \subseteq DOMAIN first \cup {dst}
      /\ \A x \in DOMAIN first : x # dst => table[x] = first[x]
      /\ dst \in DOMAIN first => /\ \A k \in Numbers : table[dst][k] = first[dst][k] + heard[k]
                                 /\ \A k \in Lists : table[dst][k] = Assets!Room(first[dst][k], heard[k])
      /\ dst \notin DOMAIN first /\ dst \in DOMAIN table => table[dst] = heard
      /\ \A x \in DOMAIN table : Counter(table[x])
  <2>1. table = Assets!Counted(first, dst, heard)
    OBVIOUS
  <2> HIDE DEF table
  <2> QED
    BY <1>6, <1>8, <2>1, CountedIs
<1> HIDE DEF table
<1>10. ASSUME NEW x \in Lan
       PROVE  \/ Assets!InMemory(x)' = Assets!InMemory(x) /\ observed'[x] = observed[x]
              \/ \E d : Counts(x, d)
  <2>1. CASE x \notin DOMAIN table
    <3>1. x \notin DOMAIN hosts /\ x \notin DOMAIN hosts' /\ observed'[x] = observed[x]
      BY <1>2, <1>8, <1>9, <2>1
    <3> QED
      BY <3>1 DEF Assets!InMemory
  <2>2. CASE x \in DOMAIN table /\ x = src
    <3>1. x # dst /\ x \in DOMAIN first /\ table[x] = first[x]
      BY <1>2, <1>9, <2>2
    <3>2. observed'[x] = Assets!Add(observed[x], asked) /\ hosts'[x] = first[x] /\ x \in DOMAIN hosts'
      BY <1>2, <2>2, <3>1
    <3>3. Counts(x, asked)
      BY <1>6, <1>7, <1>8, <2>2, <3>1, <3>2, CountsIs
    <3> QED
      BY <3>3
  <2>3. CASE x \in DOMAIN table /\ x = dst
    <3>1. x # src /\ (x \in DOMAIN first <=> x \in DOMAIN hosts) /\ (x \in DOMAIN hosts => first[x] = hosts[x])
      BY <1>2, <1>8, <2>3
    <3>2. observed'[x] = Assets!Add(observed[x], heard) /\ hosts'[x] = table[x] /\ x \in DOMAIN hosts'
      BY <1>2, <2>3, <3>1
    <3>3. Counts(x, heard)
      BY <1>6, <1>7, <1>9, <2>3, <3>1, <3>2, CountsIs
    <3> QED
      BY <3>3
  <2>4. CASE x \in DOMAIN table /\ x # src /\ x # dst
    <3>1. x \in DOMAIN hosts /\ table[x] = hosts[x] /\ observed'[x] = observed[x] /\ x \in DOMAIN hosts' /\ hosts'[x] = table[x]
      BY <1>2, <1>8, <1>9, <2>4
    <3> QED
      BY <3>1 DEF Assets!InMemory
  <2> QED
    BY <2>1, <2>2, <2>3, <2>4
<1> QED
  BY <1>0, <1>2, <1>9, <1>10

(* The steps of a flush, for one host.                                                  *)
LEMMA DrainDoes ==
    ASSUME AssetTypes, NEW f \in Assets!Flushers, Assets!Drain(f)
    PROVE  /\ UNCHANGED <<profiles, snap, observed, lost, assetStop>> /\ DOMAIN hosts' = {}
           /\ flush[f] = "idle" /\ flush'[f] = "read" /\ DOMAIN flush' = Assets!Flushers
           /\ DOMAIN drained' = Assets!Flushers /\ drained'[f] = hosts
           /\ \A g \in Assets!Flushers : g # f => flush'[g] = flush[g] /\ drained'[g] = drained[g]
           /\ IF f = "main" THEN assetStop ELSE ~assetStop
           /\ clashed' = (clashed \/ \E g \in Assets!Flushers \ {f} : flush[g] \in UnderWay)
           /\ \A x \in Lan : Assets!Held(f, x)' = Assets!InMemory(x) /\ Assets!InMemory(x)' = Assets!Nothing
<1>1. /\ UNCHANGED <<profiles, snap, observed, lost, assetStop>> /\ flush[f] = "idle"
      /\ flush' = [flush EXCEPT ![f] = "read"] /\ drained' = [drained EXCEPT ![f] = hosts]
      /\ hosts' = [x \in {} |-> Assets!Nothing]
      /\ clashed' = (clashed \/ \E g \in Assets!Flushers \ {f} : flush[g] \in UnderWay)
      /\ IF f = "main" THEN assetStop ELSE ~assetStop
  BY DEF Assets!Drain, Assets!Swapped, Assets!MayFlush, UnderWay
<1>2. /\ DOMAIN hosts' = {} /\ flush'[f] = "read" /\ DOMAIN flush' = Assets!Flushers
      /\ DOMAIN drained' = Assets!Flushers /\ drained'[f] = hosts
      /\ \A g \in Assets!Flushers : g # f => flush'[g] = flush[g] /\ drained'[g] = drained[g]
  BY <1>1 DEF AssetTypes
<1>3. \A x \in Lan : Assets!Held(f, x)' = Assets!InMemory(x) /\ Assets!InMemory(x)' = Assets!Nothing
  BY <1>2 DEF Assets!Held, Assets!InMemory
<1> QED
  BY <1>1, <1>2, <1>3

Emptied(f) ==
    /\ DOMAIN drained' = Assets!Flushers /\ DOMAIN drained'[f] = {}
    /\ \A g \in Assets!Flushers : g # f => drained'[g] = drained[g]
    /\ \A x \in Lan : Assets!Held(f, x)' = Assets!Nothing

LEMMA ForgetDoes ==
    ASSUME AssetTypes, NEW f \in Assets!Flushers, Assets!InitFails(f) \/ Assets!FlushFails(f)
    PROVE  /\ UNCHANGED <<hosts, profiles, snap, observed, assetStop, clashed>> /\ Emptied(f)
           /\ DOMAIN flush' = Assets!Flushers /\ flush[f] \in UnderWay
           /\ (flush'[f] \in {"dead", "done"} \/ (flush'[f] = "idle" /\ f # "main"))
           /\ \A g \in Assets!Flushers : g # f => flush'[g] = flush[g]
           /\ \A x \in Lan :
                /\ \A k \in Numbers : lost'[x][k] = lost[x][k] + Assets!Held(f, x)[k]
                /\ \A k \in Lists : lost'[x][k] = lost[x][k] \cup Assets!Held(f, x)[k]
<1>1. /\ UNCHANGED <<hosts, profiles, snap, observed, assetStop, clashed>> /\ flush[f] \in UnderWay
      /\ flush' = [flush EXCEPT ![f] = "dead"] \/ flush' = [flush EXCEPT ![f] = IF f = "main" THEN "done" ELSE "idle"]
      /\ lost' = [x \in Lan |-> IF x \in DOMAIN drained[f] THEN Assets!Add(lost[x], drained[f][x]) ELSE lost[x]]
      /\ drained' = [drained EXCEPT ![f] = [x \in {} |-> Assets!Nothing]]
  BY DEF Assets!InitFails, Assets!FlushFails, Assets!Forget, UnderWay
<1>2. /\ DOMAIN flush' = Assets!Flushers /\ (\A g \in Assets!Flushers : g # f => flush'[g] = flush[g])
      /\ (flush'[f] \in {"dead", "done"} \/ (flush'[f] = "idle" /\ f # "main"))
  BY <1>1 DEF AssetTypes
<1>3. Emptied(f)
  <2>1. /\ DOMAIN drained' = Assets!Flushers /\ DOMAIN drained'[f] = {}
        /\ \A g \in Assets!Flushers : g # f => drained'[g] = drained[g]
    BY <1>1 DEF AssetTypes
  <2> QED
    BY <2>1 DEF Emptied, Assets!Held
<1>4. ASSUME NEW x \in Lan
      PROVE  /\ \A k \in Numbers : lost'[x][k] = lost[x][k] + Assets!Held(f, x)[k]
             /\ \A k \in Lists : lost'[x][k] = lost[x][k] \cup Assets!Held(f, x)[k]
  <2>1. CASE x \in DOMAIN drained[f]
    <3>1. lost'[x] = Assets!Add(lost[x], drained[f][x]) /\ Assets!Held(f, x) = drained[f][x]
      BY <1>1, <2>1 DEF Assets!Held
    <3> QED
      BY <3>1, AddIs
  <2>2. CASE x \notin DOMAIN drained[f]
    <3>1. lost'[x] = lost[x] /\ Assets!Held(f, x) = Assets!Nothing
      BY <1>1, <2>2 DEF Assets!Held
    <3>2. \A k \in Numbers : lost[x][k] + 0 = lost[x][k]
      BY DEF AssetTypes, Counter
    <3> QED
      BY <3>1, <3>2, NothingIs
  <2> QED
    BY <2>1, <2>2
<1> QED
  BY <1>1, <1>2, <1>3, <1>4

LEMMA ReadDoes ==
    ASSUME AssetTypes, NEW f \in Assets!Flushers, Assets!Read(f)
    PROVE  /\ UNCHANGED <<hosts, profiles, drained, observed, lost, assetStop, clashed>>
           /\ flush[f] = "read" /\ flush'[f] = "write" /\ DOMAIN flush' = Assets!Flushers
           /\ snap'[f] = profiles /\ DOMAIN snap' = Assets!Flushers
           /\ \A g \in Assets!Flushers : g # f => flush'[g] = flush[g] /\ snap'[g] = snap[g]
BY DEF Assets!Read, AssetTypes

(* The UPDATE of a row that is still the one read stores what was computed; otherwise no    *)
(* counter becomes larger than with what is added to it.                                   *)
LEMMA UpdatedIs ==
    ASSUME NEW row, NEW read, NEW c, Row(row), Row(read), Counter(c), \A k \in Numbers : read[k] <= row[k]
    PROVE  LET new == Assets!Updated(row, read, Assets!Merged(read, c))
           IN  /\ Row(new) /\ (\A k \in Numbers : new[k] <= row[k] + c[k] /\ new[k] >= read[k])
               /\ read = row => new = Assets!Merged(row, c)
<1> DEFINE m   == Assets!Merged(read, c)
           new == Assets!Updated(row, read, m)
<1>1. DOMAIN m = Columns /\ (\A k \in Numbers : m[k] = read[k] + c[k]) /\ m = [k \in Columns |-> m[k]]
  BY MergedIs
<1> HIDE DEF m
<1>2. new = [k \in Columns |-> IF m[k] # read[k] THEN m[k] ELSE row[k]]
  BY DEF Assets!Updated, Row
<1> HIDE DEF new
<1>3. \A k \in Numbers : row[k] \in Nat /\ read[k] \in Nat /\ c[k] \in Nat /\ read[k] <= row[k] /\ k \in Columns
  BY DEF Row, Counter, Numbers, Columns
<1>4. \A k \in Numbers : new[k] = IF m[k] # read[k] THEN m[k] ELSE row[k]
  BY <1>2, <1>3
<1>5. \A k \in Numbers : new[k] \in Nat /\ new[k] <= row[k] + c[k] /\ new[k] >= read[k]
  BY <1>1, <1>3, <1>4
<1>6. Row(new)
  BY <1>2, <1>5 DEF Row, Counter
<1>7. ASSUME read = row PROVE new = m
  <2>1. \A k \in Columns : (IF m[k] # read[k] THEN m[k] ELSE row[k]) = m[k]
    BY <1>7
  <2> QED
    BY <1>1, <1>2, <2>1
<1> QED
  BY <1>5, <1>6, <1>7 DEF m, new

LEMMA WriteDoes ==
    ASSUME AssetTypes, NEW f \in Assets!Flushers, Assets!Write(f),
           \A x \in Lan, k \in Numbers : snap[f][x][k] <= profiles[x][k]
    PROVE  /\ UNCHANGED <<hosts, snap, observed, lost, assetStop, clashed>> /\ Emptied(f)
           /\ DOMAIN flush' = Assets!Flushers /\ flush[f] = "write"
           /\ flush'[f] = IF f = "main" THEN "done" ELSE "idle"
           /\ \A g \in Assets!Flushers : g # f => flush'[g] = flush[g]
           /\ \A x \in Lan :
                /\ Row(profiles'[x])
                /\ \A k \in Numbers : /\ profiles'[x][k] <= profiles[x][k] + Assets!Held(f, x)[k]
                                      /\ profiles'[x][k] >= snap[f][x][k]
                /\ snap[f] = profiles =>
                     profiles'[x] = IF x \in DOMAIN drained[f] THEN Assets!Merged(profiles[x], drained[f][x]) ELSE profiles[x]
<1>1. /\ UNCHANGED <<hosts, snap, observed, lost, assetStop, clashed>> /\ flush[f] = "write" /\ ~Assets!Conflicts(f)
      /\ flush' = [flush EXCEPT ![f] = IF f = "main" THEN "done" ELSE "idle"]
      /\ drained' = [drained EXCEPT ![f] = [x \in {} |-> Assets!Nothing]]
      /\ profiles' = [x \in Lan |->
            IF x \notin DOMAIN drained[f] THEN profiles[x]
            ELSE IF snap[f][x] = Assets!NoRow THEN Assets!Merged(Assets!NoRow, drained[f][x])
            ELSE Assets!Updated(profiles[x], snap[f][x], Assets!Merged(snap[f][x], drained[f][x]))]
  BY DEF Assets!Write
<1>2. /\ DOMAIN flush' = Assets!Flushers /\ (\A g \in Assets!Flushers : g # f => flush'[g] = flush[g])
      /\ flush'[f] = IF f = "main" THEN "done" ELSE "idle"
  BY <1>1 DEF AssetTypes
<1>3. Emptied(f)
  <2>1. /\ DOMAIN drained' = Assets!Flushers /\ DOMAIN drained'[f] = {}
        /\ \A g \in Assets!Flushers : g # f => drained'[g] = drained[g]
    BY <1>1 DEF AssetTypes
  <2> QED
    BY <2>1 DEF Emptied, Assets!Held
<1>4. ASSUME NEW x \in Lan
      PROVE  /\ Row(profiles'[x])
             /\ \A k \in Numbers : /\ profiles'[x][k] <= profiles[x][k] + Assets!Held(f, x)[k]
                                   /\ profiles'[x][k] >= snap[f][x][k]
             /\ snap[f] = profiles =>
                  profiles'[x] = IF x \in DOMAIN drained[f] THEN Assets!Merged(profiles[x], drained[f][x]) ELSE profiles[x]
  <2>1. /\ Row(profiles[x]) /\ Row(snap[f][x]) /\ (\A k \in Numbers : snap[f][x][k] <= profiles[x][k])
        /\ \A k \in Numbers : profiles[x][k] \in Nat /\ snap[f][x][k] \in Nat
    BY DEF AssetTypes, Row, Counter
  <2>2. CASE x \notin DOMAIN drained[f]
    <3>1. profiles'[x] = profiles[x] /\ Assets!Held(f, x) = Assets!Nothing
      BY <1>1, <2>2 DEF Assets!Held
    <3>2. \A k \in Numbers : profiles[x][k] <= profiles[x][k] + 0 /\ profiles[x][k] >= snap[f][x][k]
      BY <2>1
    <3> QED
      BY <2>1, <2>2, <3>1, <3>2, NothingIs
  <2>3. CASE x \in DOMAIN drained[f] /\ snap[f][x] = Assets!NoRow
    <3>1. profiles[x] = Assets!NoRow
      BY <1>1, <2>3 DEF Assets!Conflicts
    <3>2. profiles'[x] = Assets!Merged(profiles[x], drained[f][x]) /\ Assets!Held(f, x) = drained[f][x]
      BY <1>1, <2>3, <3>1 DEF Assets!Held
    <3>3. Counter(drained[f][x])
      BY <2>3 DEF AssetTypes
    <3>4. /\ DOMAIN profiles'[x] = Columns
          /\ \A k \in Numbers : profiles'[x][k] = profiles[x][k] + Assets!Held(f, x)[k] /\ Assets!Held(f, x)[k] \in Nat
      BY <3>2, <3>3, MergedIs DEF Counter
    <3>5. \A k \in Numbers : /\ profiles'[x][k] \in Nat /\ profiles'[x][k] <= profiles[x][k] + Assets!Held(f, x)[k]
                             /\ profiles'[x][k] >= snap[f][x][k]
      BY <2>1, <3>4
    <3> QED
      BY <2>3, <3>2, <3>4, <3>5 DEF Row, Counter
  <2>4. CASE x \in DOMAIN drained[f] /\ snap[f][x] # Assets!NoRow
    <3>1. profiles'[x] = Assets!Updated(profiles[x], snap[f][x], Assets!Merged(snap[f][x], drained[f][x]))
          /\ Assets!Held(f, x) = drained[f][x] /\ Counter(drained[f][x])
      BY <1>1, <2>4 DEF Assets!Held, AssetTypes
    <3>2. /\ Row(profiles'[x])
          /\ \A k \in Numbers : profiles'[x][k] <= profiles[x][k] + drained[f][x][k] /\ profiles'[x][k] >= snap[f][x][k]
          /\ snap[f][x] = profiles[x] => profiles'[x] = Assets!Merged(profiles[x], drained[f][x])
      BY <2>1, <3>1, UpdatedIs
    <3> QED
      BY <2>4, <3>1, <3>2
  <2> QED
    BY <2>2, <2>3, <2>4
<1> QED
  BY <1>1, <1>2, <1>3, <1>4

-----------------------------------------------------------------------------

(* main begins when the flusher begins no more, so that of two flushes under way neither   *)
(* has stored anything since the other read, and one that clashed with none read what is   *)
(* stored still.  A row that was read holds no more than the row that is stored.           *)
Snapshots ==
    /\ ~assetStop => flush["main"] = "idle"
    /\ flush["flusher"] = "write" /\ flush["main"] \in {"idle", "read", "write"} => snap["flusher"] = profiles
    /\ flush["main"] = "write" /\ flush["flusher"] \in UnderWay => snap["main"] = profiles
    /\ \A f \in Assets!Flushers : flush[f] = "write" => \A x \in Lan, k \in Numbers : snap[f][x][k] <= profiles[x][k]
    /\ ~clashed /\ flush["flusher"] \in UnderWay => flush["main"] = "idle"
    /\ ~clashed /\ flush["main"] = "write" => snap["main"] = profiles

LEMMA Current ==
    ASSUME AssetTypes, Snapshots, ~clashed, NEW f \in Assets!Flushers, flush[f] = "write"
    PROVE  snap[f] = profiles
BY DEF Snapshots, Assets!Flushers, UnderWay

LEMMA AssetTypesStep ==
    ASSUME AssetTypes, Snapshots, [Assets!Next]_(Assets!assetVars)
    PROVE  AssetTypes'
<1>1. ASSUME UNCHANGED <<hosts, profiles, flush, drained, snap, observed, lost, clashed>>, assetStop' \in BOOLEAN
      PROVE  AssetTypes'
  BY <1>1 DEF AssetTypes
<1>2. CASE UNCHANGED Assets!assetVars \/ Assets!StopFlusher
  BY <1>1, <1>2 DEF Assets!assetVars, Assets!StopFlusher, AssetTypes
<1>3. CASE Assets!Observe
  <2>1. /\ UNCHANGED <<profiles, flush, drained, snap, lost, assetStop, clashed>>
        /\ DOMAIN hosts' \subseteq Lan /\ \A x \in DOMAIN hosts' : Counter(hosts'[x])
    BY <1>3, ObserveDoes
  <2>2. ASSUME NEW x \in Lan
        PROVE  Counter(observed'[x]) /\ \A k \in Lists : IsFiniteSet(observed'[x][k]) /\ observed'[x][k] \subseteq Nat
    <3>1. Counter(observed[x]) /\ \A k \in Lists : IsFiniteSet(observed[x][k]) /\ observed[x][k] \subseteq Nat
      BY DEF AssetTypes
    <3>2. CASE observed'[x] = observed[x]
      BY <3>1, <3>2
    <3>3. CASE \E d : Counts(x, d)
      <4>1. PICK d : Counts(x, d)
        BY <3>3
      <4>2. \A k \in Numbers : observed'[x][k] \in Nat
        BY <3>1, <4>1 DEF Counts, Counter
      <4>3. \A k \in Lists : observed'[x][k] = observed[x][k] \cup d[k] /\ IsFiniteSet(d[k]) /\ d[k] \subseteq Nat
        BY <4>1 DEF Counts
      <4>4. \A k \in Lists : IsFiniteSet(observed'[x][k]) /\ observed'[x][k] \subseteq Nat
        <5> SUFFICES ASSUME NEW k \in Lists PROVE IsFiniteSet(observed'[x][k]) /\ observed'[x][k] \subseteq Nat
          OBVIOUS
        <5>1. IsFiniteSet(observed[x][k]) /\ IsFiniteSet(d[k])
          BY <3>1, <4>3
        <5>2. IsFiniteSet(observed[x][k] \cup d[k])
          BY <5>1, FS_Union
        <5> QED
          BY <3>1, <4>3, <5>2
      <4> QED
        BY <4>2, <4>4 DEF Counter
    <3> QED
      BY <1>3, <3>2, <3>3, ObserveDoes
  <2> QED
    BY <2>1, <2>2 DEF AssetTypes
<1>4. ASSUME NEW f \in Assets!Flushers, Assets!Drain(f)
      PROVE  AssetTypes'
  <2>1. clashed' \in BOOLEAN
    BY <1>4, DrainDoes DEF AssetTypes
  <2>2. /\ UNCHANGED <<profiles, snap, observed, lost, assetStop>> /\ DOMAIN hosts' = {}
        /\ flush'[f] = "read" /\ DOMAIN flush' = Assets!Flushers
        /\ DOMAIN drained' = Assets!Flushers /\ drained'[f] = hosts
        /\ \A g \in Assets!Flushers : g # f => flush'[g] = flush[g] /\ drained'[g] = drained[g]
    BY <1>4, DrainDoes
  <2>3. \A g \in Assets!Flushers :
         /\ flush'[g] \in {"idle", "read", "write", "dead", "done"}
         /\ DOMAIN drained'[g] \subseteq Lan /\ (\A x \in DOMAIN drained'[g] : Counter(drained'[g][x]))
         /\ flush'[g] \notin UnderWay => DOMAIN drained'[g] = {}
    BY <2>2 DEF AssetTypes, UnderWay
  <2> QED
    BY <2>1, <2>2, <2>3 DEF AssetTypes
<1>5. ASSUME NEW f \in Assets!Flushers, Emptied(f), UNCHANGED <<hosts, snap, observed, assetStop, clashed>>,
             DOMAIN flush' = Assets!Flushers, flush'[f] \in {"idle", "dead", "done"},
             \A g \in Assets!Flushers : g # f => flush'[g] = flush[g],
             \A x \in Lan : Row(profiles'[x]) /\ Counter(lost'[x])
      PROVE  AssetTypes'
  <2>1. \A g \in Assets!Flushers :
         /\ flush'[g] \in {"idle", "read", "write", "dead", "done"}
         /\ DOMAIN drained'[g] \subseteq Lan /\ (\A x \in DOMAIN drained'[g] : Counter(drained'[g][x]))
         /\ flush'[g] \notin UnderWay => DOMAIN drained'[g] = {}
    BY <1>5 DEF AssetTypes, Emptied
  <2> QED
    BY <1>5, <2>1 DEF AssetTypes, Emptied
<1>6. ASSUME NEW f \in Assets!Flushers, Assets!InitFails(f) \/ Assets!FlushFails(f)
      PROVE  AssetTypes'
  <2>1. \A x \in Lan, k \in Numbers : lost[x][k] \in Nat /\ Assets!Held(f, x)[k] \in Nat
    BY NothingIs DEF AssetTypes, Counter, Assets!Held
  <2>2. \A x \in Lan : Row(profiles'[x]) /\ Counter(lost'[x])
    BY <1>6, <2>1, ForgetDoes DEF AssetTypes, Counter
  <2> QED
    BY <1>5, <1>6, <2>2, ForgetDoes
<1>7. ASSUME NEW f \in Assets!Flushers, Assets!Read(f)
      PROVE  AssetTypes'
  <2>1. /\ UNCHANGED <<hosts, profiles, drained, observed, lost, assetStop, clashed>>
        /\ flush[f] = "read" /\ flush'[f] = "write" /\ DOMAIN flush' = Assets!Flushers
        /\ snap'[f] = profiles /\ DOMAIN snap' = Assets!Flushers
        /\ \A g \in Assets!Flushers : g # f => flush'[g] = flush[g] /\ snap'[g] = snap[g]
    BY <1>7, ReadDoes
  <2>2. \A g \in Assets!Flushers :
         /\ flush'[g] \in {"idle", "read", "write", "dead", "done"}
         /\ flush'[g] \notin UnderWay => DOMAIN drained[g] = {}
         /\ \A x \in Lan : Row(snap'[g][x])
    BY <2>1 DEF AssetTypes, UnderWay
  <2> QED
    BY <2>1, <2>2 DEF AssetTypes
<1>8. ASSUME NEW f \in Assets!Flushers, Assets!Write(f)
      PROVE  AssetTypes'
  <2>1. \A x \in Lan, k \in Numbers : snap[f][x][k] <= profiles[x][k]
    BY <1>8 DEF Assets!Write, Snapshots
  <2>2. \A x \in Lan : Row(profiles'[x]) /\ Counter(lost'[x])
    BY <1>8, <2>1, WriteDoes DEF AssetTypes
  <2> QED
    BY <1>5, <1>8, <2>1, <2>2, WriteDoes
<1> QED
  BY <1>2, <1>3, <1>4, <1>6, <1>7, <1>8 DEF Assets!Next

LEMMA SnapshotsStep ==
    ASSUME AssetTypes, Snapshots, [Assets!Next]_(Assets!assetVars)
    PROVE  Snapshots'
<1>0. Assets!Flushers = {"flusher", "main"} /\ \A x \in Lan, k \in Numbers : profiles[x][k] \in Nat /\ profiles[x][k] <= profiles[x][k]
  BY DEF Assets!Flushers, AssetTypes, Row, Counter
<1>1. CASE UNCHANGED Assets!assetVars \/ Assets!Observe
  BY <1>1, ObserveDoes DEF Assets!assetVars, Snapshots
<1>2. CASE Assets!StopFlusher
  BY <1>2 DEF Assets!StopFlusher, Snapshots
<1>3. ASSUME NEW f \in Assets!Flushers, Assets!Drain(f)
      PROVE  Snapshots'
  <2>1. /\ UNCHANGED <<profiles, snap, assetStop>> /\ flush[f] = "idle" /\ flush'[f] = "read"
        /\ \A g \in Assets!Flushers : g # f => flush'[g] = flush[g]
        /\ IF f = "main" THEN assetStop ELSE ~assetStop
        /\ clashed' = (clashed \/ \E g \in Assets!Flushers \ {f} : flush[g] \in UnderWay)
    BY <1>3, DrainDoes
  <2>2. CASE f = "main"
    <3>1. (clashed' <=> (clashed \/ flush["flusher"] \in UnderWay)) /\ flush'["flusher"] = flush["flusher"] /\ flush'["main"] = "read"
      BY <1>0, <2>1, <2>2
    <3> QED
      BY <1>0, <2>1, <2>2, <3>1 DEF Snapshots, UnderWay
  <2>3. CASE f = "flusher"
    <3>1. flush["main"] = "idle" /\ ~assetStop /\ flush'["main"] = "idle" /\ flush'["flusher"] = "read"
      BY <1>0, <2>1, <2>3 DEF Snapshots
    <3> QED
      BY <1>0, <2>1, <3>1 DEF Snapshots, UnderWay
  <2> QED
    BY <1>0, <2>2, <2>3
<1>4. ASSUME NEW f \in Assets!Flushers, Assets!InitFails(f) \/ Assets!FlushFails(f)
      PROVE  Snapshots'
  <2>1. /\ UNCHANGED <<profiles, snap, assetStop, clashed>> /\ flush[f] \in UnderWay
        /\ flush'[f] \notin UnderWay /\ (f = "main" => assetStop)
        /\ \A g \in Assets!Flushers : g # f => flush'[g] = flush[g]
    BY <1>4, ForgetDoes DEF UnderWay, Snapshots
  <2>2. CASE f = "main"
    <3>1. flush'["flusher"] = flush["flusher"] /\ flush'["main"] \notin UnderWay /\ flush'["main"] # "idle"
      BY <1>0, <1>4, <2>1, <2>2, ForgetDoes
    <3> QED
      BY <1>0, <2>1, <2>2, <3>1 DEF Snapshots, UnderWay
  <2>3. CASE f = "flusher"
    <3>1. flush'["main"] = flush["main"] /\ flush'["flusher"] \notin UnderWay
      BY <1>0, <2>1, <2>3
    <3> QED
      BY <1>0, <2>1, <3>1 DEF Snapshots, UnderWay
  <2> QED
    BY <1>0, <2>2, <2>3
<1>5. ASSUME NEW f \in Assets!Flushers, Assets!Read(f)
      PROVE  Snapshots'
  <2>1. /\ UNCHANGED <<profiles, assetStop, clashed>> /\ flush[f] = "read" /\ flush'[f] = "write" /\ snap'[f] = profiles
        /\ \A g \in Assets!Flushers : g # f => flush'[g] = flush[g] /\ snap'[g] = snap[g]
    BY <1>5, ReadDoes
  <2>2. CASE f = "main"
    <3>1. /\ flush'["flusher"] = flush["flusher"] /\ snap'["flusher"] = snap["flusher"]
          /\ flush'["main"] = "write" /\ snap'["main"] = profiles /\ flush["main"] = "read"
      BY <1>0, <2>1, <2>2
    <3> QED
      BY <1>0, <2>1, <3>1 DEF Snapshots, UnderWay
  <2>3. CASE f = "flusher"
    <3>1. /\ flush'["main"] = flush["main"] /\ snap'["main"] = snap["main"]
          /\ flush'["flusher"] = "write" /\ snap'["flusher"] = profiles /\ flush["flusher"] = "read"
      BY <1>0, <2>1, <2>3
    <3> QED
      BY <1>0, <2>1, <3>1 DEF Snapshots, UnderWay
  <2> QED
    BY <1>0, <2>2, <2>3
<1>6. ASSUME NEW f \in Assets!Flushers, Assets!Write(f)
      PROVE  Snapshots'
  <2>0. \A x \in Lan, k \in Numbers : snap[f][x][k] <= profiles[x][k]
    BY <1>6 DEF Assets!Write, Snapshots
  <2>1. /\ UNCHANGED <<snap, assetStop, clashed>> /\ flush[f] = "write"
        /\ flush'[f] = IF f = "main" THEN "done" ELSE "idle"
        /\ \A g \in Assets!Flushers : g # f => flush'[g] = flush[g]
        /\ \A x \in Lan, k \in Numbers : profiles'[x][k] >= snap[f][x][k]
    BY <1>6, <2>0, WriteDoes
  <2>2. \A x \in Lan, k \in Numbers : snap[f][x][k] <= profiles'[x][k]
    <3>1. \A x \in Lan : Row(profiles'[x]) /\ Row(snap[f][x])
      BY <1>6, <2>0, WriteDoes DEF AssetTypes
    <3> QED
      BY <2>1, <3>1 DEF Row, Counter
  <2>3. CASE f = "main"
    <3>1. flush'["flusher"] = flush["flusher"] /\ flush'["main"] = "done" /\ flush["main"] = "write"
      BY <1>0, <2>1, <2>3
    <3>2. assetStop
      BY <3>1 DEF Snapshots
    <3>3. flush["flusher"] = "write" => snap["flusher"] = snap["main"]
      BY <3>1 DEF Snapshots, UnderWay
    <3>4. ~clashed => flush["flusher"] \notin UnderWay
      BY <3>1 DEF Snapshots
    <3> QED
      BY <1>0, <2>1, <2>2, <2>3, <3>1, <3>2, <3>3, <3>4 DEF Snapshots, UnderWay
  <2>4. CASE f = "flusher"
    <3>1. flush'["main"] = flush["main"] /\ flush'["flusher"] = "idle" /\ flush["flusher"] = "write"
      BY <1>0, <2>1, <2>4
    <3>2. flush["main"] = "write" => snap["flusher"] = snap["main"] /\ clashed
      BY <3>1 DEF Snapshots, UnderWay
    <3> QED
      BY <1>0, <2>1, <2>2, <2>4, <3>1, <3>2 DEF Snapshots, UnderWay
  <2> QED
    BY <1>0, <2>3, <2>4
<1> QED
  BY <1>1, <1>2, <1>3, <1>4, <1>5, <1>6 DEF Assets!Next

-----------------------------------------------------------------------------

(* What is counted of a host, wherever it is.                                           *)
Total(x, k) == profiles[x][k] + Assets!Held("flusher", x)[k] + Assets!Held("main", x)[k] + Assets!InMemory(x)[k] + lost[x][k]
All(x, k)   == profiles[x][k] \cup Assets!Held("flusher", x)[k] \cup Assets!Held("main", x)[k] \cup Assets!InMemory(x)[k] \cup lost[x][k]

Balanced(x) ==
    /\ \A k \in Numbers : Total(x, k) <= observed[x][k] /\ (~clashed => Total(x, k) = observed[x][k])
    /\ ~clashed => \A k \in Lists : Cardinality(observed[x][k]) <= SetCap => All(x, k) = observed[x][k]
    /\ ~clashed /\ profiles[x] # Assets!NoRow => profiles[x].kind = Assets!Classify(profiles[x])

LEMMA AccountedIs ==
    ASSUME NEW x
    PROVE  /\ \A k \in Numbers : Assets!Accounted(x)[k] =
                (profiles[x][k] + (Assets!Held("flusher", x)[k] + Assets!Held("main", x)[k])) + (Assets!InMemory(x)[k] + lost[x][k])
           /\ \A k \in Lists : Assets!Accounted(x)[k] = All(x, k)
<1>1. /\ \A k \in Numbers : Assets!InFlight(x)[k] = Assets!Held("flusher", x)[k] + Assets!Held("main", x)[k]
      /\ \A k \in Lists : Assets!InFlight(x)[k] = Assets!Held("flusher", x)[k] \cup Assets!Held("main", x)[k]
  BY AddIs DEF Assets!InFlight
<1>2. Assets!Accounted(x) = Assets!Add(Assets!Add(profiles[x], Assets!InFlight(x)), Assets!Add(Assets!InMemory(x), lost[x]))
  BY DEF Assets!Accounted
<1>3. \A k \in Numbers : Assets!Accounted(x)[k] = (profiles[x][k] + Assets!InFlight(x)[k]) + (Assets!InMemory(x)[k] + lost[x][k])
  BY <1>2, AddIs
<1>4. \A k \in Lists : Assets!Accounted(x)[k] = (profiles[x][k] \cup Assets!InFlight(x)[k]) \cup (Assets!InMemory(x)[k] \cup lost[x][k])
  BY <1>2, AddIs
<1> QED
  BY <1>1, <1>3, <1>4 DEF All

LEMMA Amounts ==
    ASSUME AssetTypes, NEW x \in Lan, NEW k \in Numbers
    PROVE  /\ profiles[x][k] \in Nat /\ Assets!Held("flusher", x)[k] \in Nat /\ Assets!Held("main", x)[k] \in Nat
           /\ Assets!InMemory(x)[k] \in Nat /\ lost[x][k] \in Nat /\ observed[x][k] \in Nat
BY NothingIs DEF AssetTypes, Row, Counter, Assets!Held, Assets!InMemory, Assets!Flushers

(* A flow.                                                                              *)
LEMMA ObserveBalances ==
    ASSUME AssetTypes, AssetTypes', NEW x \in Lan, Balanced(x), Assets!Observe
    PROVE  Balanced(x)'
<1>1. /\ UNCHANGED <<profiles, lost, clashed>>
      /\ Assets!Held("flusher", x)' = Assets!Held("flusher", x) /\ Assets!Held("main", x)' = Assets!Held("main", x)
  BY ObserveDoes DEF Assets!Held
<1>2. CASE Assets!InMemory(x)' = Assets!InMemory(x) /\ observed'[x] = observed[x]
  BY <1>1, <1>2 DEF Balanced, Total, All
<1>3. ASSUME NEW d, Counts(x, d)
      PROVE  Balanced(x)'
  <2>1. ASSUME NEW k \in Numbers
        PROVE  Total(x, k)' <= observed'[x][k] /\ (~clashed' => Total(x, k)' = observed'[x][k])
    <3>1. /\ d[k] \in Nat /\ observed'[x][k] = observed[x][k] + d[k]
          /\ Assets!InMemory(x)'[k] = Assets!InMemory(x)[k] + d[k]
      BY <1>3 DEF Counts
    <3>2. Total(x, k)' = profiles[x][k] + Assets!Held("flusher", x)[k] + Assets!Held("main", x)[k] + Assets!InMemory(x)'[k] + lost[x][k]
      BY <1>1 DEF Total
    <3>3. Total(x, k) = profiles[x][k] + Assets!Held("flusher", x)[k] + Assets!Held("main", x)[k] + Assets!InMemory(x)[k] + lost[x][k]
      BY DEF Total
    <3>4. Total(x, k)' = Total(x, k) + d[k]
      BY <3>1, <3>2, <3>3, Amounts
    <3>5. Total(x, k) \in Nat /\ observed[x][k] \in Nat
      BY <3>3, Amounts
    <3> QED
      BY <1>1, <3>1, <3>4, <3>5 DEF Balanced
  <2>2. ASSUME NEW k \in Lists, ~clashed, Cardinality(observed'[x][k]) <= SetCap
        PROVE  All(x, k)' = observed'[x][k]
    <3>1. /\ IsFiniteSet(observed[x][k]) /\ IsFiniteSet(d[k]) /\ observed'[x][k] = observed[x][k] \cup d[k]
          /\ IsFiniteSet(observed'[x][k])
      BY <1>3 DEF AssetTypes, Counts
    <3>2. Cardinality(observed[x][k]) <= Cardinality(observed'[x][k])
      BY <3>1, FS_Subset
    <3>3. Cardinality(observed[x][k]) \in Nat /\ Cardinality(observed'[x][k]) \in Nat /\ SetCap \in Nat
      BY <3>1, FS_CardinalityType, AssetAssumption
    <3>4. All(x, k) = observed[x][k]
      BY <2>2, <3>2, <3>3 DEF Balanced
    <3>5. Assets!InMemory(x)'[k] = Assets!InMemory(x)[k] \cup d[k]
      <4>1. CASE Cardinality(Assets!InMemory(x)[k]) < SetCap
        BY <1>3, <4>1 DEF Counts
      <4>2. CASE ~(Cardinality(Assets!InMemory(x)[k]) < SetCap)
        <5> DEFINE mine == Assets!InMemory(x)[k]
        <5>1. mine \subseteq observed[x][k] /\ mine \cup d[k] \subseteq observed'[x][k]
          BY <3>1, <3>4 DEF All
        <5> HIDE DEF mine
        <5>2. IsFiniteSet(mine) /\ IsFiniteSet(mine \cup d[k]) /\ Cardinality(mine \cup d[k]) <= Cardinality(observed'[x][k])
          BY <3>1, <5>1, FS_Subset
        <5>3. Cardinality(mine) \in Nat /\ Cardinality(mine \cup d[k]) \in Nat
          BY <5>2, FS_CardinalityType
        <5>4. Cardinality(mine \cup d[k]) <= Cardinality(mine)
          BY <2>2, <3>3, <4>2, <5>2, <5>3 DEF mine
        <5>5. ASSUME mine # mine \cup d[k]
              PROVE  FALSE
          <6> DEFINE both == mine \cup d[k]
          <6>1. IsFiniteSet(both) /\ mine \in SUBSET both /\ Cardinality(mine) \in Nat /\ Cardinality(both) \in Nat /\ Cardinality(both) <= Cardinality(mine)
            BY <5>2, <5>3, <5>4
          <6>2. mine # both
            BY <5>5
          <6> HIDE DEF both
          <6>3. Cardinality(mine) <= Cardinality(both) /\ (Cardinality(both) = Cardinality(mine) => both = mine)
            BY <6>1, FS_Subset
          <6> QED
            BY <6>1, <6>2, <6>3
        <5> QED
          BY <1>3, <5>5 DEF Counts, mine
      <4> QED
        BY <4>1, <4>2
    <3>6. All(x, k)' = profiles[x][k] \cup Assets!Held("flusher", x)[k] \cup Assets!Held("main", x)[k] \cup Assets!InMemory(x)'[k] \cup lost[x][k]
      BY <1>1 DEF All
    <3>7. All(x, k) = profiles[x][k] \cup Assets!Held("flusher", x)[k] \cup Assets!Held("main", x)[k] \cup Assets!InMemory(x)[k] \cup lost[x][k]
      BY DEF All
    <3> QED
      BY <3>1, <3>4, <3>5, <3>6, <3>7
  <2> QED
    BY <1>1, <2>1, <2>2 DEF Balanced
<1> QED
  BY <1>2, <1>3, ObserveDoes

(* A step that moves what is counted from one place to another, or stores it.            *)
LEMMA FlushBalances ==
    ASSUME AssetTypes, AssetTypes', Snapshots, NEW x \in Lan, Balanced(x), NEW f \in Assets!Flushers,
           Assets!Drain(f) \/ Assets!InitFails(f) \/ Assets!FlushFails(f) \/ Assets!Read(f) \/ Assets!Write(f)
    PROVE  Balanced(x)'
<1> DEFINE Mine(k) == Assets!Held(f, x)[k]
<1>0. /\ observed' = observed /\ (clashed => clashed') /\ clashed \in BOOLEAN /\ Assets!Flushers = {"flusher", "main"}
  BY DEF Assets!Drain, Assets!InitFails, Assets!FlushFails, Assets!Read, Assets!Write, AssetTypes, Assets!Flushers
<1>1. ASSUME \A k \in Numbers : Total(x, k)' = Total(x, k), \A k \in Lists : All(x, k)' = All(x, k), profiles' = profiles
      PROVE  Balanced(x)'
  BY <1>0, <1>1 DEF Balanced
<1>2. CASE Assets!Read(f)
  <2>1. /\ UNCHANGED <<profiles, lost>> /\ Assets!InMemory(x)' = Assets!InMemory(x)
        /\ Assets!Held("flusher", x)' = Assets!Held("flusher", x) /\ Assets!Held("main", x)' = Assets!Held("main", x)
    BY <1>2, ReadDoes DEF Assets!Held, Assets!InMemory
  <2> QED
    BY <1>1, <2>1 DEF Total, All
<1>3. CASE Assets!Drain(f)
  <2>1. /\ UNCHANGED <<profiles, lost>> /\ flush[f] = "idle"
        /\ Assets!Held(f, x)' = Assets!InMemory(x) /\ Assets!InMemory(x)' = Assets!Nothing
        /\ \A g \in Assets!Flushers : g # f => drained'[g] = drained[g]
    BY <1>3, DrainDoes
  <2>2. Assets!Held(f, x) = Assets!Nothing
    BY <2>1 DEF AssetTypes, UnderWay, Assets!Held
  <2>3. \A g \in Assets!Flushers : g # f => Assets!Held(g, x)' = Assets!Held(g, x)
    BY <2>1 DEF Assets!Held
  <2>4. \A k \in Numbers : Total(x, k)' = Total(x, k)
    <3> SUFFICES ASSUME NEW k \in Numbers PROVE Total(x, k)' = Total(x, k)
      OBVIOUS
    <3>1. CASE f = "flusher"
      BY <1>0, <2>1, <2>2, <2>3, <3>1, NothingIs, Amounts DEF Total
    <3>2. CASE f = "main"
      BY <1>0, <2>1, <2>2, <2>3, <3>2, NothingIs, Amounts DEF Total
    <3> QED
      BY <1>0, <3>1, <3>2
  <2>5. \A k \in Lists : All(x, k)' = All(x, k)
    <3>1. CASE f = "flusher"
      BY <1>0, <2>1, <2>2, <2>3, <3>1, NothingIs DEF All
    <3>2. CASE f = "main"
      BY <1>0, <2>1, <2>2, <2>3, <3>2, NothingIs DEF All
    <3> QED
      BY <1>0, <3>1, <3>2
  <2> QED
    BY <1>1, <2>1, <2>4, <2>5
<1>4. CASE Assets!InitFails(f) \/ Assets!FlushFails(f)
  <2>1. /\ UNCHANGED <<hosts, profiles>> /\ Emptied(f)
        /\ \A k \in Numbers : lost'[x][k] = lost[x][k] + Assets!Held(f, x)[k]
        /\ \A k \in Lists : lost'[x][k] = lost[x][k] \cup Assets!Held(f, x)[k]
    BY <1>4, ForgetDoes
  <2>2. /\ Assets!InMemory(x)' = Assets!InMemory(x) /\ Assets!Held(f, x)' = Assets!Nothing
        /\ \A g \in Assets!Flushers : g # f => Assets!Held(g, x)' = Assets!Held(g, x)
    BY <2>1 DEF Assets!Held, Assets!InMemory, Emptied
  <2>4. \A k \in Numbers : Total(x, k)' = Total(x, k)
    <3> SUFFICES ASSUME NEW k \in Numbers PROVE Total(x, k)' = Total(x, k)
      OBVIOUS
    <3>1. CASE f = "flusher"
      BY <1>0, <2>1, <2>2, <3>1, NothingIs, Amounts DEF Total
    <3>2. CASE f = "main"
      BY <1>0, <2>1, <2>2, <3>2, NothingIs, Amounts DEF Total
    <3> QED
      BY <1>0, <3>1, <3>2
  <2>5. \A k \in Lists : All(x, k)' = All(x, k)
    <3>1. CASE f = "flusher"
      BY <1>0, <2>1, <2>2, <3>1, NothingIs DEF All
    <3>2. CASE f = "main"
      BY <1>0, <2>1, <2>2, <3>2, NothingIs DEF All
    <3> QED
      BY <1>0, <3>1, <3>2
  <2> QED
    BY <1>1, <2>1, <2>4, <2>5
<1>5. CASE Assets!Write(f)
  <2>0. flush[f] = "write" /\ \A y \in Lan, k \in Numbers : snap[f][y][k] <= profiles[y][k]
    BY <1>5 DEF Assets!Write, Snapshots
  <2>1. /\ UNCHANGED <<hosts, lost, clashed>> /\ Emptied(f)
        /\ \A k \in Numbers : profiles'[x][k] <= profiles[x][k] + Assets!Held(f, x)[k]
        /\ snap[f] = profiles =>
             profiles'[x] = IF x \in DOMAIN drained[f] THEN Assets!Merged(profiles[x], drained[f][x]) ELSE profiles[x]
    BY <1>5, <2>0, WriteDoes
  <2>2. /\ Assets!InMemory(x)' = Assets!InMemory(x) /\ Assets!Held(f, x)' = Assets!Nothing
        /\ \A g \in Assets!Flushers : g # f => Assets!Held(g, x)' = Assets!Held(g, x)
    BY <2>1 DEF Assets!Held, Assets!InMemory, Emptied
  <2>3. ASSUME NEW k \in Numbers
        PROVE  /\ Total(x, k)' <= Total(x, k) /\ Total(x, k)' \in Nat /\ Total(x, k) \in Nat
               /\ profiles'[x][k] = profiles[x][k] + Mine(k) => Total(x, k)' = Total(x, k)
    <3>0. profiles'[x][k] \in Nat
      BY DEF AssetTypes, Row, Counter
    <3>1. CASE f = "flusher"
      BY <1>0, <2>1, <2>2, <3>0, <3>1, NothingIs, Amounts DEF Total
    <3>2. CASE f = "main"
      BY <1>0, <2>1, <2>2, <3>0, <3>2, NothingIs, Amounts DEF Total
    <3> QED
      BY <1>0, <3>1, <3>2
  <2>4. \A k \in Numbers : Total(x, k)' <= observed'[x][k]
    BY <1>0, <2>3, Amounts DEF Balanced
  <2>5. CASE clashed'
    BY <2>4, <2>5 DEF Balanced, Numbers
  <2>6. CASE ~clashed'
    <3>1. ~clashed /\ snap[f] = profiles
      BY <2>0, <2>1, <2>6, Current
    <3>2. CASE x \notin DOMAIN drained[f]
      <4>1. profiles'[x] = profiles[x] /\ Assets!Held(f, x) = Assets!Nothing
        BY <2>1, <3>1, <3>2 DEF Assets!Held
      <4>2. \A k \in Numbers : profiles'[x][k] = profiles[x][k] + Mine(k)
        BY <4>1, NothingIs, Amounts
      <4>3. \A k \in Lists : All(x, k)' = All(x, k)
        <5>1. CASE f = "flusher"
          BY <1>0, <2>1, <2>2, <4>1, <5>1 DEF All
        <5>2. CASE f = "main"
          BY <1>0, <2>1, <2>2, <4>1, <5>2 DEF All
        <5> QED
          BY <1>0, <5>1, <5>2
      <4>4. \A k \in Numbers : Total(x, k)' = Total(x, k)
        BY <2>3, <4>2
      <4> QED
        BY <1>0, <2>4, <3>1, <4>1, <4>3, <4>4 DEF Balanced
    <3>3. CASE x \in DOMAIN drained[f]
      <4>1. profiles'[x] = Assets!Merged(profiles[x], drained[f][x]) /\ Assets!Held(f, x) = drained[f][x]
        BY <2>1, <3>1, <3>3 DEF Assets!Held
      <4>2. \A k \in Numbers : profiles'[x][k] = profiles[x][k] + Mine(k)
        BY <4>1, MergedIs
      <4>3. profiles'[x].kind = Assets!Classify(profiles'[x])
        BY <4>1, MergedIs
      <4>4. \A k \in Numbers : Total(x, k)' = observed'[x][k]
        BY <1>0, <2>3, <3>1, <4>2 DEF Balanced
      <4>5. ASSUME NEW k \in Lists, Cardinality(observed[x][k]) <= SetCap
            PROVE  All(x, k)' = observed'[x][k]
        <5>1. All(x, k) = observed[x][k]
          BY <3>1, <4>5 DEF Balanced
        <5>2. profiles[x][k] \cup Mine(k) \subseteq observed[x][k]
          <6>1. CASE f = "flusher"
            BY <5>1, <6>1 DEF All
          <6>2. CASE f = "main"
            BY <5>1, <6>2 DEF All
          <6> QED
            BY <1>0, <6>1, <6>2
        <5>3. IsFiniteSet(observed[x][k]) /\ observed[x][k] \subseteq Nat
          BY DEF AssetTypes
        <5> DEFINE S == profiles[x][k] \cup Mine(k)
        <5>4. IsFiniteSet(S) /\ S \subseteq Nat /\ Cardinality(S) <= SetCap
          <6> HIDE DEF S
          <6>1. S \subseteq observed[x][k]
            BY <5>2 DEF S
          <6>2. IsFiniteSet(S) /\ Cardinality(S) <= Cardinality(observed[x][k])
            BY <5>3, <6>1, FS_Subset
          <6>3. Cardinality(S) \in Nat /\ Cardinality(observed[x][k]) \in Nat /\ SetCap \in Nat
            BY <5>3, <6>2, FS_CardinalityType, AssetAssumption
          <6> QED
            BY <4>5, <5>3, <6>1, <6>2, <6>3
        <5>5. profiles'[x][k] = S
          <6>1. profiles'[x][k] = Assets!Cap(S)
            BY <4>1, MergedIs
          <6> HIDE DEF S
          <6> QED
            BY <5>4, <6>1, CapKeeps
        <5>6. All(x, k)' = All(x, k)
          <6>1. CASE f = "flusher"
            BY <1>0, <2>1, <2>2, <5>5, <6>1, NothingIs DEF All
          <6>2. CASE f = "main"
            BY <1>0, <2>1, <2>2, <5>5, <6>2, NothingIs DEF All
          <6> QED
            BY <1>0, <6>1, <6>2
        <5> QED
          BY <1>0, <5>1, <5>6
      <4> QED
        BY <1>0, <2>4, <4>3, <4>4, <4>5 DEF Balanced
    <3> QED
      BY <3>2, <3>3
  <2> QED
    BY <2>5, <2>6
<1> QED
  BY <1>2, <1>3, <1>4, <1>5

(* Every flow of a host is counted once, or forgotten by a flush that failed, for any number *)
(* of hosts and flows: two flushers that clash lose counters and never invent any.           *)
THEOREM CountsAddUpHolds == Assets!Spec => []Assets!CountsAddUp
<1> DEFINE Inv == AssetTypes /\ Snapshots /\ \A x \in Lan : Balanced(x)
<1>1. Assets!Init => Inv
  <2> SUFFICES ASSUME Assets!Init PROVE Inv
    OBVIOUS
  <2>1. /\ DOMAIN hosts = {} /\ (\A x \in Lan : profiles[x] = Assets!NoRow /\ observed[x] = Assets!Nothing /\ lost[x] = Assets!Nothing)
        /\ DOMAIN flush = Assets!Flushers /\ DOMAIN drained = Assets!Flushers /\ DOMAIN snap = Assets!Flushers
        /\ (\A f \in Assets!Flushers : flush[f] = "idle" /\ DOMAIN drained[f] = {} /\ \A x \in Lan : snap[f][x] = Assets!NoRow)
        /\ assetStop = FALSE /\ clashed = FALSE
    BY DEF Assets!Init
  <2>2. Row(Assets!NoRow) /\ Counter(Assets!Nothing)
    BY NothingIs DEF Row, Counter
  <2>3. IsFiniteSet({}) /\ {} \subseteq Nat
    BY FS_EmptySet
  <2>4. AssetTypes
    <3>1. \A x \in Lan, k \in Lists : IsFiniteSet(observed[x][k]) /\ observed[x][k] \subseteq Nat
      BY <2>1, <2>3, NothingIs
    <3> QED
      BY <2>1, <2>2, <3>1 DEF AssetTypes, UnderWay
  <2>5. Snapshots
    BY <2>1 DEF Snapshots, Assets!Flushers, UnderWay
  <2>6. ASSUME NEW x \in Lan PROVE Balanced(x)
    <3>1. Assets!Held("flusher", x) = Assets!Nothing /\ Assets!Held("main", x) = Assets!Nothing /\ Assets!InMemory(x) = Assets!Nothing
      BY <2>1 DEF Assets!Held, Assets!InMemory, Assets!Flushers
    <3>2. \A k \in Numbers : Total(x, k) = 0 /\ observed[x][k] = 0
      BY <2>1, <3>1, NothingIs DEF Total
    <3>3. \A k \in Lists : All(x, k) = {} /\ observed[x][k] = {}
      BY <2>1, <3>1, NothingIs DEF All
    <3>4. profiles[x] = Assets!NoRow
      BY <2>1
    <3> HIDE DEF AssetTypes, Snapshots
    <3>5. \A k \in Numbers : Total(x, k) <= observed[x][k] /\ (~clashed => Total(x, k) = observed[x][k])
      BY <3>2
    <3>6. \A k \in Lists : All(x, k) = observed[x][k]
      BY <3>3
    <3> QED
      BY <3>4, <3>5, <3>6 DEF Balanced
  <2> QED
    BY <2>4, <2>5, <2>6
<1>2. Inv /\ [Assets!Next]_(Assets!assetVars) => Inv'
  <2> SUFFICES ASSUME Inv, [Assets!Next]_(Assets!assetVars) PROVE Inv'
    OBVIOUS
  <2>1. AssetTypes' /\ Snapshots'
    BY AssetTypesStep, SnapshotsStep
  <2>2. ASSUME NEW x \in Lan PROVE Balanced(x)'
    <3>1. CASE UNCHANGED Assets!assetVars \/ Assets!StopFlusher
      BY <3>1 DEF Assets!assetVars, Assets!StopFlusher, Balanced, Total, All, Assets!Held, Assets!InMemory
    <3>2. CASE Assets!Observe
      BY <2>1, <3>2, ObserveBalances
    <3>3. ASSUME NEW f \in Assets!Flushers,
                 Assets!Drain(f) \/ Assets!InitFails(f) \/ Assets!FlushFails(f) \/ Assets!Read(f) \/ Assets!Write(f)
          PROVE  Balanced(x)'
      BY <2>1, <3>3, FlushBalances
    <3> QED
      BY <3>1, <3>2, <3>3 DEF Assets!Next
  <2> QED
    BY <2>1, <2>2
<1>3. Inv => Assets!CountsAddUp
  <2> SUFFICES ASSUME Inv, NEW x \in Lan
               PROVE  /\ Assets!Accounted(x).out <= observed[x].out /\ Assets!Accounted(x).inn <= observed[x].inn
                      /\ ~clashed =>
                           /\ Assets!Accounted(x).out = observed[x].out /\ Assets!Accounted(x).inn = observed[x].inn
                           /\ \A set \in Lists :
                                Cardinality(observed[x][set]) <= SetCap => Assets!Accounted(x)[set] = observed[x][set]
                           /\ profiles[x] # Assets!NoRow => profiles[x].kind = Assets!Classify(profiles[x])
    BY AssetsCardinality DEF Assets!CountsAddUp, Lists
  <2>1. \A k \in Numbers : Assets!Accounted(x)[k] = Total(x, k)
    BY AccountedIs, Amounts DEF Total
  <2>2. \A k \in Lists : Assets!Accounted(x)[k] = All(x, k)
    BY AccountedIs
  <2>3. "out" \in Numbers /\ "inn" \in Numbers
    BY DEF Numbers
  <2>4. Balanced(x)
    OBVIOUS
  <2> HIDE DEF Inv
  <2> QED
    BY <2>1, <2>2, <2>3, <2>4 DEF Balanced
<1> QED
  BY <1>1, <1>2, <1>3, PTL DEF Assets!Spec

=============================================================================
