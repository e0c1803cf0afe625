-------------------------- MODULE DispatcherProofs --------------------------
(* Proofs about Dispatcher, for every value of its constants. *)
EXTENDS Dispatcher, SequenceTheorems, FiniteSetTheorems, FunctionTheorems, TLAPS

(* A flow's number is in one place: the table, a collector's list or hand, or *)
(* among those that were scored.                                               *)
InHand(c) == cpc[c] = "score"

TableIds ==
    /\ \A j, k \in Active : flows[j].flow = flows[k].flow => j = k
    /\ \A k \in Active : \A i \in DOMAIN scored : scored[i].flow # flows[k].flow

ListIds ==
    \A c \in Collectors : \A r \in clist[c] :
        /\ \A s \in clist[c] : s.flow = r.flow => s = r
        /\ \A k \in Active : flows[k].flow # r.flow
        /\ \A d \in Collectors : d # c => \A s \in clist[d] : s.flow # r.flow
        /\ \A d \in Collectors : InHand(d) => crec[d].flow # r.flow
        /\ \A i \in DOMAIN scored : scored[i].flow # r.flow

HandIds ==
    \A c \in Collectors : InHand(c) =>
        /\ \A k \in Active : flows[k].flow # crec[c].flow
        /\ \A d \in Collectors : d # c /\ InHand(d) => crec[d].flow # crec[c].flow
        /\ \A i \in DOMAIN scored : scored[i].flow # crec[c].flow

IdsInv == TableIds /\ ListIds /\ HandIds /\ NoFlowTwice

(* Every active flow has an entry in the heap that is no later than its last  *)
(* packet.  Until main collects, the entries are of active flows, one each.   *)
EntryInv ==
    \A k \in Active : /\ flows[k].last <= flows[k].newest
                      /\ \E e \in heap : e[2] = k /\ e[1] <= flows[k].newest

OneEntryInv ==
    cpc[Main] = "idle" =>
        /\ \A e \in heap : e[2] \in Active
        /\ \A e, f \in heap : e[2] = f[2] => e = f

(* The evidence under a key is that key's, in the dictionaries and in hand. *)
KeptEvidenceInv ==
    /\ \A d \in Kinds : \A i \in DOMAIN hits[d] : \A f \in hits[d][i].from : f.key = hits[d][i].key
    /\ \A c \in Collectors : InHand(c) => \A f \in crec[c].payload : f.key = crec[c].key

EvidenceInv == KeptEvidenceInv /\ EvidenceOfSameTuple

-----------------------------------------------------------------------------
(* How a step changes the table of flows.                                  *)

LEMMA RestrictFacts ==
    ASSUME NEW f, NEW S
    PROVE  DOMAIN Restrict(f, S) = S /\ \A x \in S : Restrict(f, S)[x] = f[x]
BY DEF Restrict

LEMMA ActiveCard ==
    ASSUME TypeOK
    PROVE  /\ IsFiniteSet(Active) /\ Cardinality(Active) \in Nat
           /\ Cardinality(Active) <= MaxActive /\ MaxActive \in Nat \ {0}
BY FS_CardinalityType, DispatcherAssumption DEF TypeOK, TableOK, DispatcherAssumption

(* A packet of an active flow. *)
LEMMA KnownTable ==
    ASSUME TypeOK, NEW w \in Workers, TrackKnown(w)
    PROVE  \E k \in Active :
              /\ Active' = Active
              /\ \A j \in Active : j # k => flows'[j] = flows[j]
              /\ flows'[k] = AddPacket(flows[k], wpkt[w].ts)
              /\ \E forward \in BOOLEAN : Continue(w, k, flows[k].flow, forward)
BY DEF TrackKnown, Active

(* A flow begins; the flows of S remain, and with them their entries. *)
Begins(w, S) ==
    LET p == wpkt[w]
    IN  /\ Active' = S \cup {p.key} /\ p.key \in Keys /\ IsNew(p.key)
        /\ \A k \in S : flows'[k] = flows[k]
        /\ flows'[p.key] = NewFlow(p.ts)
        /\ \A e \in heap : e[2] \in S => e \in heap'
        /\ \A e \in heap' : e = <<p.ts, p.key>> \/ (e \in heap /\ (e[2] \in Active => e[2] \in S))
        /\ <<p.ts, p.key>> \in heap'

LEMMA NewTable ==
    ASSUME TypeOK, NEW w \in Workers, TrackNew(w) \/ TrackEvicting(w)
    PROVE  \E S \in SUBSET Active :
              /\ IsFiniteSet(S) /\ Cardinality(S) \in Nat /\ Cardinality(S) < MaxActive
              /\ Begins(w, S)
<1>0. wpkt[w].key \in Keys /\ IsNew(wpkt[w].key) /\ wpkt[w].key \notin Active
  BY DEF TrackNew, TrackEvicting, IsNew, TypeOK, WorkersOK
<1>1. CASE TrackNew(w)
  <2>1. IsFiniteSet(Active) /\ Cardinality(Active) \in Nat /\ Cardinality(Active) < MaxActive
    BY <1>1, ActiveCard DEF TrackNew, IsFull
  <2>2. /\ flows' = Add(flows, wpkt[w].key, wpkt[w].ts)
        /\ heap' = heap \cup {<<wpkt[w].ts, wpkt[w].key>>}
    BY <1>1 DEF TrackNew
  <2>3. /\ Active' = Active \cup {wpkt[w].key}
        /\ \A k \in Active : flows'[k] = flows[k]
        /\ flows'[wpkt[w].key] = NewFlow(wpkt[w].ts)
    BY <1>0, <2>2 DEF Add, Active
  <2>4. Begins(w, Active)
    BY <1>0, <2>2, <2>3 DEF Begins
  <2> QED
    BY <2>1, <2>4
<1>2. CASE TrackEvicting(w)
  <2>1. PICK k \in Active :
           LET rest == Restrict(flows, Active \ {k})
           IN  /\ flows' = Add(rest, wpkt[w].key, wpkt[w].ts)
               /\ heap' = Compacted(rest) \cup {<<wpkt[w].ts, wpkt[w].key>>}
    BY <1>2 DEF TrackEvicting, Oldest
  <2> DEFINE rest == Restrict(flows, Active \ {k})
  <2>2. DOMAIN rest = Active \ {k} /\ \A j \in Active \ {k} : rest[j] = flows[j]
    BY RestrictFacts
  <2>3. /\ IsFiniteSet(Active \ {k}) /\ Cardinality(Active \ {k}) \in Nat
        /\ Cardinality(Active \ {k}) < MaxActive
    <3>1. /\ IsFiniteSet(Active \ {k})
          /\ Cardinality(Active \ {k}) = Cardinality(Active) - 1
      BY ActiveCard, FS_RemoveElement
    <3>2. Cardinality(Active \ {k}) \in Nat
      BY <3>1, FS_CardinalityType
    <3> QED
      BY <3>1, <3>2, ActiveCard
  <2>4. Begins(w, Active \ {k})
    <3> HIDE DEF rest
    <3>1. flows' = Add(rest, wpkt[w].key, wpkt[w].ts)
          /\ heap' = {e \in heap : e[2] \in DOMAIN rest} \cup {<<wpkt[w].ts, wpkt[w].key>>}
      BY <2>1 DEF rest, Compacted
    <3> QED
      BY <1>0, <2>2, <3>1 DEF Begins, Active, Add
  <2> QED
    BY <2>3, <2>4
<1> QED
  BY <1>1, <1>2

(* Flows leave the table: the expired ones, or all. *)
Leaves(X) ==
    /\ Active' = Active \ X
    /\ \A k \in Active \ X : flows'[k] = flows[k]

Expired ==
    LET idle == {k \in Active : flows[k].last <= cnow - Timeout}
    IN  IF (heap \ Due(cnow - Timeout)) \cup Repushed(cnow - Timeout) = {} THEN idle
        ELSE {k \in idle : \E e \in Due(cnow - Timeout) : e[2] = k}

LEMMA ExpiredTable ==
    ASSUME CollectExpired
    PROVE  /\ Expired \in SUBSET Active /\ Leaves(Expired)
           /\ clist' = [clist EXCEPT ![Flusher] = Records(Expired)]
           /\ heap' = (heap \ Due(cnow - Timeout)) \cup Repushed(cnow - Timeout)
BY RestrictFacts DEF CollectExpired, Expired, Leaves, Active

LEMMA AllTable ==
    ASSUME CollectAll
    PROVE  Leaves(Active) /\ Active' = {} /\ clist' = [clist EXCEPT ![Main] = Records(Active)]
BY DEF CollectAll, Remaining, Leaves, Active

-----------------------------------------------------------------------------
(* Evidence: what a write or a removal leaves in a dictionary.             *)

Item == [key : Keys, from : SUBSET Found]

LEMMA WithoutFacts ==
    ASSUME TypeOK, NEW d \in Kinds, NEW k
    PROVE  /\ Without(d, k) \in Seq(Item) /\ Len(Without(d, k)) <= Len(hits[d])
           /\ Entry(d, k) # {} => Len(Without(d, k)) < Len(hits[d])
           /\ \A i \in DOMAIN Without(d, k) :
                 \E j \in DOMAIN hits[d] : Without(d, k)[i] = hits[d][j]
<1>1. hits[d] \in Seq(Item)
  BY DEF TypeOK, EvidenceOK, Item
<1>2. Len(hits[d]) \in Nat /\ DOMAIN hits[d] = 1..Len(hits[d])
  BY <1>1, LenProperties
<1>3. CASE Entry(d, k) = {}
  BY <1>1, <1>2, <1>3 DEF Without
<1>4. CASE Entry(d, k) # {}
  <2> DEFINE s == hits[d]
             n == CHOOSE i \in Entry(d, k) : TRUE
             left == SubSeq(s, 1, n - 1)
             right == SubSeq(s, n + 1, Len(s))
  <2>1. n \in 1..Len(s)
    BY <1>2, <1>4 DEF Entry
  <2>2. Without(d, k) = left \o right
    BY <1>4 DEF Without
  <2> HIDE DEF n
  <2>3. s \in Seq(Item) /\ Len(s) \in Nat /\ n \in Int /\ n - 1 \in Int /\ n + 1 \in Int
    BY <1>1, <1>2, <2>1
  <2>4. \A i \in 1..Len(s) : s[i] \in Item
    BY <2>3, ElementOfSeq
  <2>5. /\ left \in Seq(Item) /\ Len(left) = n - 1
        /\ \A i \in 1..(n - 1) : left[i] = s[i]
    <3>1. \A i \in 1..(n - 1) : s[i] \in Item
      BY <2>1, <2>3, <2>4
    <3>2. /\ SubSeq(s, 1, n - 1) \in Seq(Item)
          /\ Len(SubSeq(s, 1, n - 1)) = IF 1 <= n - 1 THEN (n - 1) - 1 + 1 ELSE 0
          /\ \A i \in 1..((n - 1) - 1 + 1) : SubSeq(s, 1, n - 1)[i] = s[1 + i - 1]
      BY <2>3, <3>1, SubSeqProperties
    <3> QED
      BY <2>1, <3>2
  <2>6. /\ right \in Seq(Item) /\ Len(right) = Len(s) - n
        /\ \A i \in 1..(Len(s) - n) : right[i] = s[n + i]
    <3>1. \A i \in (n + 1)..Len(s) : s[i] \in Item
      BY <2>1, <2>3, <2>4
    <3>2. /\ SubSeq(s, n + 1, Len(s)) \in Seq(Item)
          /\ Len(SubSeq(s, n + 1, Len(s))) = IF n + 1 <= Len(s) THEN Len(s) - (n + 1) + 1 ELSE 0
          /\ \A i \in 1..(Len(s) - (n + 1) + 1) : SubSeq(s, n + 1, Len(s))[i] = s[(n + 1) + i - 1]
      BY <2>3, <3>1, SubSeqProperties
    <3> QED
      BY <2>1, <2>3, <3>2
  <2> HIDE DEF left, right
  <2>7. /\ left \o right \in Seq(Item)
        /\ Len(left \o right) = Len(left) + Len(right)
        /\ \A i \in 1..(Len(left) + Len(right)) :
              (left \o right)[i] = IF i <= Len(left) THEN left[i] ELSE right[i - Len(left)]
    BY <2>5, <2>6, ConcatProperties
  <2>8. Len(left \o right) = Len(s) - 1 /\ DOMAIN (left \o right) = 1..(Len(s) - 1)
    <3>1. DOMAIN (left \o right) = 1..Len(left \o right)
      BY <2>7, LenProperties
    <3>2. Len(left \o right) = Len(s) - 1
      BY <2>1, <2>3, <2>5, <2>6, <2>7
    <3> QED
      BY <3>1, <3>2
  <2>9. ASSUME NEW i \in 1..(Len(s) - 1)
        PROVE  \E j \in 1..Len(s) : (left \o right)[i] = s[j]
    <3>1. CASE i <= n - 1
      BY <2>1, <2>3, <2>5, <2>6, <2>7, <3>1
    <3>2. CASE i > n - 1
      <4>1. i - (n - 1) \in 1..(Len(s) - n) /\ n + (i - (n - 1)) = i + 1 /\ i + 1 \in 1..Len(s)
        BY <2>1, <2>3, <3>2
      <4>2. (left \o right)[i] = right[i - (n - 1)]
        BY <2>1, <2>3, <2>5, <2>6, <2>7, <3>2
      <4> QED
        BY <2>6, <4>1, <4>2
    <3>3. i <= n - 1 \/ i > n - 1
      BY <2>3
    <3> QED
      BY <3>1, <3>2, <3>3, Zenon
  <2>10. \A i \in DOMAIN Without(d, k) : \E j \in DOMAIN s : Without(d, k)[i] = s[j]
    BY <1>2, <2>2, <2>8, <2>9
  <2> QED
    BY <2>2, <2>3, <2>7, <2>8, <2>10
<1> QED
  BY <1>3, <1>4

LEMMA HeldFacts ==
    ASSUME TypeOK, NEW d \in Kinds, NEW k
    PROVE  Held(d, k) \subseteq Found /\ (KeptEvidenceInv => \A f \in Held(d, k) : f.key = k)
<1>1. hits[d] \in Seq(Item)
  BY DEF TypeOK, EvidenceOK, Item
<1>2. \A i \in DOMAIN hits[d] : hits[d][i] \in Item
  BY <1>1, LenProperties, ElementOfSeq
<1> QED
  BY <1>2 DEF Held, Entry, HitKey, KeptEvidenceInv, Item

NewItem(d, ref) ==
    LET found == [flow |-> ref.flow, key |-> ref.key]
    IN  [key |-> HitKey(ref.key), from |-> IF d = "payload" THEN Held(d, ref.key) \cup {found} ELSE {found}]

LEMMA WrittenFacts ==
    ASSUME TypeOK, NEW d \in Kinds, NEW ref, ref.key \in Keys, ref.flow \in 1..born
    PROVE  /\ Written(d, ref) \in Seq(Item) /\ Len(Written(d, ref)) <= MaxActive
           /\ \A i \in DOMAIN Written(d, ref) :
                 \/ Written(d, ref)[i] = NewItem(d, ref)
                 \/ \E j \in DOMAIN hits[d] : Written(d, ref)[i] = hits[d][j]
<1> DEFINE full == Entry(d, ref.key) = {} /\ Len(hits[d]) >= MaxActive
           rest == IF full THEN Tail(hits[d]) ELSE Without(d, ref.key)
<1>1. hits[d] \in Seq(Item) /\ Len(hits[d]) <= MaxActive /\ MaxActive \in Nat \ {0}
  BY DispatcherAssumption DEF TypeOK, EvidenceOK, Item, DispatcherAssumption
<1>2. Len(hits[d]) \in Nat /\ DOMAIN hits[d] = 1..Len(hits[d])
  BY <1>1, LenProperties
<1>3. NewItem(d, ref) \in Item
  <2>1. [flow |-> ref.flow, key |-> ref.key] \in Found
    BY DEF Found
  <2> QED
    BY <2>1, HeldFacts DEF NewItem, Item, HitKey
<1>4. /\ rest \in Seq(Item) /\ Len(rest) < MaxActive
      /\ \A i \in DOMAIN rest : \E j \in DOMAIN hits[d] : rest[i] = hits[d][j]
  <2>1. CASE full
    <3>1. hits[d] # <<>>
      BY <1>1, <1>2, <2>1, EmptySeq
    <3>2. /\ Tail(hits[d]) \in Seq(Item) /\ Len(Tail(hits[d])) = Len(hits[d]) - 1
          /\ \A i \in 1..Len(Tail(hits[d])) : Tail(hits[d])[i] = hits[d][i + 1]
      BY <1>1, <3>1, HeadTailProperties
    <3>3. DOMAIN Tail(hits[d]) = 1..(Len(hits[d]) - 1)
      BY <3>2, LenProperties
    <3> QED
      BY <1>1, <1>2, <2>1, <3>2, <3>3
  <2>2. CASE ~full
    <3>1. rest = Without(d, ref.key)
      BY <2>2
    <3>2. Len(rest) \in Nat
      BY <3>1, WithoutFacts, LenProperties
    <3>3. Len(rest) <= Len(hits[d]) /\ (Entry(d, ref.key) # {} => Len(rest) < Len(hits[d]))
      BY <3>1, WithoutFacts
    <3>4. Len(rest) < MaxActive
      BY <1>1, <1>2, <2>2, <3>2, <3>3
    <3>5. /\ Without(d, ref.key) \in Seq(Item)
          /\ \A i \in DOMAIN Without(d, ref.key) :
                \E j \in DOMAIN hits[d] : Without(d, ref.key)[i] = hits[d][j]
      BY WithoutFacts
    <3> HIDE DEF rest
    <3> QED
      BY <3>1, <3>4, <3>5
  <2> QED
    BY <2>1, <2>2
<1>5. Written(d, ref) = Append(rest, NewItem(d, ref))
  BY DEF Written, NewItem
<1> HIDE DEF rest
<1>6. /\ Append(rest, NewItem(d, ref)) \in Seq(Item)
      /\ Len(Append(rest, NewItem(d, ref))) = Len(rest) + 1
      /\ \A i \in 1..Len(rest) : Append(rest, NewItem(d, ref))[i] = rest[i]
      /\ Append(rest, NewItem(d, ref))[Len(rest) + 1] = NewItem(d, ref)
  BY <1>3, <1>4, AppendProperties
<1>7. Len(rest) \in Nat /\ DOMAIN rest = 1..Len(rest)
  BY <1>4, LenProperties
<1>8. DOMAIN Append(rest, NewItem(d, ref)) = 1..(Len(rest) + 1)
  BY <1>6, LenProperties
<1>9. \A i \in 1..(Len(rest) + 1) : i \in 1..Len(rest) \/ i = Len(rest) + 1
  BY <1>7
<1> QED
  BY <1>1, <1>4, <1>5, <1>6, <1>7, <1>8, <1>9

-----------------------------------------------------------------------------
(* Type correctness.                                                       *)

(* The clock and the number of flows only grow. *)
Grows == now' \in now..MaxTime /\ born' \in Nat /\ born <= born'

LEMMA TypeFacts ==
    ASSUME TypeOK
    PROVE  /\ now \in Nat \ {0} /\ MaxTime \in Nat /\ now <= MaxTime /\ born \in Nat
           /\ packets \in Nat /\ MaxPackets \in Nat /\ Timeout \in Nat \ {0}
           /\ Active \subseteq Keys /\ \A k \in Active : flows[k] \in Flow
BY DispatcherAssumption DEF TypeOK, TableOK, DispatcherAssumption

LEMMA FoundGrows == ASSUME TypeOK, Grows PROVE Found \subseteq Found' /\ Item \subseteq Item'
<1>1. 1..born \subseteq 1..born'
  BY TypeFacts DEF Grows
<1> QED
  BY <1>1 DEF Found, Item

LEMMA TableFrame == ASSUME TypeOK, UNCHANGED <<flows, heap, born, packets>>, Grows PROVE TableOK'
<1>1. 0..now \subseteq 0..now' /\ now' \in 1..MaxTime
  BY TypeFacts DEF Grows
<1> QED
  BY <1>1 DEF TypeOK, TableOK, Active, Flow

LEMMA EvidenceFrame == ASSUME TypeOK, UNCHANGED hits, Grows PROVE EvidenceOK'
<1>1. \A d \in Kinds : hits[d] \in Seq(Item)
  BY DEF TypeOK, EvidenceOK, Item
<1>2. \A d \in Kinds : hits[d] \in Seq(Item')
  BY <1>1, FoundGrows, SeqMonotonic
<1> QED
  BY <1>2 DEF TypeOK, EvidenceOK, Item

LEMMA WorkersFrame == ASSUME TypeOK, UNCHANGED <<wpc, wpkt, wref>>, Grows PROVE WorkersOK'
<1>1. 0..now \subseteq 0..now' /\ 0..born \subseteq 0..born' /\ 1..now \subseteq 1..now' /\ 1..born \subseteq 1..born'
  BY TypeFacts DEF Grows
<1> QED
  BY <1>1 DEF TypeOK, WorkersOK

LEMMA CollectorsFrame ==
    ASSUME TypeOK, UNCHANGED collectorVars, phase' \in {"running", "flushing", "stopped"}, Grows
    PROVE  CollectorsOK'
<1>1. 0..now \subseteq 0..now' /\ 0..born \subseteq 0..born' /\ 1..born \subseteq 1..born'
  BY TypeFacts DEF Grows
<1>2. scored' \in Seq([key : Keys, flow : 1..born', evidence : SUBSET Found'])
  BY <1>1, FoundGrows, SeqMonotonic DEF TypeOK, CollectorsOK, collectorVars
<1>3. /\ clist' \in [Collectors -> SUBSET [key : Keys, flow : 1..born']]
      /\ crec' \in [Collectors -> [key : Keys \cup {"none"}, flow : 0..born', payload : SUBSET Found']]
  BY <1>1, FoundGrows DEF TypeOK, CollectorsOK, collectorVars
<1> QED
  BY <1>1, <1>2, <1>3 DEF TypeOK, CollectorsOK, collectorVars

LEMMA TypeInit == Init => TypeOK
<1> SUFFICES ASSUME Init PROVE TypeOK
  OBVIOUS
<1> USE DispatcherAssumption DEF Init, DispatcherAssumption
<1>1. Active = {}
  BY DEF Active
<1>2. TableOK
  BY <1>1, FS_EmptySet DEF TableOK
<1>3. EvidenceOK
  BY EmptySeq DEF EvidenceOK
<1>4. WorkersOK
  BY DEF WorkersOK, NoPacket, NoRef
<1>5. CollectorsOK
  BY EmptySeq DEF CollectorsOK, NoRecord
<1> QED
  BY <1>2, <1>3, <1>4, <1>5 DEF TypeOK

LEMMA ContinueTypes ==
    ASSUME TypeOK, NEW w \in Workers, NEW key \in Keys, NEW flow \in 1..born', NEW forward,
           Continue(w, key, flow, forward), wpc[w] = "track", UNCHANGED wpkt, Grows
    PROVE  WorkersOK'
<1>1. 0..now \subseteq 0..now' /\ 0..born \subseteq 0..born' /\ 1..now \subseteq 1..now' /\ 1..born \subseteq 1..born'
  BY TypeFacts DEF Grows
<1> QED
  BY <1>1 DEF TypeOK, WorkersOK, Continue

LEMMA StampTypes == ASSUME TypeOK, NEW w \in Workers, Stamp(w) PROVE TypeOK'
<1>1. Grows
  BY TypeFacts DEF Stamp, Grows
<1>2. TableOK'
  BY TypeFacts DEF Stamp, TypeOK, TableOK, Active, Flow
<1>3. WorkersOK'
  BY TypeFacts, DispatcherAssumption DEF Stamp, TypeOK, WorkersOK, DispatcherAssumption
<1> QED
  BY <1>1, <1>2, <1>3, EvidenceFrame, CollectorsFrame DEF Stamp, TypeOK, CollectorsOK

LEMMA KnownTypes == ASSUME TypeOK, NEW w \in Workers, TrackKnown(w) PROVE TypeOK'
<1>1. Grows /\ UNCHANGED <<now, heap, hits, born, wpkt, packets, collectorVars, phase>>
  BY TypeFacts DEF TrackKnown, Grows
<1>2. PICK k \in Active :
         /\ Active' = Active
         /\ \A j \in Active : j # k => flows'[j] = flows[j]
         /\ flows'[k] = AddPacket(flows[k], wpkt[w].ts)
         /\ \E forward \in BOOLEAN : Continue(w, k, flows[k].flow, forward)
  BY KnownTable
<1>3. wpkt[w].ts \in 0..now
  BY DEF TypeOK, WorkersOK
<1>4. AddPacket(flows[k], wpkt[w].ts) \in Flow
  BY <1>3, TypeFacts DEF AddPacket, Flow
<1>5. TableOK'
  BY <1>1, <1>2, <1>4 DEF TypeOK, TableOK, Flow
<1>6. WorkersOK'
  <2>1. k \in Keys /\ flows[k].flow \in 1..born'
    BY <1>1, TypeFacts DEF Flow
  <2> QED
    BY <1>1, <1>2, <2>1, ContinueTypes DEF TrackKnown
<1> QED
  BY <1>1, <1>5, <1>6, EvidenceFrame, CollectorsFrame DEF TypeOK, CollectorsOK

LEMMA NewTypes == ASSUME TypeOK, NEW w \in Workers, TrackNew(w) \/ TrackEvicting(w) PROVE TypeOK'
<1>1. Grows /\ UNCHANGED <<now, hits, wpkt, packets, collectorVars, phase>> /\ born' = born + 1
  <2>1. UNCHANGED <<now, hits, wpkt, packets, collectorVars, phase>> /\ born' = born + 1
    BY DEF TrackNew, TrackEvicting
  <2> QED
    BY <2>1, TypeFacts DEF Grows
<1>2. PICK S \in SUBSET Active :
         /\ IsFiniteSet(S) /\ Cardinality(S) \in Nat /\ Cardinality(S) < MaxActive
         /\ Begins(w, S)
  BY NewTable
<1>3. wpkt[w].ts \in 0..now /\ wpc[w] = "track"
  BY DEF TypeOK, WorkersOK, TrackNew, TrackEvicting
<1>4. NewFlow(wpkt[w].ts) \in Flow' /\ Flow \subseteq Flow'
  BY <1>1, <1>3, TypeFacts DEF NewFlow, Flow
<1>5. TableOK'
  <2>1. Active' \subseteq Keys /\ \A k \in Active' : flows'[k] \in Flow'
    BY <1>2, <1>4, TypeFacts DEF Begins
  <2>2. IsFiniteSet(Active') /\ Cardinality(Active') <= MaxActive
    <3>1. /\ IsFiniteSet(S \cup {wpkt[w].key})
          /\ Cardinality(S \cup {wpkt[w].key}) \in {Cardinality(S), Cardinality(S) + 1}
      BY <1>2, FS_AddElement
    <3> QED
      BY <1>2, <3>1, ActiveCard DEF Begins
  <2>3. heap' \subseteq (0..now) \X Keys
    BY <1>2, <1>3 DEF Begins, TypeOK, TableOK
  <2> QED
    BY <1>1, <2>1, <2>2, <2>3, TypeFacts DEF TypeOK, TableOK
<1>6. WorkersOK'
  <2>1. wpkt[w].key \in Keys /\ born + 1 \in 1..born'
    BY <1>1, <1>2, TypeFacts DEF Begins
  <2>2. Continue(w, wpkt[w].key, born + 1, TRUE)
    BY DEF TrackNew, TrackEvicting
  <2> QED
    BY <1>1, <1>3, <2>1, <2>2, ContinueTypes
<1> QED
  BY <1>1, <1>5, <1>6, EvidenceFrame, CollectorsFrame DEF TypeOK, CollectorsOK

LEMMA NoteTypes == ASSUME TypeOK, NEW w \in Workers, NoteEvidence(w) PROVE TypeOK'
<1> DEFINE d == IF "ja3" \in wpkt[w].kinds THEN "ja3" ELSE "payload"
<1>1. Grows /\ UNCHANGED <<now, flows, heap, born, wref, packets, collectorVars, phase>>
  BY TypeFacts DEF NoteEvidence, Grows
<1>2. /\ d \in Kinds /\ wpc[w] = "evidence" /\ hits' = [hits EXCEPT ![d] = Written(d, wref[w])]
      /\ wpkt' = [wpkt EXCEPT ![w].kinds = @ \ {d}]
      /\ wpc' = [wpc EXCEPT ![w] = IF wpkt[w].kinds = {d} THEN "idle" ELSE "evidence"]
  BY DEF NoteEvidence, Kinds
<1> HIDE DEF d
<1>3. wref[w].key \in Keys /\ wref[w].flow \in 1..born
  BY <1>2 DEF TypeOK, WorkersOK
<1>4. EvidenceOK'
  <2>1. Written(d, wref[w]) \in Seq(Item) /\ Len(Written(d, wref[w])) <= MaxActive
    BY <1>2, <1>3, WrittenFacts
  <2>2. hits \in [Kinds -> Seq(Item)] /\ \A e \in Kinds : Len(hits[e]) <= MaxActive
    BY DEF TypeOK, EvidenceOK, Item
  <2>3. hits' \in [Kinds -> Seq(Item)] /\ \A e \in Kinds : Len(hits'[e]) <= MaxActive
    BY <1>2, <2>1, <2>2
  <2>4. Item' = Item
    BY <1>1 DEF Item, Found
  <2> QED
    BY <2>3, <2>4 DEF EvidenceOK, Item
<1>5. WorkersOK'
  <2>1. wpkt[w].kinds \ {d} # {} \/ wpkt[w].kinds = {d}
    BY <1>2 DEF TypeOK, WorkersOK
  <2> QED
    BY <1>1, <1>2, <2>1 DEF TypeOK, WorkersOK
<1> QED
  BY <1>1, <1>4, <1>5, TableFrame, CollectorsFrame DEF TypeOK, CollectorsOK

LEMMA RecordsTypes ==
    ASSUME TypeOK, NEW S \in SUBSET Active
    PROVE  Records(S) \in SUBSET [key : Keys, flow : 1..born]
BY TypeFacts DEF Records, Flow

(* Flows leave the table for the list of a collector. *)
LEMMA CollectTypes ==
    ASSUME TypeOK, NEW X \in SUBSET Active, Leaves(X), NEW c \in Collectors,
           clist' = [clist EXCEPT ![c] = Records(X)],
           cpc' = [cpc EXCEPT ![c] = "take"], heap' \subseteq (0..now) \X Keys,
           UNCHANGED <<now, hits, born, workerVars, cnow, crec, scored, phase>>
    PROVE  TypeOK'
<1>1. Grows
  BY TypeFacts DEF Grows
<1>2. TableOK'
  <2>1. Active' \subseteq Keys /\ \A k \in Active' : flows'[k] \in Flow
    BY TypeFacts DEF Leaves
  <2>2. IsFiniteSet(Active') /\ Cardinality(Active') <= MaxActive
    <3>1. Active' \in SUBSET Active
      BY DEF Leaves
    <3>2. IsFiniteSet(Active') /\ Cardinality(Active') <= Cardinality(Active)
      BY <3>1, ActiveCard, FS_Subset
    <3>3. Cardinality(Active') \in Nat
      BY <3>2, FS_CardinalityType
    <3> QED
      BY <3>2, <3>3, ActiveCard
  <2>3. Flow' = Flow
    BY DEF Flow
  <2> QED
    BY <2>1, <2>2, <2>3 DEF TypeOK, TableOK, workerVars
<1>3. CollectorsOK'
  <2>1. Records(X) \in SUBSET [key : Keys, flow : 1..born]
    BY RecordsTypes
  <2>2. Found' = Found
    BY DEF Found
  <2> QED
    BY <2>1, <2>2 DEF TypeOK, CollectorsOK
<1> QED
  BY <1>1, <1>2, <1>3, EvidenceFrame, WorkersFrame DEF TypeOK, workerVars

LEMMA ExpiredTypes == ASSUME TypeOK, CollectExpired PROVE TypeOK'
<1>1. Repushed(cnow - Timeout) \subseteq (0..now) \X Keys
  BY TypeFacts DEF Repushed, Flow
<1>2. heap' \subseteq (0..now) \X Keys
  BY <1>1, ExpiredTable DEF TypeOK, TableOK
<1> QED
  BY <1>2, ExpiredTable, CollectTypes DEF CollectExpired, Collectors

LEMMA AllTypes == ASSUME TypeOK, CollectAll PROVE TypeOK'
BY AllTable, CollectTypes DEF CollectAll, Collectors, TypeOK, TableOK

LEMMA TakeTypes == ASSUME TypeOK, NEW c \in Collectors, TakeRecord(c) PROVE TypeOK'
<1>1. PICK r \in clist[c] :
         /\ crec' = [crec EXCEPT ![c] = [key |-> r.key, flow |-> r.flow, payload |-> Held("payload", r.key)]]
         /\ hits' = [hits EXCEPT !["payload"] = Without("payload", r.key)]
         /\ clist' = [clist EXCEPT ![c] = @ \ {r}]
  BY DEF TakeRecord
<1>2. /\ Grows /\ cpc' = [cpc EXCEPT ![c] = "score"] /\ "payload" \in Kinds
      /\ UNCHANGED <<now, flows, heap, born, workerVars, cnow, scored, phase>>
  BY TypeFacts DEF TakeRecord, Grows, Kinds
<1>3. r \in [key : Keys, flow : 1..born]
  BY DEF TypeOK, CollectorsOK
<1>4. EvidenceOK'
  <2>1. Without("payload", r.key) \in Seq(Item) /\ Len(Without("payload", r.key)) <= MaxActive
    <3>1. /\ Without("payload", r.key) \in Seq(Item)
          /\ Len(Without("payload", r.key)) <= Len(hits["payload"])
      BY <1>2, WithoutFacts
    <3>2. Len(Without("payload", r.key)) \in Nat
      BY <3>1, LenProperties
    <3>3. Len(hits["payload"]) \in Nat /\ Len(hits["payload"]) <= MaxActive
      BY <1>2, LenProperties DEF TypeOK, EvidenceOK
    <3> QED
      BY <3>1, <3>2, <3>3, ActiveCard
  <2>2. hits \in [Kinds -> Seq(Item)] /\ \A e \in Kinds : Len(hits[e]) <= MaxActive
    BY DEF TypeOK, EvidenceOK, Item
  <2>3. hits' \in [Kinds -> Seq(Item)] /\ \A e \in Kinds : Len(hits'[e]) <= MaxActive
    BY <1>1, <2>1, <2>2
  <2>4. Item' = Item
    BY <1>2 DEF Item, Found
  <2> QED
    BY <2>3, <2>4 DEF EvidenceOK, Item
<1>5. CollectorsOK'
  <2>1. Held("payload", r.key) \subseteq Found
    BY <1>2, HeldFacts
  <2>2. Found' = Found
    BY <1>2 DEF Found
  <2> QED
    BY <1>1, <1>2, <1>3, <2>1, <2>2 DEF TypeOK, CollectorsOK
<1> QED
  BY <1>2, <1>4, <1>5, TableFrame, WorkersFrame DEF TypeOK, workerVars

LEMMA ScoreTypes == ASSUME TypeOK, NEW c \in Collectors, Score(c) PROVE TypeOK'
<1> DEFINE r == crec[c]
           new == [key |-> r.key, flow |-> r.flow, evidence |-> r.payload \cup Held("ja3", r.key)]
           Scored == [key : Keys, flow : 1..born, evidence : SUBSET Found]
<1>1. /\ Grows /\ cpc[c] = "score" /\ cpc' = [cpc EXCEPT ![c] = "take"] /\ "ja3" \in Kinds
      /\ hits' = [hits EXCEPT !["ja3"] = Without("ja3", r.key)]
      /\ scored' = Append(scored, new) /\ crec' = [crec EXCEPT ![c] = NoRecord]
      /\ UNCHANGED <<now, flows, heap, born, workerVars, cnow, clist, phase>>
  BY TypeFacts DEF Score, Grows, Kinds, AfterCallback
<1>2. new \in Scored
  BY <1>1, HeldFacts DEF TypeOK, CollectorsOK
<1> HIDE DEF new
<1>3. EvidenceOK'
  <2>1. Without("ja3", r.key) \in Seq(Item) /\ Len(Without("ja3", r.key)) <= MaxActive
    <3>1. Without("ja3", r.key) \in Seq(Item) /\ Len(Without("ja3", r.key)) <= Len(hits["ja3"])
      BY <1>1, WithoutFacts
    <3>2. Len(Without("ja3", r.key)) \in Nat
      BY <3>1, LenProperties
    <3>3. Len(hits["ja3"]) \in Nat /\ Len(hits["ja3"]) <= MaxActive
      BY <1>1, LenProperties DEF TypeOK, EvidenceOK
    <3> QED
      BY <3>1, <3>2, <3>3, ActiveCard
  <2>2. hits \in [Kinds -> Seq(Item)] /\ \A e \in Kinds : Len(hits[e]) <= MaxActive
    BY DEF TypeOK, EvidenceOK, Item
  <2>3. hits' \in [Kinds -> Seq(Item)] /\ \A e \in Kinds : Len(hits'[e]) <= MaxActive
    BY <1>1, <2>1, <2>2
  <2>4. Item' = Item
    BY <1>1 DEF Item, Found
  <2> QED
    BY <2>3, <2>4 DEF EvidenceOK, Item
<1>4. CollectorsOK'
  <2>1. scored' \in Seq(Scored)
    BY <1>1, <1>2, AppendProperties DEF TypeOK, CollectorsOK
  <2>2. Found' = Found
    BY <1>1 DEF Found
  <2>3. NoRecord \in [key : Keys \cup {"none"}, flow : 0..born, payload : SUBSET Found]
    BY TypeFacts DEF NoRecord
  <2> QED
    BY <1>1, <2>1, <2>2, <2>3 DEF TypeOK, CollectorsOK
<1> QED
  BY <1>1, <1>3, <1>4, TableFrame, WorkersFrame DEF TypeOK, workerVars

(* Steps that only move a thread, the clock or the phase. *)
Moves == Wake \/ FlusherDone \/ MainDone \/ BeginShutdown \/ Tick

LEMMA MoveFacts ==
    ASSUME TypeOK, Moves
    PROVE  /\ UNCHANGED <<flows, heap, hits, born, workerVars, clist, crec, scored>> /\ Grows
           /\ \A c \in Collectors : (cpc'[c] = "score") <=> (cpc[c] = "score")
           /\ cpc'[Main] = "idle" => cpc[Main] = "idle"
<1>1. cpc \in [Collectors -> {"idle", "collect", "take", "score", "ended"}]
  BY DEF TypeOK, CollectorsOK
<1>2. Flusher \in Collectors /\ Main \in Collectors /\ Flusher # Main
  BY DEF Collectors, Flusher, Main
<1> QED
  BY <1>1, <1>2, TypeFacts
  DEF Moves, Wake, FlusherDone, MainDone, BeginShutdown, Tick, Grows, collectorVars

LEMMA MoveTypes == ASSUME TypeOK, Moves PROVE TypeOK'
<1>1. /\ UNCHANGED <<flows, heap, hits, born, workerVars, clist, crec, scored>> /\ Grows
      /\ \A c \in Collectors : (cpc'[c] = "score") <=> (cpc[c] = "score")
  BY MoveFacts
<1>2. /\ cpc' \in [Collectors -> {"idle", "collect", "take", "score", "ended"}]
      /\ cnow' \in 0..now' /\ phase' \in {"running", "flushing", "stopped"}
  BY TypeFacts
  DEF Moves, Wake, FlusherDone, MainDone, BeginShutdown, Tick, collectorVars, TypeOK, CollectorsOK, Collectors
<1>3. CollectorsOK'
  <2>1. Found' = Found
    BY <1>1 DEF Found
  <2> QED
    BY <1>1, <1>2, <2>1 DEF TypeOK, CollectorsOK
<1> QED
  BY <1>1, <1>3, TableFrame, EvidenceFrame, WorkersFrame DEF TypeOK, workerVars

LEMMA TypeStutter == ASSUME TypeOK, UNCHANGED vars PROVE TypeOK'
<1>1. Grows
  BY TypeFacts DEF vars, Grows
<1> QED
  BY <1>1, TableFrame, EvidenceFrame, WorkersFrame, CollectorsFrame
  DEF vars, workerVars, TypeOK, CollectorsOK

(* The table, the heap, the dictionaries and the threads keep their types, and *)
(* neither the table nor a dictionary outgrows MAX_ACTIVE_FLOWS.               *)
THEOREM DispatcherTypes == Spec => []TypeOK
<1>1. TypeOK /\ [Next]_vars => TypeOK'
  <2> SUFFICES ASSUME TypeOK, [Next]_vars PROVE TypeOK'
    OBVIOUS
  <2>1. ASSUME NEW w \in Workers, Stamp(w) \/ WorkerStep(w) PROVE TypeOK'
    BY <2>1, StampTypes, KnownTypes, NewTypes, NoteTypes DEF WorkerStep
  <2>2. CASE CollectExpired \/ CollectAll
    BY <2>2, ExpiredTypes, AllTypes
  <2>3. ASSUME NEW c \in Collectors, TakeRecord(c) \/ Score(c) PROVE TypeOK'
    BY <2>3, TakeTypes, ScoreTypes
  <2>4. CASE Moves
    BY <2>4, MoveTypes
  <2>5. CASE UNCHANGED vars
    BY <2>5, TypeStutter
  <2> QED
    BY <2>1, <2>2, <2>3, <2>4, <2>5 DEF Next, FlusherStep, MainStep, Moves, Collectors
<1> QED
  BY <1>1, TypeInit, PTL DEF Spec

-----------------------------------------------------------------------------
(* One record per conversation.                                            *)

LEMMA OneFlowStep == ASSUME TypeOK, OneFlowPerConversation, [Next]_vars PROVE OneFlowPerConversation'
<1>1. ASSUME NEW w \in Workers, TrackKnown(w) PROVE OneFlowPerConversation'
  BY <1>1, KnownTable DEF OneFlowPerConversation
<1>2. ASSUME NEW w \in Workers, TrackNew(w) \/ TrackEvicting(w) PROVE OneFlowPerConversation'
  <2>1. PICK S \in SUBSET Active : Begins(w, S)
    BY <1>2, NewTable
  <2>2. /\ Active' = S \cup {wpkt[w].key} /\ wpkt[w].key \in Keys
        /\ wpkt[w].key \notin Active /\ Rev[wpkt[w].key] \notin Active
    BY <2>1 DEF Begins, IsNew
  <2>3. \A k \in Keys : Rev[k] \in Keys /\ Rev[Rev[k]] = k
    BY DispatcherAssumption DEF DispatcherAssumption
  <2>4. Active \subseteq Keys
    BY TypeFacts
  <2> QED
    BY <2>2, <2>3, <2>4 DEF OneFlowPerConversation
<1>3. CASE CollectExpired \/ CollectAll
  BY <1>3, ExpiredTable, AllTable DEF Leaves, OneFlowPerConversation
<1>4. CASE UNCHANGED flows
  BY <1>4 DEF OneFlowPerConversation, Active
<1> QED
  BY <1>1, <1>2, <1>3, <1>4
  DEF Next, vars, Stamp, WorkerStep, NoteEvidence, FlusherStep, MainStep, Wake, TakeRecord, Score,
      FlusherDone, MainDone, BeginShutdown, Tick

(* Both directions of a conversation share one record, whatever the order in   *)
(* which workers process its packets and flows expire or are evicted.          *)
THEOREM OneFlowHolds == Spec => []OneFlowPerConversation
<1>1. Init => OneFlowPerConversation
  BY DEF Init, OneFlowPerConversation, Active
<1> QED
  BY <1>1, OneFlowStep, DispatcherTypes, PTL DEF Spec

-----------------------------------------------------------------------------
(* Heap and table.                                                         *)

HeapInv == EntryInv /\ OneEntryInv

LEMMA KnownHeap == ASSUME TypeOK, HeapInv, NEW w \in Workers, TrackKnown(w) PROVE HeapInv'
<1>1. PICK k \in Active :
         /\ Active' = Active
         /\ \A j \in Active : j # k => flows'[j] = flows[j]
         /\ flows'[k] = AddPacket(flows[k], wpkt[w].ts)
  BY KnownTable
<1>2. UNCHANGED <<heap, cpc>>
  BY DEF TrackKnown, collectorVars
<1>3. /\ flows'[k].last <= flows'[k].newest
      /\ \A t \in 0..now : t <= flows[k].newest => t <= flows'[k].newest
  BY <1>1, TypeFacts DEF AddPacket, Flow, TypeOK, WorkersOK
<1>4. \A e \in heap : e[1] \in 0..now
  BY DEF TypeOK, TableOK
<1>5. EntryInv'
  BY <1>1, <1>2, <1>3, <1>4 DEF HeapInv, EntryInv
<1>6. OneEntryInv'
  BY <1>1, <1>2 DEF HeapInv, OneEntryInv
<1> QED
  BY <1>5, <1>6 DEF HeapInv

LEMMA NewHeap ==
    ASSUME TypeOK, HeapInv, NEW w \in Workers, TrackNew(w) \/ TrackEvicting(w)
    PROVE  HeapInv'
<1>1. PICK S \in SUBSET Active : Begins(w, S)
  BY NewTable
<1> DEFINE p == wpkt[w]
<1>2. /\ Active' = S \cup {p.key} /\ p.key \notin Active
      /\ \A k \in S : flows'[k] = flows[k]
      /\ flows'[p.key] = NewFlow(p.ts)
      /\ \A e \in heap : e[2] \in S => e \in heap'
      /\ \A e \in heap' : e = <<p.ts, p.key>> \/ (e \in heap /\ (e[2] \in Active => e[2] \in S))
      /\ <<p.ts, p.key>> \in heap'
  BY <1>1 DEF Begins, IsNew
<1>3. p.ts \in Nat /\ UNCHANGED cpc
  <2>1. p.ts \in 0..now
    BY DEF TypeOK, WorkersOK
  <2>2. UNCHANGED cpc
    BY DEF TrackNew, TrackEvicting, collectorVars
  <2> QED
    BY <2>1, <2>2, TypeFacts
<1> HIDE DEF p
<1>4. EntryInv'
  <2>1. ASSUME NEW k \in S
        PROVE  /\ flows'[k].last <= flows'[k].newest
               /\ \E e \in heap' : e[2] = k /\ e[1] <= flows'[k].newest
    BY <1>2 DEF HeapInv, EntryInv
  <2>2. /\ flows'[p.key].last <= flows'[p.key].newest
        /\ \E e \in heap' : e[2] = p.key /\ e[1] <= flows'[p.key].newest
    BY <1>2, <1>3 DEF NewFlow
  <2> QED
    BY <1>2, <2>1, <2>2 DEF EntryInv
<1>5. OneEntryInv'
  <2> SUFFICES ASSUME cpc[Main] = "idle"
               PROVE  /\ \A e \in heap' : e[2] \in Active'
                      /\ \A e, f \in heap' : e[2] = f[2] => e = f
    BY <1>3 DEF OneEntryInv
  <2>1. /\ \A e \in heap : e[2] \in Active
        /\ \A e, f \in heap : e[2] = f[2] => e = f
    BY DEF HeapInv, OneEntryInv
  <2>2. \A e \in heap' : e = <<p.ts, p.key>> \/ (e \in heap /\ e[2] \in S)
    BY <1>2, <2>1
  <2>3. <<p.ts, p.key>>[2] = p.key
    OBVIOUS
  <2> QED
    BY <1>2, <2>1, <2>2, <2>3
<1> QED
  BY <1>4, <1>5 DEF HeapInv

(* What the flusher leaves behind. *)
LEMMA ExpiredFacts ==
    ASSUME TypeOK, CollectExpired
    PROVE  \A k \in Active \ Expired :
              /\ flows[k].last > cnow - Timeout => \A e \in heap : e[2] = k =>
                    \/ e \in heap'
                    \/ <<flows[k].last, k>> \in heap'
              /\ flows[k].last <= cnow - Timeout => \A e \in heap : e[2] = k =>
                    e \in heap' /\ e[1] > cnow - Timeout
<1> DEFINE cut == cnow - Timeout
<1> SUFFICES ASSUME NEW k \in Active \ Expired, NEW e \in heap, e[2] = k
             PROVE  /\ flows[k].last > cut => e \in heap' \/ <<flows[k].last, k>> \in heap'
                    /\ flows[k].last <= cut => e \in heap' /\ e[1] > cut
  OBVIOUS
<1>1. heap' = (heap \ Due(cut)) \cup Repushed(cut) /\ cut \in Int /\ e[1] \in Int
  BY ExpiredTable, TypeFacts DEF TypeOK, TableOK, CollectorsOK
<1>2. e \in Due(cut) <=> e[1] <= cut
  BY DEF Due
<1>3. CASE flows[k].last > cut
  BY <1>1, <1>2, <1>3, TypeFacts DEF Repushed, Flow
<1>4. CASE flows[k].last <= cut
  <2>1. heap' # {} => ~ \E d \in Due(cut) : d[2] = k
    BY <1>1, <1>4 DEF Expired
  <2>2. heap' # {}
    BY <1>1, <1>4 DEF Expired
  <2> QED
    BY <1>1, <1>2, <1>4, <2>1, <2>2, TypeFacts DEF Flow
<1> QED
  BY <1>1, <1>3, <1>4, TypeFacts DEF Flow

LEMMA ExpiredHeap == ASSUME TypeOK, HeapInv, CollectExpired PROVE HeapInv'
<1>1. /\ Active' = Active \ Expired /\ \A k \in Active \ Expired : flows'[k] = flows[k]
      /\ heap' = (heap \ Due(cnow - Timeout)) \cup Repushed(cnow - Timeout)
  BY ExpiredTable DEF Leaves
<1>2. EntryInv'
  <2> SUFFICES ASSUME NEW k \in Active \ Expired
               PROVE  /\ flows[k].last <= flows[k].newest
                      /\ \E e \in heap' : e[2] = k /\ e[1] <= flows[k].newest
    BY <1>1 DEF EntryInv
  <2>1. PICK e \in heap : e[2] = k /\ e[1] <= flows[k].newest
    BY DEF HeapInv, EntryInv
  <2>2. flows[k].last <= flows[k].newest
    BY DEF HeapInv, EntryInv
  <2>3. e \in heap' \/ <<flows[k].last, k>> \in heap'
    <3>1. flows[k].last > cnow - Timeout \/ flows[k].last <= cnow - Timeout
      BY TypeFacts DEF Flow, TypeOK, CollectorsOK
    <3> QED
      BY <2>1, <3>1, ExpiredFacts
  <2> QED
    BY <2>1, <2>2, <2>3
<1>3. OneEntryInv'
  <2> SUFFICES ASSUME cpc[Main] = "idle"
               PROVE  /\ \A e \in heap' : e[2] \in Active'
                      /\ \A e, f \in heap' : e[2] = f[2] => e = f
    BY DEF OneEntryInv, CollectExpired, Flusher, Main, TypeOK, CollectorsOK, Collectors
  <2>1. /\ \A e \in heap : e[2] \in Active
        /\ \A e, f \in heap : e[2] = f[2] => e = f
    BY DEF HeapInv, OneEntryInv
  <2>2. ASSUME NEW e \in heap' PROVE e[2] \in Active \ Expired
    <3>1. CASE e \in heap \ Due(cnow - Timeout)
      BY <1>1, <2>1, <3>1 DEF Expired, Due
    <3>2. CASE e \in Repushed(cnow - Timeout)
      BY <3>2, TypeFacts DEF Expired, Repushed, Flow, TypeOK, CollectorsOK
    <3> QED
      BY <1>1, <3>1, <3>2
  <2>3. ASSUME NEW e \in heap', NEW f \in heap', e[2] = f[2] PROVE e = f
    <3>1. \A g \in Repushed(cnow - Timeout) :
             g = <<flows[g[2]].last, g[2]>> /\ \E d \in Due(cnow - Timeout) : d[2] = g[2]
      BY DEF Repushed
    <3>2. \A g \in heap \ Due(cnow - Timeout) : g \in heap
             /\ ~ \E d \in Due(cnow - Timeout) : d[2] = g[2]
      BY <2>1 DEF Due
    <3> QED
      BY <1>1, <2>1, <2>3, <3>1, <3>2
  <2> QED
    BY <1>1, <2>2, <2>3
<1> QED
  BY <1>2, <1>3 DEF HeapInv

LEMMA AllHeap == ASSUME TypeOK, CollectAll PROVE HeapInv'
<1>1. Active' = {} /\ cpc'[Main] = "take"
  BY AllTable DEF CollectAll, TypeOK, CollectorsOK, Collectors
<1> QED
  BY <1>1 DEF HeapInv, EntryInv, OneEntryInv

LEMMA HeapStep == ASSUME TypeOK, HeapInv, [Next]_vars PROVE HeapInv'
<1>1. ASSUME NEW w \in Workers, WorkerStep(w) PROVE HeapInv' \/ UNCHANGED <<flows, heap, cpc>>
  BY <1>1, KnownHeap, NewHeap DEF WorkerStep, NoteEvidence, collectorVars
<1>2. CASE CollectExpired \/ CollectAll
  BY <1>2, ExpiredHeap, AllHeap
<1>3. CASE Moves
  BY <1>3, MoveFacts DEF HeapInv, EntryInv, OneEntryInv, Active
<1>4. ASSUME NEW c \in Collectors, TakeRecord(c) \/ Score(c)
      PROVE  UNCHANGED <<flows, heap>> /\ (cpc'[Main] = "idle" => cpc[Main] = "idle")
  BY <1>4 DEF TakeRecord, Score, AfterCallback, TypeOK, CollectorsOK, Collectors
<1>5. ASSUME UNCHANGED <<flows, heap>>, cpc'[Main] = "idle" => cpc[Main] = "idle" PROVE HeapInv'
  BY <1>5 DEF HeapInv, EntryInv, OneEntryInv, Active
<1>6. CASE UNCHANGED <<flows, heap, cpc>>
  BY <1>5, <1>6
<1> QED
  BY <1>1, <1>2, <1>3, <1>4, <1>5, <1>6
  DEF Next, FlusherStep, MainStep, Moves, Collectors, Stamp, vars, collectorVars

LEMMA HeapInvariant == Spec => []HeapInv
<1>1. Init => HeapInv
  BY DEF Init, HeapInv, EntryInv, OneEntryInv, Active
<1> QED
  BY <1>1, HeapStep, DispatcherTypes, PTL DEF Spec

(* As long as main has not collected, the heap has exactly one entry for each *)
(* active flow: expiry misses none, and the heap is as bounded as the table.   *)
THEOREM HeapMatchesFlowsHolds == Spec => []HeapMatchesFlows
<1>1. TypeOK /\ HeapInv => HeapMatchesFlows
  <2> SUFFICES ASSUME TypeOK, HeapInv, cpc[Main] = "idle"
               PROVE  /\ {e[2] : e \in heap} = Active
                      /\ Cardinality(heap) = Cardinality(Active)
    BY DEF HeapMatchesFlows
  <2>1. /\ \A e \in heap : e[2] \in Active
        /\ \A e, f \in heap : e[2] = f[2] => e = f
        /\ \A k \in Active : \E e \in heap : e[2] = k
    BY DEF HeapInv, EntryInv, OneEntryInv
  <2>2. {e[2] : e \in heap} = Active
    BY <2>1
  <2> DEFINE flowOf == [e \in heap |-> e[2]]
  <2>3. flowOf \in Bijection(heap, Active)
    <3>1. flowOf \in [heap -> Active]
      BY <2>1
    <3>2. \A e, f \in heap : flowOf[e] = flowOf[f] => e = f
      BY <2>1
    <3>3. \A k \in Active : \E e \in heap : flowOf[e] = k
      BY <2>1
    <3> HIDE DEF flowOf
    <3> QED
      BY <3>1, <3>2, <3>3, Fun_IsBij
  <2>4. flowOf \in Injection(heap, Active) /\ flowOf \in Surjection(heap, Active)
    BY <2>3 DEF Bijection
  <2>5. Cardinality(heap) = Cardinality(Active)
    BY <2>4, ActiveCard, FS_Injection
  <2> QED
    BY <2>2, <2>5
<1> QED
  BY <1>1, DispatcherTypes, HeapInvariant, PTL

(* Nothing hides from the flusher: what it leaves in the table has a packet   *)
(* that is younger than the cutoff, even if timestamps went backwards.         *)
THEOREM ExpiredAreCollectedHolds == Spec => ExpiredAreCollected
<1> DEFINE A == (cpc[Flusher] = "collect" /\ cpc'[Flusher] = "take") =>
                   \A k \in DOMAIN flows' : flows'[k].newest > cnow - Timeout
<1>1. TypeOK /\ HeapInv /\ [Next]_vars => [A]_vars
  <2> SUFFICES ASSUME TypeOK, HeapInv, Next, cpc[Flusher] = "collect", cpc'[Flusher] = "take"
               PROVE  \A k \in DOMAIN flows' : flows'[k].newest > cnow - Timeout
    OBVIOUS
  <2>1. CollectExpired
    <3>1. cpc \in [Collectors -> {"idle", "collect", "take", "score", "ended"}] /\ Flusher # Main
      BY DEF TypeOK, CollectorsOK, Flusher, Main
    <3>2. ASSUME NEW w \in Workers, Stamp(w) \/ WorkerStep(w) PROVE cpc' = cpc
      BY <3>2 DEF Stamp, WorkerStep, TrackKnown, TrackNew, TrackEvicting, NoteEvidence, collectorVars
    <3>3. CASE MainStep
      BY <3>1, <3>3
      DEF MainStep, CollectAll, TakeRecord, Score, MainDone, AfterCallback, Collectors
    <3>4. CASE BeginShutdown \/ Tick
      BY <3>4 DEF BeginShutdown, Tick, collectorVars
    <3>5. CASE FlusherStep
      BY <3>1, <3>5 DEF FlusherStep, Wake, TakeRecord, Score, FlusherDone, Collectors
    <3> QED
      BY <3>2, <3>3, <3>4, <3>5 DEF Next
  <2>2. /\ Active' = Active \ Expired /\ \A k \in Active \ Expired : flows'[k] = flows[k]
    BY <2>1, ExpiredTable DEF Leaves
  <2> SUFFICES ASSUME NEW k \in Active \ Expired PROVE flows[k].newest > cnow - Timeout
    BY <2>2 DEF Active
  <2>3. PICK e \in heap : e[2] = k /\ e[1] <= flows[k].newest
    BY DEF HeapInv, EntryInv
  <2>4. flows[k].last <= flows[k].newest
    BY DEF HeapInv, EntryInv
  <2>5. flows[k].last > cnow - Timeout \/ e[1] > cnow - Timeout
    <3>1. flows[k].last > cnow - Timeout \/ flows[k].last <= cnow - Timeout
      BY TypeFacts DEF Flow, TypeOK, CollectorsOK
    <3> QED
      BY <2>1, <2>3, <3>1, ExpiredFacts
  <2>6. /\ flows[k].last \in Nat /\ flows[k].newest \in Nat /\ e[1] \in Nat
        /\ cnow - Timeout \in Int
    <3>1. flows[k] \in Flow /\ now \in Nat /\ Timeout \in Nat
      BY TypeFacts
    <3>2. flows[k].last \in Nat /\ flows[k].newest \in Nat
      BY <3>1 DEF Flow
    <3>3. heap \subseteq (0..now) \X Keys /\ cnow \in 0..now
      BY DEF TypeOK, TableOK, CollectorsOK
    <3>4. e[1] \in Nat
      BY <2>3, <3>1, <3>3
    <3> QED
      BY <3>1, <3>2, <3>3, <3>4
  <2> QED
    BY <2>3, <2>4, <2>5, <2>6
<1> QED
  BY <1>1, DispatcherTypes, HeapInvariant, PTL DEF Spec, ExpiredAreCollected

-----------------------------------------------------------------------------
(* No flow is scored twice.                                                *)

(* Every number in use is that of a flow that was created. *)
LEMMA IdsBorn ==
    ASSUME TypeOK
    PROVE  /\ \A k \in Active : flows[k].flow \in 1..born
           /\ \A c \in Collectors : \A r \in clist[c] : r.flow \in 1..born
           /\ \A c \in Collectors : InHand(c) => crec[c].flow \in 1..born
           /\ \A i \in DOMAIN scored : scored[i].flow \in 1..born
<1> DEFINE Scored == [key : Keys, flow : 1..born, evidence : SUBSET Found]
<1>1. \A i \in DOMAIN scored : scored[i] \in Scored
  <2>1. scored \in Seq(Scored)
    BY DEF TypeOK, CollectorsOK
  <2> HIDE DEF Scored
  <2> QED
    BY <2>1, LenProperties, ElementOfSeq
<1> QED
  BY <1>1, TypeFacts DEF Flow, TypeOK, CollectorsOK, InHand

LEMMA KnownIds == ASSUME TypeOK, IdsInv, NEW w \in Workers, TrackKnown(w) PROVE IdsInv'
<1>1. Active' = Active /\ \A k \in Active : flows'[k].flow = flows[k].flow
  <2>1. PICK k \in Active :
           /\ Active' = Active
           /\ \A j \in Active : j # k => flows'[j] = flows[j]
           /\ flows'[k] = AddPacket(flows[k], wpkt[w].ts)
    BY KnownTable
  <2>2. flows'[k].flow = flows[k].flow
    BY <2>1, TypeFacts DEF AddPacket, Flow
  <2> QED
    BY <2>1, <2>2
<1>2. UNCHANGED <<cpc, clist, crec, scored>>
  BY DEF TrackKnown, collectorVars
<1> QED
  BY <1>1, <1>2 DEF IdsInv, TableIds, ListIds, HandIds, InHand, NoFlowTwice

LEMMA NewIds ==
    ASSUME TypeOK, IdsInv, NEW w \in Workers, TrackNew(w) \/ TrackEvicting(w)
    PROVE  IdsInv'
<1>1. PICK S \in SUBSET Active : Begins(w, S)
  BY NewTable
<1> DEFINE p == wpkt[w]
<1>2. /\ Active' = S \cup {p.key} /\ p.key \notin S
      /\ \A k \in S : flows'[k] = flows[k]
      /\ flows'[p.key].flow = born + 1
  BY <1>1 DEF Begins, IsNew, NewFlow
<1>3. UNCHANGED <<cpc, clist, crec, scored>>
  BY DEF TrackNew, TrackEvicting, collectorVars
<1>4. \A f \in 1..born : f # born + 1
  BY TypeFacts
<1> HIDE DEF p
<1>5. TableIds'
  BY <1>2, <1>3, <1>4, IdsBorn DEF IdsInv, TableIds
<1>6. ListIds'
  BY <1>2, <1>3, <1>4, IdsBorn DEF IdsInv, ListIds, InHand
<1>7. HandIds'
  BY <1>2, <1>3, <1>4, IdsBorn DEF IdsInv, HandIds, InHand
<1> QED
  BY <1>3, <1>5, <1>6, <1>7 DEF IdsInv, NoFlowTwice

(* The flows of X leave the table for the list of c. *)
LEMMA CollectIds ==
    ASSUME TypeOK, IdsInv, NEW X \in SUBSET Active, Leaves(X), NEW c \in Collectors,
           clist' = [clist EXCEPT ![c] = Records(X)], ~InHand(c),
           cpc' = [cpc EXCEPT ![c] = "take"], UNCHANGED <<crec, scored>>
    PROVE  IdsInv'
<1>1. Active' = Active \ X /\ \A k \in Active \ X : flows'[k] = flows[k]
  BY DEF Leaves
<1>2. \A r \in Records(X) : \E k \in X : r = [key |-> k, flow |-> flows[k].flow]
  BY DEF Records
<1>3. clist'[c] = Records(X) /\ \A d \in Collectors : d # c => clist'[d] = clist[d]
  BY DEF TypeOK, CollectorsOK
<1>4. \A d \in Collectors : InHand(d)' <=> InHand(d)
  BY DEF TypeOK, CollectorsOK, InHand
<1>5. TableIds'
  BY <1>1 DEF IdsInv, TableIds
<1>6. HandIds'
  BY <1>1, <1>4 DEF IdsInv, HandIds
<1>7. ListIds'
  <2>1. ASSUME NEW r \in Records(X)
        PROVE  /\ \A s \in Records(X) : s.flow = r.flow => s = r
               /\ \A k \in Active' : flows'[k].flow # r.flow
               /\ \A d \in Collectors : d # c => \A s \in clist[d] : s.flow # r.flow
               /\ \A d \in Collectors : InHand(d) => crec[d].flow # r.flow
               /\ \A i \in DOMAIN scored : scored[i].flow # r.flow
    <3>1. PICK k \in X : r = [key |-> k, flow |-> flows[k].flow]
      BY <1>2
    <3>2. \A j \in Active : flows[j].flow = flows[k].flow => j = k
      BY DEF IdsInv, TableIds
    <3>3. r.flow = flows[k].flow
      BY <3>1
    <3> QED
      BY <1>1, <1>2, <3>1, <3>2, <3>3 DEF IdsInv, TableIds, ListIds, HandIds
  <2>2. ASSUME NEW d \in Collectors, d # c, NEW r \in clist[d]
        PROVE  /\ \A s \in clist[d] : s.flow = r.flow => s = r
               /\ \A k \in Active' : flows'[k].flow # r.flow
               /\ \A s \in Records(X) : s.flow # r.flow
               /\ \A e \in Collectors : e # d => \A s \in clist[e] : s.flow # r.flow
               /\ \A e \in Collectors : InHand(e) => crec[e].flow # r.flow
               /\ \A i \in DOMAIN scored : scored[i].flow # r.flow
    BY <1>1, <1>2, <2>2 DEF IdsInv, ListIds
  <2> QED
    BY <1>3, <1>4, <2>1, <2>2 DEF ListIds
<1> QED
  BY <1>5, <1>6, <1>7 DEF IdsInv, NoFlowTwice

LEMMA TakeIds == ASSUME TypeOK, IdsInv, NEW c \in Collectors, TakeRecord(c) PROVE IdsInv'
<1>1. PICK r \in clist[c] :
         /\ crec' = [crec EXCEPT ![c] = [key |-> r.key, flow |-> r.flow, payload |-> Held("payload", r.key)]]
         /\ clist' = [clist EXCEPT ![c] = @ \ {r}]
  BY DEF TakeRecord
<1>2. cpc[c] = "take" /\ cpc' = [cpc EXCEPT ![c] = "score"] /\ UNCHANGED <<flows, scored>>
  BY DEF TakeRecord
<1>3. /\ clist'[c] = clist[c] \ {r} /\ crec'[c].flow = r.flow /\ InHand(c)' /\ ~InHand(c)
      /\ \A d \in Collectors : d # c =>
            clist'[d] = clist[d] /\ crec'[d] = crec[d] /\ (InHand(d)' <=> InHand(d))
  BY <1>1, <1>2 DEF TypeOK, CollectorsOK, InHand
<1>4. Active' = Active
  BY <1>2 DEF Active
<1>5. TableIds' /\ NoFlowTwice'
  BY <1>2, <1>4 DEF IdsInv, TableIds, NoFlowTwice
<1>6. ListIds'
  BY <1>2, <1>3, <1>4 DEF IdsInv, ListIds
<1>7. HandIds'
  BY <1>2, <1>3, <1>4 DEF IdsInv, ListIds, HandIds
<1> QED
  BY <1>5, <1>6, <1>7 DEF IdsInv

LEMMA ScoreIds == ASSUME TypeOK, IdsInv, NEW c \in Collectors, Score(c) PROVE IdsInv'
<1> DEFINE r == crec[c]
           new == [key |-> r.key, flow |-> r.flow, evidence |-> r.payload \cup Held("ja3", r.key)]
           Scored == [key : Keys, flow : 1..born, evidence : SUBSET Found]
<1>1. /\ cpc[c] = "score" /\ cpc' = [cpc EXCEPT ![c] = "take"] /\ "ja3" \in Kinds
      /\ scored' = Append(scored, new) /\ crec' = [crec EXCEPT ![c] = NoRecord]
      /\ UNCHANGED <<flows, clist>>
  BY DEF Score, AfterCallback, Kinds
<1>2. new \in Scored /\ scored \in Seq(Scored) /\ new.flow = crec[c].flow
  BY <1>1, HeldFacts DEF TypeOK, CollectorsOK
<1> HIDE DEF new
<1>3. Len(scored) \in Nat /\ DOMAIN scored = 1..Len(scored)
  BY <1>2, LenProperties
<1>4. /\ DOMAIN scored' = 1..(Len(scored) + 1)
      /\ \A i \in DOMAIN scored : scored'[i] = scored[i]
      /\ scored'[Len(scored) + 1] = new
  <2>1. /\ Append(scored, new) \in Seq(Scored) /\ Len(Append(scored, new)) = Len(scored) + 1
        /\ \A i \in 1..Len(scored) : Append(scored, new)[i] = scored[i]
        /\ Append(scored, new)[Len(scored) + 1] = new
    BY <1>2, AppendProperties
  <2> QED
    BY <1>1, <1>3, <2>1, LenProperties
<1>5. \A i \in DOMAIN scored' : (i \in DOMAIN scored /\ scored'[i] = scored[i])
                              \/ (i = Len(scored) + 1 /\ scored'[i] = new)
  BY <1>3, <1>4
<1>6. /\ InHand(c) /\ ~InHand(c)'
      /\ \A d \in Collectors : d # c => crec'[d] = crec[d] /\ (InHand(d)' <=> InHand(d))
  BY <1>1 DEF TypeOK, CollectorsOK, InHand
<1>7. Active' = Active /\ flows' = flows /\ clist' = clist
  BY <1>1 DEF Active
<1>8. TableIds'
  BY <1>2, <1>5, <1>6, <1>7 DEF IdsInv, TableIds, HandIds
<1>9. ListIds'
  BY <1>2, <1>5, <1>6, <1>7 DEF IdsInv, ListIds
<1>10. HandIds'
  BY <1>2, <1>5, <1>6, <1>7 DEF IdsInv, HandIds
<1>11. NoFlowTwice'
  BY <1>2, <1>5, <1>6 DEF IdsInv, HandIds, NoFlowTwice
<1> QED
  BY <1>8, <1>9, <1>10, <1>11 DEF IdsInv

LEMMA IdsStep == ASSUME TypeOK, IdsInv, [Next]_vars PROVE IdsInv'
<1>1. ASSUME UNCHANGED <<flows, clist, crec, scored>>, \A c \in Collectors : InHand(c)' <=> InHand(c)
      PROVE  IdsInv'
  BY <1>1 DEF IdsInv, TableIds, ListIds, HandIds, NoFlowTwice, Active
<1>2. ASSUME NEW w \in Workers, WorkerStep(w) PROVE IdsInv'
  BY <1>1, <1>2, KnownIds, NewIds DEF WorkerStep, NoteEvidence, collectorVars, InHand
<1>3. CASE CollectExpired
  BY <1>3, ExpiredTable, CollectIds DEF CollectExpired, InHand, Collectors
<1>4. CASE CollectAll
  BY <1>4, AllTable, CollectIds DEF CollectAll, InHand, Collectors
<1>5. ASSUME NEW c \in Collectors, TakeRecord(c) \/ Score(c) PROVE IdsInv'
  BY <1>5, TakeIds, ScoreIds
<1>6. CASE Moves
  BY <1>1, <1>6, MoveFacts DEF InHand
<1>7. CASE UNCHANGED vars \/ \E w \in Workers : Stamp(w)
  BY <1>1, <1>7 DEF vars, Stamp, collectorVars, InHand
<1> QED
  BY <1>2, <1>3, <1>4, <1>5, <1>6, <1>7 DEF Next, FlusherStep, MainStep, Moves, Collectors

(* A flow reaches the callback at most once, with flusher and main both        *)
(* collecting and every table slot reused.                                     *)
THEOREM NoFlowTwiceHolds == Spec => []NoFlowTwice
<1>1. Init => IdsInv
  BY DEF Init, IdsInv, TableIds, ListIds, HandIds, NoFlowTwice, Active, InHand
<1>2. IdsInv => NoFlowTwice
  BY DEF IdsInv
<1> QED
  BY <1>1, <1>2, IdsStep, DispatcherTypes, PTL DEF Spec

-----------------------------------------------------------------------------
(* Evidence of the same five-tuple.                                        *)

LEMMA NoteEvidenceInv ==
    ASSUME TypeOK, EvidenceInv, NEW w \in Workers, NoteEvidence(w)
    PROVE  EvidenceInv'
<1> DEFINE d == IF "ja3" \in wpkt[w].kinds THEN "ja3" ELSE "payload"
<1>1. /\ d \in Kinds /\ wpc[w] = "evidence" /\ hits' = [hits EXCEPT ![d] = Written(d, wref[w])]
      /\ UNCHANGED <<cpc, crec, scored>>
  BY DEF NoteEvidence, Kinds, collectorVars
<1> HIDE DEF d
<1>2. wref[w].key \in Keys /\ wref[w].flow \in 1..born
  BY <1>1 DEF TypeOK, WorkersOK
<1>3. /\ hits'[d] = Written(d, wref[w]) /\ \A e \in Kinds : e # d => hits'[e] = hits[e]
  BY <1>1 DEF TypeOK, EvidenceOK
<1>4. \A f \in NewItem(d, wref[w]).from : f.key = NewItem(d, wref[w]).key
  BY <1>1, HeldFacts DEF NewItem, HitKey, EvidenceInv
<1>5. \A i \in DOMAIN hits'[d] : \A f \in hits'[d][i].from : f.key = hits'[d][i].key
  <2>1. \A i \in DOMAIN Written(d, wref[w]) :
           \/ Written(d, wref[w])[i] = NewItem(d, wref[w])
           \/ \E j \in DOMAIN hits[d] : Written(d, wref[w])[i] = hits[d][j]
    BY <1>1, <1>2, WrittenFacts
  <2> QED
    BY <1>1, <1>3, <1>4, <2>1 DEF EvidenceInv, KeptEvidenceInv
<1> QED
  BY <1>1, <1>3, <1>5 DEF EvidenceInv, KeptEvidenceInv, EvidenceOfSameTuple, InHand

(* An entry is popped. *)
LEMMA PoppedEvidence ==
    ASSUME TypeOK, KeptEvidenceInv, NEW d \in Kinds, NEW k, hits' = [hits EXCEPT ![d] = Without(d, k)]
    PROVE  \A e \in Kinds : \A i \in DOMAIN hits'[e] : \A f \in hits'[e][i].from : f.key = hits'[e][i].key
<1>1. hits'[d] = Without(d, k) /\ \A e \in Kinds : e # d => hits'[e] = hits[e]
  BY DEF TypeOK, EvidenceOK
<1>2. \A i \in DOMAIN Without(d, k) : \E j \in DOMAIN hits[d] : Without(d, k)[i] = hits[d][j]
  BY WithoutFacts
<1> QED
  BY <1>1, <1>2 DEF KeptEvidenceInv

LEMMA TakeEvidence ==
    ASSUME TypeOK, EvidenceInv, NEW c \in Collectors, TakeRecord(c)
    PROVE  EvidenceInv'
<1>1. PICK r \in clist[c] :
         /\ crec' = [crec EXCEPT ![c] = [key |-> r.key, flow |-> r.flow, payload |-> Held("payload", r.key)]]
         /\ hits' = [hits EXCEPT !["payload"] = Without("payload", r.key)]
  BY DEF TakeRecord
<1>2. "payload" \in Kinds /\ cpc' = [cpc EXCEPT ![c] = "score"] /\ UNCHANGED scored
  BY DEF TakeRecord, Kinds
<1>3. /\ \A f \in crec'[c].payload : f.key = crec'[c].key
      /\ \A d \in Collectors : d # c => crec'[d] = crec[d] /\ (InHand(d)' <=> InHand(d))
  BY <1>1, <1>2, HeldFacts DEF TypeOK, CollectorsOK, EvidenceInv, InHand
<1>4. \A e \in Kinds : \A i \in DOMAIN hits'[e] : \A f \in hits'[e][i].from : f.key = hits'[e][i].key
  BY <1>1, <1>2, PoppedEvidence DEF EvidenceInv
<1> QED
  BY <1>2, <1>3, <1>4 DEF EvidenceInv, KeptEvidenceInv, EvidenceOfSameTuple

LEMMA ScoreEvidence ==
    ASSUME TypeOK, EvidenceInv, NEW c \in Collectors, Score(c)
    PROVE  EvidenceInv'
<1> DEFINE r == crec[c]
           new == [key |-> r.key, flow |-> r.flow, evidence |-> r.payload \cup Held("ja3", r.key)]
           Scored == [key : Keys, flow : 1..born, evidence : SUBSET Found]
<1>1. /\ cpc[c] = "score" /\ cpc' = [cpc EXCEPT ![c] = "take"] /\ "ja3" \in Kinds
      /\ hits' = [hits EXCEPT !["ja3"] = Without("ja3", r.key)]
      /\ scored' = Append(scored, new) /\ crec' = [crec EXCEPT ![c] = NoRecord]
  BY DEF Score, AfterCallback, Kinds
<1>2. /\ new \in Scored /\ scored \in Seq(Scored)
      /\ \A f \in new.evidence : f.key = new.key
  BY <1>1, HeldFacts DEF TypeOK, CollectorsOK, EvidenceInv, KeptEvidenceInv, InHand
<1> HIDE DEF new
<1>3. EvidenceOfSameTuple'
  <2>1. /\ Append(scored, new) \in Seq(Scored) /\ Len(Append(scored, new)) = Len(scored) + 1
        /\ \A i \in 1..Len(scored) : Append(scored, new)[i] = scored[i]
        /\ Append(scored, new)[Len(scored) + 1] = new
    BY <1>2, AppendProperties
  <2>2. /\ Len(scored) \in Nat /\ DOMAIN scored = 1..Len(scored)
        /\ DOMAIN scored' = 1..(Len(scored) + 1)
    BY <1>1, <1>2, <2>1, LenProperties
  <2>3. \A i \in DOMAIN scored' : (i \in DOMAIN scored /\ scored'[i] = scored[i]) \/ scored'[i] = new
    BY <1>1, <2>1, <2>2
  <2> QED
    BY <1>2, <2>3 DEF EvidenceInv, EvidenceOfSameTuple
<1>4. \A e \in Kinds : \A i \in DOMAIN hits'[e] : \A f \in hits'[e][i].from : f.key = hits'[e][i].key
  BY <1>1, PoppedEvidence DEF EvidenceInv
<1>5. ~InHand(c)' /\ \A d \in Collectors : d # c => crec'[d] = crec[d] /\ (InHand(d)' <=> InHand(d))
  BY <1>1 DEF TypeOK, CollectorsOK, InHand
<1> QED
  BY <1>3, <1>4, <1>5 DEF EvidenceInv, KeptEvidenceInv

LEMMA EvidenceStep == ASSUME TypeOK, EvidenceInv, [Next]_vars PROVE EvidenceInv'
<1>1. ASSUME UNCHANGED <<hits, crec, scored>>, \A c \in Collectors : InHand(c)' => InHand(c)
      PROVE  EvidenceInv'
  BY <1>1 DEF EvidenceInv, KeptEvidenceInv, EvidenceOfSameTuple
<1>2. ASSUME NEW w \in Workers, WorkerStep(w) PROVE EvidenceInv'
  <2>1. CASE NoteEvidence(w)
    BY <2>1, NoteEvidenceInv
  <2>2. CASE TrackKnown(w) \/ TrackNew(w) \/ TrackEvicting(w)
    BY <1>1, <2>2 DEF TrackKnown, TrackNew, TrackEvicting, collectorVars, InHand
  <2> QED
    BY <1>2, <2>1, <2>2 DEF WorkerStep
<1>3. CASE CollectExpired \/ CollectAll
  BY <1>1, <1>3 DEF CollectExpired, CollectAll, InHand, TypeOK, CollectorsOK
<1>4. ASSUME NEW c \in Collectors, TakeRecord(c) \/ Score(c) PROVE EvidenceInv'
  BY <1>4, TakeEvidence, ScoreEvidence
<1>5. CASE Moves
  BY <1>1, <1>5, MoveFacts DEF InHand
<1>6. CASE UNCHANGED vars \/ \E w \in Workers : Stamp(w)
  BY <1>1, <1>6 DEF vars, Stamp, collectorVars, InHand
<1> QED
  BY <1>2, <1>3, <1>4, <1>5, <1>6 DEF Next, FlusherStep, MainStep, Moves, Collectors

(* Whatever dictionaries drop, and in whatever order workers write and the    *)
(* collectors pop, a flow is only scored with evidence of its own five-tuple.  *)
THEOREM EvidenceOfSameTupleHolds == Spec => []EvidenceOfSameTuple
<1>1. Init => EvidenceInv
  BY DEF Init, EvidenceInv, KeptEvidenceInv, EvidenceOfSameTuple, InHand, Kinds
<1>2. EvidenceInv => EvidenceOfSameTuple
  BY DEF EvidenceInv
<1> QED
  BY <1>1, <1>2, EvidenceStep, DispatcherTypes, PTL DEF Spec
=============================================================================
