---------------------------- MODULE HostBuffers -----------------------------
(***************************************************************************)
(* The ring buffers of host vectors, one per address, that the LSTM        *)
(* engines score (src/src/engines/baseline_engine.py, lstm_autoencoder.py),*)
(* and the sequences that the trainer cuts out of the same vectors         *)
(* (src/src/unsupervised/window_trainer.py).  A vector is its number.      *)
(***************************************************************************)
EXTENDS Integers, Sequences, SequencesExt, FiniteSets

CONSTANTS
    ModelHosts,    \* source addresses
    SeqLen,        \* BASELINE_SEQ_LEN, sequence_length
    MaxBuffers,    \* MAX_TRACKED_IPS
    TrainPercent,  \* 1 - val_fraction
    MaxVectors     \* bound: vectors observed

VARIABLES
    buffers,    \* _buffers
    bufOrder,   \* the keys of _buffers in the order they were inserted
    hostRows,       \* the window collected so far: host, vector, ts
    since,      \* the row a host's buffer begins after (history)
    training    \* the sequences of the last window that was fitted: <<train, validate>>

bufferVars == <<buffers, bufOrder, hostRows, since, training>>

Init ==
    /\ buffers = [h \in ModelHosts |-> <<>>] /\ bufOrder = <<>>
    /\ hostRows = <<>> /\ since = [h \in ModelHosts |-> 0] /\ training = <<{}, {}>>

-----------------------------------------------------------------------------
(* update: the buffer of a new address may cost another one its buffer.      *)

Shortest(order) ==
    CHOOSE i \in DOMAIN order :
        /\ \A j \in DOMAIN order : Len(buffers[order[i]]) <= Len(buffers[order[j]])
        /\ \A j \in 1..(i - 1) : Len(buffers[order[j]]) > Len(buffers[order[i]])

Victims(h) ==
    IF h \notin ToSet(bufOrder) /\ Len(bufOrder) >= MaxBuffers
    THEN {bufOrder[Shortest(bufOrder)]} ELSE {}

Ring(vs) == IF Len(vs) > SeqLen THEN Tail(vs) ELSE vs

Update(h) ==
    LET v == Len(hostRows) + 1
        gone == Victims(h)
        kept == IF gone = {} THEN bufOrder ELSE RemoveAt(bufOrder, Shortest(bufOrder))
    IN  /\ v <= MaxVectors
        /\ buffers' = [x \in ModelHosts |-> IF x = h THEN Ring(Append(buffers[h], v))
                                            ELSE IF x \in gone THEN <<>> ELSE buffers[x]]
        /\ bufOrder' = IF h \in ToSet(kept) THEN kept ELSE Append(kept, h)
        /\ hostRows' = Append(hostRows, [host |-> h, vector |-> v, ts |-> v])
        /\ since' = [x \in ModelHosts |-> IF x \in gone THEN v ELSE since[x]]
        /\ UNCHANGED training

-----------------------------------------------------------------------------
(* The trainer's view of the same vectors.                                   *)

(* _to_sequences: every run of n consecutive rows. *)
Sliding(vs, n) == {SubSeq(vs, i, i + n - 1) : i \in 1..(Len(vs) - n + 1)}

(* _to_host_sequences: each host's own rows are cut. *)
RowsOf(rs, h) ==
    LET own == SelectSeq(rs, LAMBDA r : r.host = h) IN [i \in DOMAIN own |-> own[i].vector]
HostSequences(rs, n) == UNION {Sliding(RowsOf(rs, h), n) : h \in {r.host : r \in ToSet(rs)}}

(* _temporal_split: the oldest rows train, the newest validate. *)
Split(rs) ==
    LET byTime == SortSeq(rs, LAMBDA a, b : a.ts < b.ts)
        cut    == (Len(rs) * TrainPercent) \div 100
    IN  <<SubSeq(byTime, 1, cut), SubSeq(byTime, cut + 1, Len(rs))>>

(* fit_models: no model from a window that gives no sequence on one side;  *)
(* of the fitted models only the sequences they see are kept.              *)
Fit ==
    LET halves == Split(hostRows)
        cuts   == [i \in 1..2 |-> HostSequences(halves[i], SeqLen)]
    IN  /\ cuts[1] # {} /\ cuts[2] # {}
        /\ training' = cuts
        /\ UNCHANGED <<buffers, bufOrder, hostRows, since>>

Next == (\E h \in ModelHosts : Update(h)) \/ Fit

Spec == Init /\ [][Next]_bufferVars

-----------------------------------------------------------------------------

(***************************************************************************)
(* What the LSTM is asked about is what it is trained on: a full buffer is *)
(* one of the sequences the trainer would cut from the same rows, the last *)
(* one of its address.  A window that is fitted validates on vectors it    *)
(* has not trained on, and trains on no sequence that mixes addresses.     *)
(***************************************************************************)
HostOf(v) == hostRows[v].host
BuffersAreSequences ==
    /\ \A h \in ModelHosts : Len(buffers[h]) = SeqLen =>
         /\ buffers[h] \in HostSequences(SubSeq(hostRows, since[h] + 1, Len(hostRows)), SeqLen)
         /\ Last(buffers[h]) = Last(RowsOf(hostRows, h))
    /\ \A q \in training[1] \cup training[2], i, j \in 1..SeqLen : HostOf(q[i]) = HostOf(q[j])
    /\ \A q \in training[1], u \in training[2] : q[SeqLen] < u[1]

(***************************************************************************)
(* A newcomer never costs an address its full buffer, and with it its      *)
(* temporal score, while some other buffer is not full.                    *)
(***************************************************************************)
FullBuffersStay ==
    [][\A h \in ModelHosts : Len(buffers[h]) = SeqLen /\ buffers'[h] = <<>> =>
          \A x \in ToSet(bufOrder) : Len(buffers[x]) = SeqLen]_bufferVars
=============================================================================
