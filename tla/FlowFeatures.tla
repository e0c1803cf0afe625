---------------------------- MODULE FlowFeatures ----------------------------
(***************************************************************************)
(* What a flow record accumulates packet by packet, and the features it    *)
(* gives (FlowRecord in src/src/features/flow_extractor.py).  Times and    *)
(* lengths are small numbers; a mean or a rate is a pair <<sum, count>>,   *)
(* deviations are left out.  A timestamp is taken before the extractor's   *)
(* lock, so that it may be a little older than the record's last one.      *)
(***************************************************************************)
EXTENDS Integers, Sequences, SequencesExt, FiniteSets, FiniteSetsExt

CONSTANTS
    FlowPackets,     \* packets: forward, size, header, flags, win, payload
    Gaps,            \* by how much a timestamp differs from the one before
    IdleThreshold,   \* ACTIVE_IDLE_THRESH
    MaxSamples,      \* MAX_PAYLOAD_SAMPLES
    MaxFlowPackets   \* bound: packets of the flow

Flags == {"fin", "syn", "rst", "psh", "ack", "urg", "cwe", "ece"}
Tiny == 0   \* stands for the 1e-6 s that replaces a duration of zero or less

VARIABLES
    flowRec,   \* the FlowRecord
    seenPkts   \* its packets with their times (history)

flowVars == <<flowRec, seenPkts>>

NoDirection == [lengths |-> <<>>, times |-> <<>>, header |-> 0, psh |-> 0, urg |-> 0, win |-> -1,
                bulks |-> <<>>, cur |-> [bytes |-> 0, pkts |-> 0]]

Init ==
    /\ seenPkts = <<>>
    /\ flowRec = [start |-> 0, last |-> 0, activeStart |-> 0, active |-> <<>>, idle |-> <<>>,
                  fwd |-> NoDirection, bwd |-> NoDirection,
                  count |-> [f \in Flags |-> 0], dataPkts |-> 0, samples |-> 0]

-----------------------------------------------------------------------------

(* How long the active period lasted that a gap has just ended. *)
Closing(r, ts) == r.last - r.activeStart

Periods(r, ts) ==
    LET gap == ts - r.last
    IN  IF r.start = 0 THEN [r EXCEPT !.start = ts, !.activeStart = ts]
        ELSE IF gap > IdleThreshold
        THEN [r EXCEPT !.active = IF Closing(r, ts) > 0 THEN Append(@, Closing(r, ts)) ELSE @,
                       !.idle = Append(@, gap), !.activeStart = ts]
        ELSE r

(* A bulk is two packets of one direction or more, without an idle gap between them. *)
IsBulk(b) == b.pkts > 1
EndsBulk(d, ts) == d.times # <<>> /\ ts - Last(d.times) > IdleThreshold
Tracked(d, ts, size) ==
    LET cur == IF EndsBulk(d, ts) THEN [bytes |-> 0, pkts |-> 0] ELSE d.cur
    IN  [d EXCEPT !.bulks = IF EndsBulk(d, ts) /\ IsBulk(d.cur) THEN Append(@, d.cur) ELSE @,
                  !.cur = [bytes |-> cur.bytes + size, pkts |-> cur.pkts + 1]]

Directed(d, p, ts) ==
    [Tracked(d, ts, p.size) EXCEPT
        !.lengths = Append(@, p.size), !.times = Append(@, ts), !.header = @ + p.header,
        !.psh = @ + (IF "psh" \in p.flags THEN 1 ELSE 0),
        !.urg = @ + (IF "urg" \in p.flags THEN 1 ELSE 0),
        !.win = IF @ < 0 THEN p.win ELSE @]

(* add_packet; the payload is what is left without the frame's padding. *)
AddPacket(p, ts) ==
    LET r == [Periods(flowRec, ts) EXCEPT !.last = ts,
                  !.count = [f \in Flags |-> @[f] + (IF f \in p.flags THEN 1 ELSE 0)]]
        data == p.forward /\ p.payload
    IN  /\ flowRec' = [r EXCEPT
              !.fwd = IF p.forward THEN Directed(@, p, ts) ELSE @,
              !.bwd = IF p.forward THEN @ ELSE Directed(@, p, ts),
              !.dataPkts = IF data THEN @ + 1 ELSE @,
              !.samples = IF data /\ @ < MaxSamples THEN @ + 1 ELSE @]
        /\ seenPkts' = Append(seenPkts, [pkt |-> p, at |-> ts])

(* The first packet of a flow is a forward one: it names the initiator. *)
PacketNext ==
    /\ Len(seenPkts) < MaxFlowPackets
    /\ \E p \in FlowPackets, g \in Gaps :
         LET ts == IF seenPkts = <<>> THEN 10 ELSE Last(seenPkts).at + g
         IN  (seenPkts = <<>> => p.forward) /\ AddPacket(p, ts)

Next == PacketNext
Spec == Init /\ [][Next]_flowVars

-----------------------------------------------------------------------------
(* to_feature_vector *)

Sum(s) == FoldSeq(LAMBDA x, acc : x + acc, 0, s)
Diffs(ts) == [i \in 1..(Len(ts) - 1) |-> ts[i + 1] - ts[i]]
Sorted(ts) == SortSeq(ts, LAMBDA a, b : a < b)
Stats(vals) == IF vals = <<>> THEN [max |-> 0, min |-> 0, mean |-> <<0, 1>>]
               ELSE [max |-> Max(ToSet(vals)), min |-> Min(ToSet(vals)), mean |-> <<Sum(vals), Len(vals)>>]

Duration == IF flowRec.last > flowRec.start THEN flowRec.last - flowRec.start ELSE Tiny

(* The current active period and the current bulk are closed in a copy. *)
ActivePeriods ==
    LET rest == flowRec.last - flowRec.activeStart
    IN  IF rest > 0 THEN Append(flowRec.active, rest) ELSE flowRec.active
Bulks(d) == IF IsBulk(d.cur) THEN Append(d.bulks, d.cur) ELSE d.bulks
BulkBytes(d) == <<Sum([i \in DOMAIN Bulks(d) |-> Bulks(d)[i].bytes]), Len(Bulks(d))>>
BulkPkts(d) == <<Sum([i \in DOMAIN Bulks(d) |-> Bulks(d)[i].pkts]), Len(Bulks(d))>>
Window(d) == IF d.win > 0 THEN d.win ELSE 0

DirectionFeatures(d) ==
    [pkts |-> Len(d.lengths), bytes |-> Sum(d.lengths), lengths |-> Stats(d.lengths),
     iat |-> Stats(Diffs(d.times)), iatTotal |-> Sum(Diffs(d.times)),
     rate |-> <<Len(d.lengths), Duration>>, psh |-> d.psh, urg |-> d.urg, header |-> d.header,
     bulkBytes |-> BulkBytes(d), bulkPkts |-> BulkPkts(d), bulkRate |-> <<Len(Bulks(d)), Duration>>,
     win |-> Window(d)]

NoFeatures == <<>>
FeatureVector ==
    LET all   == flowRec.fwd.lengths \o flowRec.bwd.lengths
        times == Sorted(flowRec.fwd.times \o flowRec.bwd.times)
    IN  IF Len(all) < 2 THEN NoFeatures
        ELSE [duration |-> Duration, fwd |-> DirectionFeatures(flowRec.fwd),
              bwd |-> DirectionFeatures(flowRec.bwd), lengths |-> Stats(all),
              iat |-> Stats(Diffs(times)), byteRate |-> <<Sum(all), Duration>>,
              count |-> flowRec.count, downUp |-> <<Len(flowRec.bwd.lengths), Len(flowRec.fwd.lengths)>>,
              dataPkts |-> flowRec.dataPkts, active |-> Stats(ActivePeriods), idle |-> Stats(flowRec.idle)]

-----------------------------------------------------------------------------

Times == [i \in DOMAIN seenPkts |-> seenPkts[i].at]
InOrder == \A i \in 2..Len(seenPkts) : Times[i - 1] <= Times[i]
Of(forward) == SelectSeq(seenPkts, LAMBDA s : s.pkt.forward = forward)

(* Where a run of packets of one direction starts: at the first, and after an idle gap. *)
RunStarts(ps) == {i \in DOMAIN ps : i = 1 \/ ps[i].at - ps[i - 1].at > IdleThreshold}
RunEnd(ps, i) == Min({j - 1 : j \in {k \in RunStarts(ps) : k > i}} \cup {Len(ps)})
LongRuns(ps) == {i \in RunStarts(ps) : RunEnd(ps, i) > i}

(***************************************************************************)
(* The features that are kept up to date packet by packet say what the     *)
(* whole list of packets says: as many bulks as there are runs of packets  *)
(* without an idle gap, with the packets of these runs, and, if timestamps *)
(* came in order, active and idle periods that divide the duration.        *)
(* Without a vector there are fewer than two packets.                      *)
(***************************************************************************)
FlowFeaturesMatchPackets ==
    LET v == FeatureVector
    IN  IF Len(seenPkts) < 2 THEN v = NoFeatures
        ELSE /\ \A forward \in BOOLEAN :
                  LET ps == Of(forward)
                      d  == IF forward THEN v.fwd ELSE v.bwd
                  IN  /\ d.bulkPkts = <<Sum([i \in DOMAIN ps |->
                                               IF \E r \in LongRuns(ps) : r <= i /\ i <= RunEnd(ps, r) THEN 1 ELSE 0]),
                                        Cardinality(LongRuns(ps))>>
                      /\ ps # <<>> => d.iatTotal = Last(ps).at - ps[1].at
             /\ InOrder => /\ Sum(ActivePeriods) + Sum(flowRec.idle) = Last(Times) - Times[1]
                           /\ v.fwd.iat.min >= 0 /\ v.iat.max <= v.duration
             /\ v.count["psh"] = v.fwd.psh + v.bwd.psh
             /\ flowRec.samples = Min({MaxSamples, v.dataPkts})
=============================================================================
