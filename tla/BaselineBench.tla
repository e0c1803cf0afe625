--------------------------- MODULE BaselineBench ---------------------------
(***************************************************************************)
(* The offline bench of the baseline models.  The training thread leaves a *)
(* file per window (src/src/unsupervised/dump.py); the bench, a process of *)
(* its own (src/scripts/eval_baseline.py), loads the files, fits on the    *)
(* older rows and scores the newer ones and simulated attacks              *)
(* (src/src/unsupervised/evaluation.py).  A host vector is one number, or  *)
(* NotFinite; scores are in hundredths.                                    *)
(***************************************************************************)
EXTENDS Integers, Sequences, SequencesExt, FiniteSets, FiniteSetsExt

CONSTANTS
    Windows,       \* what a window may hold: rows of host, x and ts within its first second
    NotFinite,
    Attacks,       \* the scenarios of attack_sim: rows in time order
    BenchSeqLen, BenchTrainPercent, FlagRatio,
    PointScore,    \* the isolation forest: vector -> score
    KeepFiles,     \* BASELINE_DUMP_KEEP
    MaxDumps       \* bound: windows

VARIABLES
    files,    \* the dumps in the order of their modification times
    windows,  \* how many windows were handed to dump_window
    wrote,    \* the windows that were written (history)
    stuck,    \* how many old files the last dump could not remove (history)
    bench,    \* the process: at, the names it has listed, the windows it has read
    report    \* what it prints

benchVars == <<files, windows, wrote, stuck, bench, report>>

NoReport == <<>>
Init ==
    /\ files = <<>> /\ windows = 0 /\ wrote = <<>> /\ stuck = 0
    /\ bench = [at |-> "idle", todo |-> <<>>, got |-> <<>>] /\ report = NoReport

-----------------------------------------------------------------------------
(* dump_window, in the training thread.                                      *)

NameOf(w) == <<w.start, Len(w.rows)>>
FileOf(w) == [name |-> NameOf(w), window |-> w]
Window(start, rows) == [start |-> start, rows |-> [i \in DOMAIN rows |-> [rows[i] EXCEPT !.ts = @ + 10 * start]]]

(* A window starts in the second of the last one that was written, or later. *)
Starts == IF wrote = <<>> THEN {0} ELSE {Last(wrote).start, Last(wrote).start + 1}

(* os.replace: a file of the same name gives way. *)
Replaced(w) == Append(SelectSeq(files, LAMBDA f : f.name # NameOf(w)), FileOf(w))
Excess(fs) == IF KeepFiles > 0 THEN {fs[i].name : i \in 1..(Len(fs) - KeepFiles)} ELSE {}

(* The file takes its name when it is whole; an old one that cannot be removed stays. *)
Dump(w) ==
    /\ windows < MaxDumps /\ windows' = windows + 1
    /\ wrote' = Append(wrote, w)
    /\ \E left \in SUBSET Excess(Replaced(w)) :
         /\ files' = SelectSeq(Replaced(w), LAMBDA f : f.name \notin Excess(Replaced(w)) \ left)
         /\ stuck' = Cardinality(left)
    /\ UNCHANGED <<bench, report>>

(* A write that is cut short leaves a file under a name the bench does not look for. *)
DumpFails == windows < MaxDumps /\ windows' = windows + 1 /\ UNCHANGED <<files, wrote, stuck, bench, report>>

-----------------------------------------------------------------------------
(* What evaluate computes.                                                   *)

(* np.argsort, stable. *)
InTime(rows) ==
    LET Before(i, j) == rows[i].ts < rows[j].ts \/ (rows[i].ts = rows[j].ts /\ i < j)
        order == SortSeq([i \in DOMAIN rows |-> i], Before)
    IN  [i \in DOMAIN rows |-> rows[order[i]]]

(* _load_benign: rows of all windows that are finite. *)
BenignRows(ws) ==
    InTime(SelectSeq(FlattenSeq([i \in DOMAIN ws |-> ws[i].rows]), LAMBDA r : r.x # NotFinite))

(* _temporal_split, and the hold-out that evaluate cuts for itself. *)
Cut(n) == (n * BenchTrainPercent) \div 100
TrainRows(rows) == SubSeq(rows, 1, Cut(Len(rows)))
ValidationRows(rows) == SubSeq(rows, Cut(Len(rows)) + 1, Len(rows))
HoldOut(rows) ==
    LET n == Len(rows) IN [i \in 1..(n - (n * BenchTrainPercent) \div 100) |-> InTime(rows)[i + (n * BenchTrainPercent) \div 100]]

(* The rows that end a full sequence of their host, with that sequence. *)
OwnRows(rows, h) == SelectSeq([i \in DOMAIN rows |-> i], LAMBDA i : rows[i].host = h)
TemporalRows(rows) ==
    UNION {LET own == OwnRows(rows, h)
           IN  {[row |-> own[j + BenchSeqLen - 1], seq |-> [k \in 1..BenchSeqLen |-> rows[own[j + k - 1]].x]] :
                   j \in 1..(Len(own) - BenchSeqLen + 1)} : h \in {r.host : r \in ToSet(rows)}}

(* The network: a sequence is the harder to reconstruct the further its vectors are apart. *)
ReconError(seq) == Max(ToSet(seq)) - Min(ToSet(seq))
FitThreshold(rows) == Max({ReconError(t.seq) : t \in TemporalRows(ValidationRows(rows))})
LstmScore(err, threshold) == IF err = 0 THEN 0 ELSE (100 * err) \div (err + threshold)

Scores(rows, threshold) ==
    LET temporal == TemporalRows(rows)
        SeqAt(i) == {t.seq : t \in {u \in temporal : u.row = i}}
        Lstm(i)  == IF SeqAt(i) = {} THEN 0 ELSE LstmScore(ReconError(CHOOSE q \in SeqAt(i) : TRUE), threshold)
    IN  [i \in DOMAIN rows |-> [iforest |-> PointScore[rows[i].x], lstm |-> Lstm(i), lstmValid |-> SeqAt(i) # {},
                                score |-> Max({PointScore[rows[i].x], Lstm(i)})]]

(* auc: twice the rank of a value is the sum of the ends of its tie. *)
TwiceRank(v, sorted) ==
    LET tie == {i \in DOMAIN sorted : sorted[i] = v} IN Min(tie) + Max(tie)
Auc(pos, neg) ==
    LET sorted == SortSeq(pos \o neg, <)
        ranks  == FoldLeft(LAMBDA sum, v : sum + TwiceRank(v, sorted), 0, pos)
    IN  IF pos = <<>> \/ neg = <<>> THEN <<>>
        ELSE <<ranks - Len(pos) * (Len(pos) + 1), 2 * Len(pos) * Len(neg)>>

(* feature_drift: the newest fifth of the rows against the oldest. *)
Total(rows) == FoldLeft(LAMBDA sum, r : sum + r.x, 0, rows)
Drifting(rows) ==
    LET k == Max({Len(rows) \div 5, 1})
        a == Total(SubSeq(rows, 1, k))
        b == Total(SubSeq(rows, Len(rows) - k + 1, Len(rows)))
    IN  IF a = 0 THEN b # 0 ELSE b >= FlagRatio * a \/ b * FlagRatio <= a

Column(scores, field) == [i \in DOMAIN scores |-> scores[i][field]]
Valid(scores) == SelectSeq(scores, LAMBDA s : s.lstmValid)
Compared(attack, benign) ==
    <<Auc(Column(attack, "score"), Column(benign, "score")),
      Auc(Column(attack, "iforest"), Column(benign, "iforest")),
      Auc(Column(Valid(attack), "lstm"), Column(Valid(benign), "lstm"))>>

Evaluated(rows) ==
    LET threshold == FitThreshold(rows)
        benign    == Scores(HoldOut(rows), threshold)
        attacks   == [a \in DOMAIN Attacks |-> Scores(Attacks[a], threshold)]
    IN  [threshold |-> threshold, benign |-> benign, attacks |-> attacks,
         auc |-> [a \in DOMAIN Attacks |-> Compared(attacks[a], benign)], drifting |-> Drifting(rows)]

-----------------------------------------------------------------------------
(* The bench.                                                                *)

List ==
    /\ bench.at = "idle" /\ bench' = [bench EXCEPT !.at = "read", !.todo = [i \in DOMAIN files |-> files[i].name]]
    /\ UNCHANGED <<files, windows, wrote, stuck, report>>

(* A file that was removed since it was listed ends the bench. *)
Read ==
    /\ bench.at = "read" /\ bench.todo # <<>>
    /\ LET found == SelectSeq(files, LAMBDA f : f.name = Head(bench.todo))
       IN  bench' = IF found = <<>> THEN [bench EXCEPT !.at = "failed"]
                    ELSE [bench EXCEPT !.todo = Tail(@), !.got = Append(@, found[1].window)]
    /\ UNCHANGED <<files, windows, wrote, stuck, report>>

(* No dump, or too few rows for a sequence on both sides: no report. *)
Evaluate ==
    /\ bench.at = "read" /\ bench.todo = <<>>
    /\ LET rows == BenignRows(bench.got)
           fits == TemporalRows(TrainRows(rows)) # {} /\ TemporalRows(ValidationRows(rows)) # {}
       IN  /\ bench' = [bench EXCEPT !.at = IF fits THEN "done" ELSE "failed"]
           /\ report' = IF fits THEN Evaluated(rows) ELSE report
    /\ UNCHANGED <<files, windows, wrote, stuck>>

Next ==
    \/ \E start \in Starts, rows \in Windows : Dump(Window(start, rows))
    \/ DumpFails \/ List \/ Read \/ Evaluate

Spec == Init /\ [][Next]_benchVars

-----------------------------------------------------------------------------

(***************************************************************************)
(* The directory holds whole windows in the order they were written: each  *)
(* of the newest is there unless a later one took its name, and no more    *)
(* are than may be kept, but for old ones that could not be removed.  The  *)
(* bench that comes to its end has read each file it listed once.          *)
(***************************************************************************)
DumpsAreNewest ==
    /\ \A i, j \in DOMAIN files : files[i].name = files[j].name => i = j
    /\ \A i \in DOMAIN files : files[i].window \in ToSet(wrote)
    /\ \A i \in DOMAIN wrote : i > Len(wrote) - KeepFiles =>
         \/ \E j \in DOMAIN files : files[j] = FileOf(wrote[i])
         \/ \E j \in (i + 1)..Len(wrote) : NameOf(wrote[j]) = NameOf(wrote[i])
    /\ Len(files) <= KeepFiles + stuck
    /\ \A i \in DOMAIN bench.got : bench.got[i] \in ToSet(wrote)
    /\ \A i, j \in DOMAIN bench.got : NameOf(bench.got[i]) = NameOf(bench.got[j]) => i = j

(* What the engine scores as the rows come in: the ring buffer of the row's host, once it is full. *)
Served(rows) ==
    LET Push(acc, r) ==
            LET ring == Append(acc.ring[r.host], r.x)
                kept == IF Len(ring) > BenchSeqLen THEN Tail(ring) ELSE ring
            IN  [ring |-> [acc.ring EXCEPT ![r.host] = kept], out |-> Append(acc.out, kept)]
    IN  FoldLeft(Push, [ring |-> [h \in {r.host : r \in ToSet(rows)} |-> <<>>], out |-> <<>>], rows).out

(* P(positive > negative), ties counting half. *)
PairAuc(pos, neg) ==
    LET Beats(op(_, _)) == Cardinality({p \in (DOMAIN pos) \X (DOMAIN neg) : op(pos[p[1]], neg[p[2]])})
    IN  <<2 * Beats(>) + Beats(LAMBDA u, v : u = v), 2 * Len(pos) * Len(neg)>>

(***************************************************************************)
(* A report is about rows the models were not fitted on, and none of them  *)
(* older than those; a row's temporal score is that of the sequence the    *)
(* engine would have scored at that row; the AUC is the share of pairs     *)
(* that are ranked right; and whether a feature drifts does not depend on  *)
(* the direction of time.                                                  *)
(***************************************************************************)
EvaluatedAsServed ==
    report # NoReport =>
        LET rows == BenignRows(bench.got)
            held == HoldOut(rows)
            ring == Served(held)
        IN  /\ TrainRows(rows) \o held = rows
            /\ \A i \in 1..(Len(rows) - 1) : rows[i].ts <= rows[i + 1].ts
            /\ \A i \in DOMAIN held :
                 /\ report.benign[i].lstmValid <=> Len(ring[i]) = BenchSeqLen
                 /\ report.benign[i].lstmValid => report.benign[i].lstm = LstmScore(ReconError(ring[i]), report.threshold)
            /\ \A a \in DOMAIN Attacks :
                 LET pos == [i \in DOMAIN report.attacks[a] |-> report.attacks[a][i].score]
                     neg == [i \in DOMAIN held |-> report.benign[i].score]
                 IN  report.auc[a][1] = PairAuc(pos, neg)
            /\ report.drifting = Drifting(Reverse(rows))
=============================================================================
