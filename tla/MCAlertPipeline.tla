--------------------------- MODULE MCAlertPipeline ---------------------------
(* Small instances of AlertPipeline for TLC. *)
EXTENDS AlertPipeline

CONSTANTS k1, k2, r1, r2

OneKey   == {k1}
OneRule  == {r1}
TwoRules == {r1, r2}

(* A rule for other traffic, the case in which the cache is read and matches nothing. *)
CoversOther   == [r \in OneRule |-> {}]
(* r2 covers k1; r1 is for other traffic. *)
CoversSecond  == [r \in TwoRules |-> IF r = r2 THEN {k1} ELSE {}]

FlusherOnly == {Flusher}
BothCallers == {Flusher, Main}

LongOnly     == {9}
ShortAndLong == {1, 9}

OneWriter   == 1..1
TwoWriters  == 1..2
=============================================================================
