----------------------------- MODULE MCPredictApi -----------------------------
(* Small instances of PredictApi for TLC. *)
EXTENDS PredictApi

CONSTANTS a, b, dos, r1, q1, q2, e1, e2

TwoIPs   == {a, b}
OneType  == {dos}
OneRule  == {r1}
NoIPs    == {}

(* No address is part of the text of the other one. *)
OwnText == [ip \in TwoIPs |-> {ip}]
CoversA == [r \in OneRule |-> {<<a, dos>>}]

DefaultWeights == [supervised |-> 30, isolation_forest |-> 20, lstm |-> 10, rules |-> 25, baseline |-> 15]
NoOverrides == <<>>
Critical    == {"payload:log4j"}
NoLabels    == {}
DosTypes    == {dos}

Strong == [scores |-> [supervised |-> 0, rules |-> 100], attack |-> dos, rules |-> {"payload:log4j"}]
Quiet  == [scores |-> [supervised |-> 0], attack |-> dos, rules |-> {}]

(* A signature that must always alert, whose score of 1 falls below the threshold *)
(* of 0.55 when it is decayed twice, and harmless requests of either address.       *)
OneAlerting == [ip \in TwoIPs |-> IF ip = a THEN {Strong, Quiet} ELSE {Quiet}]

Lives  == {9}
TwoRequests == {q1, q2}
TwoAnalysts == {e1, e2}
ActorSymmetry == Permutations(TwoRequests) \cup Permutations(TwoAnalysts)
=============================================================================
