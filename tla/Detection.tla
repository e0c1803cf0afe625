------------------------------ MODULE Detection ------------------------------
(***************************************************************************)
(* The verdict of one flow or one request: the rules engine                *)
(* (src/src/engines/rules.py), the weighted ensemble with its boost and    *)
(* its override (src/src/ensemble/scorer.py), the decay of repeated scores *)
(* (src/src/enrichment/confidence_decay.py) and the severity.              *)
(*                                                                         *)
(* Engine scores, weights and thresholds are in hundredths; a combined     *)
(* score is an exact fraction [num, den].  The calibration temperature is  *)
(* its default, 1, for which _calibrate returns its argument.              *)
(***************************************************************************)
EXTENDS Integers, Sequences, FiniteSets, FiniteSetsExt, SequencesExt

CONSTANTS
    BaseWeights,      \* engine -> weight (_BASE_WEIGHTS)
    TypeWeights,      \* attack type -> overriding weights of some engines (ATTACK_TYPE_WEIGHTS)
    BenignLabels,     \* labels for which is_benign holds
    SevereTypes,      \* attack types that name one of severity_from_score's critical types
    CriticalRules,    \* CRITICAL_RULES
    Threshold,        \* ENSEMBLE_THRESHOLD
    DecayNum, DecayDen,  \* CONFIDENCE_DECAY_FACTOR
    IcmpFlood, SynScan, LargePayload  \* thresholds of the rules engine

ASSUME DetectionAssumption ==
    /\ \A e \in DOMAIN BaseWeights : BaseWeights[e] \in Nat
    /\ \A t \in DOMAIN TypeWeights : /\ DOMAIN TypeWeights[t] \subseteq DOMAIN BaseWeights
                                     /\ \A e \in DOMAIN TypeWeights[t] : TypeWeights[t][e] \in Nat
    /\ {Threshold, DecayNum, DecayDen, IcmpFlood, SynScan, LargePayload} \subseteq Nat
    /\ DecayDen > 0 /\ DecayNum <= DecayDen /\ Threshold <= 100

Engines == DOMAIN BaseWeights

-----------------------------------------------------------------------------
(* RulesEngine.evaluate: flow has proto, the lengths of the packets of each   *)
(* direction, the SYN and data packet counts, and whether its JA3 is listed.   *)

Total(lengths) == FoldLeft(LAMBDA x, y : x + y, 0, lengths)

Triggered(flow, matches) ==
    {rule \in {"icmp_flood", "syn_scan", "large_payload", "asymmetric_upload", "malicious_ja3"} :
        CASE rule = "icmp_flood"        -> flow.proto = "icmp" /\ Len(flow.fwd) > IcmpFlood
          [] rule = "syn_scan"          -> flow.syn > SynScan /\ flow.dataPkts < 5
          [] rule = "large_payload"     -> \E i \in DOMAIN flow.fwd : flow.fwd[i] > LargePayload
          [] rule = "asymmetric_upload" -> /\ Len(flow.fwd) > 10 /\ Len(flow.bwd) > 0
                                           /\ Total(flow.fwd) > 50 * Max({Total(flow.bwd), 1})
          [] rule = "malicious_ja3"     -> flow.badJa3}
    \cup matches

RuleScore(triggered) == IF triggered = {} THEN 0 ELSE 100

-----------------------------------------------------------------------------
(* EnsembleScorer.score: `scores` is defined on the engines that have a score. *)

Weights(attack) ==
    IF attack \in DOMAIN TypeWeights /\ attack \notin BenignLabels
    THEN [e \in Engines |-> IF e \in DOMAIN TypeWeights[attack]
                            THEN TypeWeights[attack][e] ELSE BaseWeights[e]]
    ELSE BaseWeights

SumOver(S, Val(_)) == MapThenSumSet(Val, S)

(* Missing engines take no part: their weight goes to the others in proportion. *)
Blend(scores, attack) ==
    LET w == Weights(attack)
    IN  [num |-> SumOver(DOMAIN scores, LAMBDA e : w[e] * scores[e]),
         den |-> 100 * SumOver(DOMAIN scores, LAMBDA e : w[e])]

(* A match of threat intelligence adds 0.30, up to 1. *)
Boost(c, intel) ==
    IF intel = {} THEN c
    ELSE [num |-> Min({100 * c.den, 100 * c.num + 30 * c.den}), den |-> 100 * c.den]

One  == [num |-> 1, den |-> 1]
Zero == [num |-> 0, den |-> 1]

AtLeast(c, hundredths) == 100 * c.num >= hundredths * c.den

(* The rules a scoring leaves in triggered_rules: intelligence adds its own. *)
RulesAfter(scores, attack, triggered, intel) ==
    IF Blend(scores, attack).den = 0 THEN triggered ELSE triggered \cup intel

Combined(scores, attack, triggered, intel) ==
    CASE Blend(scores, attack).den = 0 -> Zero
      [] Blend(scores, attack).den # 0 /\ RulesAfter(scores, attack, triggered, intel) \cap CriticalRules # {} -> One
      [] OTHER -> Boost(Blend(scores, attack), intel)

IsAnomaly(c) == AtLeast(c, Threshold)

(* apply_decay, for a given number of earlier hits *)
Decayed(c, repeats) == [num |-> c.num * DecayNum ^ repeats, den |-> c.den * DecayDen ^ repeats]

Severity(c, attack) ==
    CASE attack \in SevereTypes /\ AtLeast(c, 70) -> "critical"
      [] AtLeast(c, 85) -> "critical"
      [] AtLeast(c, 70) /\ ~AtLeast(c, 85) /\ attack \notin SevereTypes -> "high"
      [] AtLeast(c, 55) /\ ~AtLeast(c, 70) -> "medium"
      [] OTHER -> "low"
=============================================================================
