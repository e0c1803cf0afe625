------------------------------ MODULE AlertSink ------------------------------
(***************************************************************************)
(* What a detection path promises about alerts, whatever threads, queues   *)
(* and caches lie between a verdict and the database: an anomaly is        *)
(* accepted only when the last accepted one of its key is at least a       *)
(* window old, and what is accepted is stored at most once or dropped,     *)
(* for good.  AlertPipeline (threads) and PredictApi (coroutines)          *)
(* implement it.                                                           *)
(***************************************************************************)
EXTENDS Integers, Sequences

CONSTANTS
    Keys,     \* (src_ip, attack_type)
    Times,    \* instants
    Window    \* DEDUP_WINDOW_SECS


VARIABLE accepted   \* the accepted anomalies: key, time of the verdict, state

States == {"open", "stored", "dropped"}

Init == accepted = <<>>

(* An anomaly of key k whose verdict fell at time t. *)
Accept(k, t) ==
    /\ \A a \in DOMAIN accepted : accepted[a].key = k => t - accepted[a].time >= Window
    /\ accepted' = Append(accepted, [key |-> k, time |-> t, state |-> "open"])

Decide(a, state) ==
    /\ accepted[a].state = "open"
    /\ accepted' = [accepted EXCEPT ![a].state = state]

Next ==
    \/ \E k \in Keys, t \in Times : Accept(k, t)
    \/ \E a \in DOMAIN accepted, state \in {"stored", "dropped"} : Decide(a, state)

Spec == Init /\ [][Next]_accepted
=============================================================================
