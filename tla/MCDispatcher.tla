---------------------------- MODULE MCDispatcher ----------------------------
(* Small instances of Dispatcher for TLC: a conversation between a and b, in  *)
(* both directions, and two more flows of host a.                             *)
EXTENDS Dispatcher

ab == "ab"
ba == "ba"
ac == "ac"
ad == "ad"

Conversation == {ab, ba}
TwoFlows     == {ab, ac}
FourTuples   == {ab, ba, ac, ad}

(* The packets of ac and ad are all forward. *)
Mirror(keys) ==
    [k \in keys |-> IF k = ab /\ ba \in keys THEN ba ELSE IF k = ba THEN ab ELSE k]
RevConversation == Mirror(Conversation)
RevTwoFlows     == Mirror(TwoFlows)
RevFourTuples   == Mirror(FourTuples)

Host == [k \in {ab, ba, ac, ad} |-> IF k = ba THEN "b" ELSE "a"]

(* A JA3 fingerprint in ad only. *)
Ja3InLast       == [k \in FourTuples |-> IF k = ad THEN {"ja3"} ELSE {}]
PayloadBothWays == [k \in Conversation |-> {"payload"}]
(* Payload matches in ab only. *)
PayloadInFirst  == [k \in TwoFlows |-> IF k = ab THEN {"payload"} ELSE {}]

OneWorker  == {"w1"}
TwoWorkers == {"w1", "w2"}
=============================================================================
