----------------------------- MODULE MCGuardian -----------------------------
(* Small instances of Guardian for TLC. *)
EXTENDS Guardian

CONSTANTS ip1, ip2, ip3, none, admin, guest

OneIP  == {ip1}
TwoIPs == {ip1, ip2}
ThirdIP  == {ip3}
ThreeIPs == {ip1, ip2, ip3}
Nobody == {}
Admin  == {admin}
AdminAndGuest == {admin, guest}

DetectorOnly == {"detector"}
Critical     == {[severity |-> 3, source |-> "detector"]}
(* One kind per reason to skip an alert, and one the Guardian acts on. *)
MixedKinds   == Critical \cup {[severity |-> 2, source |-> "detector"],
                               [severity |-> 3, source |-> "api"]}
=============================================================================
