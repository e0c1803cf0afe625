----------------------------- MODULE MCBaseline -----------------------------
(* Small instances of Baseline for TLC. *)
EXTENDS Baseline

CONSTANTS h1, h2

TwoHosts   == {h1, h2}
TwoCallers == {"flusher", "main"}

(* With MaxRatio 3, 8 is outside the gate's range around 1 and around 1 and 1. *)
NearAndFar == {1, 8}
=============================================================================
