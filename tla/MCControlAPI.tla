---------------------------- MODULE MCControlAPI ----------------------------
(* An instance of ControlAPI for TLC. *)
EXTENDS ControlAPI

OnePort == 1 .. 1
OneRange == {[min |-> 1, max |-> 1]}
Bought == {clampDuration(s) : s \in Seconds}
=============================================================================
