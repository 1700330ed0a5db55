-------------------------- MODULE MCTunnelSessions --------------------------
(* Instances of TunnelSessions for TLC. *)
EXTENDS TunnelSessions, TLC

OnePort == 1 .. 1
TwoPorts == 1 .. 2
OneRange == {[min |-> 1, max |-> 1]}
TwoRange == {[min |-> 1, max |-> 2]}
OneSecond == {1}
ConnSymmetry == Permutations(Conns)
=============================================================================
