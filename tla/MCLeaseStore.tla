---------------------------- MODULE MCLeaseStore ----------------------------
(* Instances of LeaseStore for TLC. *)
EXTENDS LeaseStore

MCPorts == 1 .. 3
MCRanges == {[min |-> 1, max |-> 3], [min |-> 2, max |-> 3]}
MCDurations == {1, 2}
=============================================================================
