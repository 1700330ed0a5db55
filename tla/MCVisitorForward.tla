-------------------------- MODULE MCVisitorForward --------------------------
(* An instance of VisitorForward for TLC. *)
EXTENDS VisitorForward

CONSTANTS v1, v2

TwoVisitors == {v1, v2}
FirstOnly == {{v1}}
=============================================================================
