---------------------------- MODULE MCAuthLimiter ----------------------------
(* Instances of AuthLimiter for TLC. *)
EXTENDS AuthLimiter, TLC

IPSymmetry == Permutations(IPs)
=============================================================================
