------------------------------- MODULE Leases -------------------------------
(***************************************************************************)
(* The lease record and the constants every module about leases shares     *)
(* (internal/tunnel/lease/store.go).                                       *)
(*                                                                         *)
(* A token is the number of the mint that produced it: mintToken draws 160 *)
(* random bits, so a token never equals an earlier one.  The allowlist,    *)
(* the creation time and the status are left out: the store never branches *)
(* on the first two after Create, and the only status ever written is      *)
(* "active".                                                               *)
(***************************************************************************)
EXTENDS Integers

CONSTANTS
  LeaseIds,     \* lease ids the cloud may use
  Ports,        \* every port a configuration of the daemon may hand out
  Ranges,       \* the [min, max] ranges the daemon is (re)started with
  Durations,    \* the durations, after clamping, a lease is bought for
  MaxMints,     \* bound: tokens minted in a behaviour
  MaxTime,      \* bound: the last instant of the clock
  Horizon,      \* bound: the latest expiry an extension may reach
  None          \* absent: no lease, no id, no connection

Tokens == 1 .. MaxMints

Lease == [token : Tokens, port : Ports, expires : Nat]

ASSUME RangesAssumption ==
  /\ Ports \subseteq Nat
  /\ Ranges # {}
  /\ \A r \in Ranges : /\ DOMAIN r = {"min", "max"}
                       /\ r.min \in Nat /\ r.max \in Nat
                       /\ r.min <= r.max /\ r.min .. r.max \subseteq Ports

ASSUME BoundsAssumption ==
  /\ Durations \subseteq Nat \ {0}
  /\ MaxMints \in Nat /\ MaxTime \in Nat /\ Horizon \in Nat

ASSUME NoneAssumption == None \notin LeaseIds /\ None \notin Lease

(* !now.Before(l.ExpiresAt): a lease is expired from its last instant on. *)
Expired(l, t) == t >= l.expires

(* ExpiresAt.Add(d). *)
Prolonged(l, d) == [l EXCEPT !.expires = @ + d]

PortsOf(table) == {table[id].port : id \in {i \in LeaseIds : table[i] # None}}
=============================================================================
