---------------------------- MODULE LeaseRegistry ----------------------------
(***************************************************************************)
(* What the lease store promises its callers: a durable table of leases    *)
(* that grows, is prolonged and shrinks one lease at a time, in which no   *)
(* two leases ever share a port.  A lease keeps its token and its port for *)
(* life; it goes when a caller removes it, or when a restart finds it      *)
(* expired or its port outside the range.                                  *)
(* LeaseStore implements this specification; the session modules run over  *)
(* it.                                                                     *)
(***************************************************************************)
EXTENDS Leases

VARIABLES leases, minted, now

regVars == <<leases, minted, now>>

RegInit ==
  /\ leases = [id \in LeaseIds |-> None]
  /\ minted = 0
  /\ now = 0

Grant(id, d, p) ==
  /\ leases[id] = None
  /\ p \notin PortsOf(leases)
  /\ minted < MaxMints
  /\ minted' = minted + 1
  /\ leases' = [leases EXCEPT ![id] = [token |-> minted + 1, port |-> p,
                                       expires |-> now + d]]
  /\ UNCHANGED now

Renew(id, d) ==
  /\ leases[id] # None
  /\ leases[id].expires + d <= Horizon
  /\ leases' = [leases EXCEPT ![id] = Prolonged(leases[id], d)]
  /\ UNCHANGED <<minted, now>>

(* Removal, for whatever reason; when to ask for it is the caller's part. *)
Revoke(id) ==
  /\ leases[id] # None
  /\ leases' = [leases EXCEPT ![id] = None]
  /\ UNCHANGED <<minted, now>>

(* A restart keeps exactly the leases that still run in the new range r. *)
Kept(id, r) ==
  /\ leases[id] # None
  /\ ~Expired(leases[id], now)
  /\ leases[id].port \in r.min .. r.max

Reopen(r) ==
  /\ leases' = [id \in LeaseIds |-> IF Kept(id, r) THEN leases[id] ELSE None]
  /\ UNCHANGED <<minted, now>>

Tick ==
  /\ now < MaxTime
  /\ now' = now + 1
  /\ UNCHANGED <<leases, minted>>

RegNext ==
  \/ \E id \in LeaseIds, d \in Durations, p \in Ports : Grant(id, d, p)
  \/ \E id \in LeaseIds, d \in Durations : Renew(id, d)
  \/ \E id \in LeaseIds : Revoke(id)
  \/ \E r \in Ranges : Reopen(r)
  \/ Tick

RegSpec == RegInit /\ [][RegNext]_regVars
=============================================================================
