----------------------------- MODULE ControlAPI -----------------------------
(***************************************************************************)
(* The control API (control/api.go) over the coordinator (coordinator.go)  *)
(* and the lease registry: concurrent requests of a cloud that may give up *)
(* on a request, lose its answer and ask again, the sweeper, and the       *)
(* restarts of the daemon.  A handler does not look at the context of its  *)
(* request: a call the cloud has given up on still runs to its end.        *)
(*                                                                         *)
(* The store's operations are atomic, as LeaseStore shows; what a handler  *)
(* does before and after its one call of the store is a step of its own.   *)
(* RefreshMetrics is three of them: Stats reads the store under its lock,  *)
(* and each of the two gauges is then set without one.                     *)
(*                                                                         *)
(* A request body is well formed or not: decodeJSON accepts one object of  *)
(* known fields and nothing behind it.  The session statistics of a        *)
(* response are left out.                                                  *)
(***************************************************************************)
EXTENDS LeaseRegistry, FiniteSets

CONSTANTS
  Calls,            \* requests in flight at once
  Sweeper,          \* the goroutine of runSweeper
  Seconds,          \* duration_seconds a request may ask for
  MinLeaseSeconds, MaxLeaseSeconds

ASSUME ControlAssumption ==
  /\ Sweeper \notin Calls /\ Seconds \subseteq Int
  /\ MinLeaseSeconds \in Nat \ {0} /\ MaxLeaseSeconds \in Nat
  /\ MinLeaseSeconds <= MaxLeaseSeconds

VARIABLES
  call,       \* the request of each slot and how far its handler is
  stats,      \* what a task's Stats returned, None before and after its use
  activeGauge, freeGauge,     \* LeasesActive and PortsFree
  range,      \* the port range of the running daemon
  sweep,      \* the running sweep: cutoff, ids still to do, reaped
  told,       \* history: per token, the lease the cloud was last told of
  dropped     \* history: tokens revoked, or out of range at a restart

taskVars == <<call, stats, activeGauge, freeGauge, sweep>>
vars == <<regVars, taskVars, range, told, dropped>>

Tasks == Calls \cup {Sweeper}

clampDuration(s) ==
  IF s < MinLeaseSeconds THEN MinLeaseSeconds
  ELSE IF s > MaxLeaseSeconds THEN MaxLeaseSeconds ELSE s

Active == {id \in LeaseIds : leases[id] # None}
FreePorts == (range.min .. range.max) \ PortsOf(leases)
Stats == [active |-> Cardinality(Active), free |-> Cardinality(FreePorts)]

Idle == [pc |-> "idle", id |-> None, seen |-> None, status |-> 0]
NoSweep == [pc |-> "idle", cutoff |-> 0, todo |-> {}, reaped |-> 0]

Init ==
  /\ RegInit
  /\ call = [h \in Calls |-> Idle]
  /\ stats = [t \in Tasks |-> None]
  /\ range \in Ranges
  /\ activeGauge = 0 /\ freeGauge = Cardinality(range.min .. range.max)
  /\ sweep = NoSweep
  /\ told = [t \in Tokens |-> None] /\ dropped = {}

-----------------------------------------------------------------------------
(* The handlers, up to the end of their call of the store.  Fail is an     *)
(* answer without a lease; Proceed goes on with the copy l of a lease.     *)

Fail(h, status) ==
  /\ call' = [call EXCEPT ![h] = [Idle EXCEPT !.pc = "reply", !.status = status]]
  /\ UNCHANGED <<regVars, dropped>>

Proceed(h, next, id, l, status) ==
  call' = [call EXCEPT ![h] = [pc |-> next, id |-> id, seen |-> l,
                               status |-> status]]

(* withAuth, around every handler: the bearer token is not the shared one. *)
Unauthorized(h) == Fail(h, 401)

(* decodeJSON: too long, unknown fields, no JSON, or more than one object. *)
Malformed(h) == Fail(h, 400)

Refuse(h) ==
  /\ call[h].pc = "idle"
  /\ Unauthorized(h) \/ Malformed(h)
  /\ UNCHANGED <<stats, activeGauge, freeGauge, sweep, range, told>>

(* An existing lease is returned before the CIDRs are looked at.  Ports    *)
(* may also be held by other processes: a create may find none free.       *)
handleCreate(h, id, secs, cidrs) ==
  /\ call[h].pc = "idle"
  /\ IF secs <= 0
     THEN Fail(h, 400)
     ELSE IF leases[id] # None
     THEN Proceed(h, "refresh", id, leases[id], 200) /\ UNCHANGED <<regVars, dropped>>
     ELSE IF ~cidrs
     THEN Fail(h, 400)
     ELSE \/ Fail(h, 503)
          \/ Fail(h, 500)
          \/ \E p \in FreePorts : /\ Grant(id, clampDuration(secs), p)
                                  /\ Proceed(h, "refresh", id, leases'[id], 200)
                                  /\ UNCHANGED dropped
  /\ UNCHANGED <<stats, activeGauge, freeGauge, sweep, range, told>>

(* ExtendLease does not refresh the gauges. *)
handleExtend(h, id, secs) ==
  /\ call[h].pc = "idle"
  /\ IF secs <= 0
     THEN Fail(h, 400)
     ELSE IF leases[id] = None
     THEN Fail(h, 404)
     ELSE \/ Fail(h, 500)
          \/ /\ Renew(id, clampDuration(secs))
             /\ Proceed(h, "reply", id, leases'[id], 200)
             /\ UNCHANGED dropped
  /\ UNCHANGED <<stats, activeGauge, freeGauge, sweep, range, told>>

(* Teardown, between the store and the gauges, is in TunnelSessions. *)
handleRevoke(h, id) ==
  /\ call[h].pc = "idle"
  /\ IF leases[id] = None
     THEN Fail(h, 404)
     ELSE \/ Fail(h, 500)
          \/ /\ Revoke(id)
             /\ Proceed(h, "refresh", id, None, 204)
             /\ dropped' = dropped \cup {leases[id].token}
  /\ UNCHANGED <<stats, activeGauge, freeGauge, sweep, range, told>>

handleGet(h, id) ==
  /\ call[h].pc = "idle"
  /\ IF leases[id] = None
     THEN Fail(h, 404)
     ELSE Proceed(h, "reply", id, leases[id], 200) /\ UNCHANGED <<regVars, dropped>>
  /\ UNCHANGED <<stats, activeGauge, freeGauge, sweep, range, told>>

(* Mutant: readiness without a refresh. *)
ReadyzOnly(h) ==
  /\ call[h].pc = "idle"
  /\ Proceed(h, "reply", None, None, 204)
  /\ UNCHANGED <<regVars, stats, activeGauge, freeGauge, sweep, range, told,
                 dropped>>

(* GET /readyz of the metrics listener.  *)
Readyz(h) ==
  /\ call[h].pc = "idle"
  /\ Proceed(h, "refresh", None, None, 204)
  /\ UNCHANGED <<regVars, stats, activeGauge, freeGauge, sweep, range, told,
                 dropped>>

-----------------------------------------------------------------------------
(* RefreshMetrics, run by a handler or by the sweeper. *)

Refreshing(t) == IF t = Sweeper THEN sweep.pc = "refresh"
                 ELSE call[t].pc = "refresh"

ReadStats(t) ==
  /\ Refreshing(t) /\ stats[t] = None
  /\ stats' = [stats EXCEPT ![t] = Stats]
  /\ UNCHANGED <<regVars, call, activeGauge, freeGauge, sweep, range, told,
                 dropped>>

SetActive(t) ==
  /\ Refreshing(t) /\ stats[t] # None /\ stats[t].active # None
  /\ activeGauge' = stats[t].active
  /\ stats' = [stats EXCEPT ![t].active = None]
  /\ UNCHANGED <<regVars, call, freeGauge, sweep, range, told, dropped>>

SetFree(t) ==
  /\ Refreshing(t) /\ stats[t] # None /\ stats[t].active = None
  /\ freeGauge' = stats[t].free
  /\ stats' = [stats EXCEPT ![t] = None]
  /\ IF t = Sweeper
     THEN sweep' = NoSweep /\ UNCHANGED call
     ELSE call' = [call EXCEPT ![t].pc = "reply"] /\ UNCHANGED sweep
  /\ UNCHANGED <<regVars, activeGauge, range, told, dropped>>

(* The answer reaches the cloud, which remembers the latest expiry it was  *)
(* told of for a lease, or is lost.                                        *)
Later(id, l) ==
  IF told[l.token] # None /\ told[l.token].expires > l.expires
  THEN told[l.token] ELSE [id |-> id, port |-> l.port, expires |-> l.expires]

Deliver(h) ==
  LET l == call[h].seen IN
  /\ call[h].pc = "reply"
  /\ call' = [call EXCEPT ![h] = Idle]
  /\ told' = IF l = None THEN told
             ELSE [told EXCEPT ![l.token] = Later(call[h].id, l)]
  /\ UNCHANGED <<regVars, stats, activeGauge, freeGauge, sweep, range, dropped>>

Lose(h) ==
  /\ call[h].pc = "reply"
  /\ call' = [call EXCEPT ![h] = Idle]
  /\ UNCHANGED <<regVars, stats, activeGauge, freeGauge, sweep, range, told,
                 dropped>>

-----------------------------------------------------------------------------
(* SweepExpired. *)

SweepStart ==
  /\ sweep.pc = "idle"
  /\ sweep' = [pc |-> "each", cutoff |-> now, reaped |-> 0,
               todo |-> {id \in Active : Expired(leases[id], now)}]
  /\ UNCHANGED <<regVars, call, stats, activeGauge, freeGauge, range, told,
                 dropped>>

(* Mutant: the snapshot is trusted. *)
StillListed(id) == leases[id] # None

StillExpired(id) == leases[id] # None /\ Expired(leases[id], sweep.cutoff)

(* MarkExpiredIfBefore; a failed delete leaves the lease to a later sweep. *)
SweepOne(id) ==
  /\ sweep.pc = "each" /\ id \in sweep.todo
  /\ \/ /\ StillExpired(id) /\ Revoke(id)
        /\ sweep' = [sweep EXCEPT !.todo = @ \ {id}, !.reaped = @ + 1]
     \/ /\ UNCHANGED regVars
        /\ sweep' = [sweep EXCEPT !.todo = @ \ {id}]
  /\ UNCHANGED <<call, stats, activeGauge, freeGauge, range, told, dropped>>

SweepDone ==
  /\ sweep.pc = "each" /\ sweep.todo = {}
  /\ sweep' = IF sweep.reaped > 0 THEN [NoSweep EXCEPT !.pc = "refresh"]
              ELSE NoSweep
  /\ UNCHANGED <<regVars, call, stats, activeGauge, freeGauge, range, told,
                 dropped>>

-----------------------------------------------------------------------------
(* The process ends and starts again on range r: NewCoordinator sets the   *)
(* gauges from the store it opened before anything else can change it.     *)
Restart(r) ==
  /\ Reopen(r)
  /\ range' = r
  /\ call' = [h \in Calls |-> Idle] /\ stats' = [t \in Tasks |-> None]
  /\ sweep' = NoSweep
  /\ activeGauge' = Cardinality({id \in LeaseIds : leases'[id] # None})
  /\ freeGauge' = Cardinality((r.min .. r.max) \ PortsOf(leases'))
  /\ dropped' = dropped \cup
       {leases[id].token : id \in {i \in Active : leases[i].port \notin r.min .. r.max}}
  /\ UNCHANGED told

Clock == Tick /\ UNCHANGED <<taskVars, range, told, dropped>>

Ask(h) ==
  \/ Refuse(h)
  \/ \E id \in LeaseIds, s \in Seconds :
       \/ \E cidrs \in BOOLEAN : handleCreate(h, id, s, cidrs)
       \/ handleExtend(h, id, s)
  \/ \E id \in LeaseIds : handleRevoke(h, id) \/ handleGet(h, id)

Refresh(t) == ReadStats(t) \/ SetActive(t) \/ SetFree(t)

Sweeping == SweepStart \/ (\E id \in LeaseIds : SweepOne(id)) \/ SweepDone

Next ==
  \/ \E h \in Calls : Ask(h) \/ Readyz(h) \/ Deliver(h) \/ Lose(h)
  \/ \E t \in Tasks : Refresh(t)
  \/ Sweeping
  \/ \E r \in Ranges : Restart(r)
  \/ Clock

Spec == Init /\ [][Next]_vars

(* Handlers and the sweeper run; readyz is polled again and again. *)
FairSpec ==
  /\ Spec
  /\ \A h \in Calls : WF_vars(Deliver(h) \/ Lose(h))
  /\ \A t \in Tasks : WF_vars(Refresh(t))
  /\ WF_vars(Sweeping)
  /\ SF_vars(\E h \in Calls : Readyz(h))

-----------------------------------------------------------------------------
(* The types; a sweep's cutoff is never ahead of the clock. *)
TypeOK ==
  /\ leases \in [LeaseIds -> Lease \cup {None}]
  /\ minted \in Nat /\ now \in Nat /\ range \in Ranges
  /\ DOMAIN call = Calls /\ DOMAIN told = Tokens
  /\ \A h \in Calls : DOMAIN call[h] = {"pc", "id", "seen", "status"}
  /\ DOMAIN sweep = {"pc", "cutoff", "todo", "reaped"}
  /\ sweep.pc = "each" => sweep.cutoff \in Nat /\ sweep.cutoff <= now

(* What the cloud has been told it can rely on: a lease reported with an   *)
(* expiry still to come is there, with its port and at least that expiry,  *)
(* whatever retries, sweeps and restarts came between, unless it was       *)
(* revoked or a restart narrowed the range.                                *)
PromiseKept ==
  \A t \in Tokens :
    (told[t] # None /\ now < told[t].expires /\ t \notin dropped) =>
      /\ leases[told[t].id] # None
      /\ leases[told[t].id].token = t
      /\ leases[told[t].id].port = told[t].port
      /\ leases[told[t].id].expires >= told[t].expires

GaugesExact == activeGauge = Stats.active /\ freeGauge = Stats.free

(* Two refreshes may set the gauges in the other order than they read the  *)
(* store.  If readyz is polled, the gauges are right in the end unless the *)
(* leases never stop changing.                                             *)
GaugesCatchUp == <>[]GaugesExact \/ []<><<leases' # leases>>_vars
=============================================================================
