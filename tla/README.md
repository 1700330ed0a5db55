# Verification of hyrule-network-proxy

TLA+ models of the two daemons of this repository, the TLC configurations that
check them on small instances, and TLAPS proofs of their main properties. Paths are
relative to `src/`; `tunnel/` stands for `internal/tunnel/`.

## The system

**hyrule-tunnel-proxy**, the reverse-SSH tunnel daemon:

| part | state | operations | module |
|---|---|---|---|
| lease store, `tunnel/lease/store.go` | bbolt rows; `byID`, `byToken` | Open, Create, Extend, Revoke, MarkExpiredIfBefore, reads | `LeaseStore` |
| port allocator, `tunnel/lease/allocator.go` | `next`, `used` | allocate, reserve, release, free | `LeaseStore` |
| coordinator and sweeper, `tunnel/coordinator.go`, `cmd/hyrule-tunnel-proxy` | two gauges | CreateLease, ExtendLease, RevokeLease, SweepExpired, RefreshMetrics | `TunnelSessions`, `ControlAPI` |
| control API, `tunnel/control` | requests in flight | create, extend, revoke, get | `ControlAPI` |
| SSH connections, `tunnel/sshd/server.go` | one goroutine per connection | authentication, registration, global requests, end | `TunnelSessions` |
| forward manager, `tunnel/sshd/forward.go` | `m.leases`, each entry's `forward` | RegisterConn, StartForward, CancelForward, Teardown, OnConnClosed | `TunnelSessions` |
| visitor data path, `tunnel/sshd/forward.go` | visitor maps, visitor counter | acceptVisitors, handleVisitor, close | `VisitorForward` |
| auth limiter, `tunnel/sshd/limiter.go` | `seen`, `lastCleanup` | allow, maybeCleanup | `AuthLimiter` |
| keepalive, `tunnel/sshd/server.go` | `misses`, goroutines | keepalive, sendKeepalive | `Keepalive` |
| process, `cmd/hyrule-tunnel-proxy` | listeners, context, host key file | start, loadOrCreateHostKey, stop, shutdown | `TunnelDaemon` |
| configuration, `tunnel/config` | `Config` | Load, clampDuration | `Settings` |

**hyrule-network-proxy**, the egress sidecar: `internal/server` takes a request,
`internal/policy` judges it, and `internal/transport` performs it over direct, Tor, I2P
or Yggdrasil. It keeps no state but the idle connections of each mode's transport.
Module `EgressRequest`; the numbers of its configuration are in `Settings`.

The cloud calls the control API, which calls the coordinator. The coordinator changes
the store first and then the forward manager. SSH connections read the store to
authenticate, again to register and again to forward. The sweeper does what a revocation
does to leases that have expired. Visitors reach a forward's listener and are piped
through the SSH connection that installed it.

What makes this hard: the store and the manager have a lock each and no common one;
sockets are closed after the locks are released; a row and its copy in memory cannot
change together; lease ids are used again; and the clock, the clients, the visitors, the
resolver and crashes interleave with all of it.

## Modules

`Leases` holds the lease record and the shared constants. A token is the number of its
mint, because 160 random bits do not repeat.

`LeaseRegistry` is the abstract specification: a durable table that grants, renews
and removes one lease at a time, never two on one port, and keeps the leases that
still fit at a restart.

`LeaseStore` is the store as coded. Each mutation is a *commit* (the bbolt transaction)
and an *apply* (memory), with `crit` holding the mutation in between; a `Crash` may fall
there. Failed transactions are the `...Aborted` actions. `allocate(busy)` is the round
robin scan as the first free candidate, for any set of ports bound elsewhere. It
implements `LeaseRegistry` with `leases <- db`.

`TunnelSessions` extends `LeaseRegistry`, so it runs over what the store is proved to
implement. Each connection has a program counter through `handleConn`, each coordinator
goroutine one through RevokeLease or SweepExpired. RegisterConn and StartForward are two
steps each with `mu` held, since the store may change in between; closing a forward or a
connection is a step of its own. A connection registers once, so its leaseState is
identified with it: `table` is `m.leases`, `fwd[c]` is `st.forward != nil`, `lsn[c]` the
bound port. `Restart` is a crash or shutdown followed by Open. Disconnect stands for the
client, the network and the keepalive.

`VisitorForward` is one leaseState and its successive forwards. A handler goes through
accepted, tracked, loaded, reserved, opened, piping, release, untrack, leave; the
allowlist comes before the tracking and the deferred calls are the last three.
`forward.close` is two steps: the listener, then everything under `vmu`.

`AuthLimiter` is `allow` with the cleanup it starts with. `recent` is history and read by
properties only: the attempts of each address admitted within the last window, each with the
start of the window it was counted in and its number there.

`EgressRequest` is one request: validate, resolve, dial (or reuse), wait, redirect, read.
Hosts and addresses are classes. The resolver gives any answer each time it is asked.

`ControlAPI` also extends `LeaseRegistry`: concurrent requests, the sweeper and restarts,
with a cloud that loses answers and asks again. A handler is one step up to its call of
the store; RefreshMetrics is three, because it reads the store under a lock and sets two
gauges without one. `told` is what the cloud has been told, `dropped` what it has given up.

`Keepalive` is one connection's keepalive loop in discrete time. The requests of one
connection are answered in order, and the SSH library writes a request only after the
previous one is answered, so one late answer delays those behind it. `stale` counts the
goroutines whose keepalive has timed out. Goroutines react at once compared with the
interval.

`TunnelDaemon` is the process over any number of starts: open the store, read or make the
host key, bind four listeners from as many goroutines, and shut down. A key is the number
of its generation. Writing the key file is two steps, truncate and write, with crashes and
full disks between them. net/http's Shutdown is modelled by what its documentation
promises: it closes the listener and waits for the requests or the deadline.

`Words` has Go's integers with their width and wrap-around. `Settings` has the two `Load`
functions, as far as they concern numbers, followed by the computations that use them:
clampDuration of the tunnel and what it adds to a lease, which may be extended after a restart
under another configuration; the timeout and the two limited reads of the egress daemon.
`sales`, `sold` and `exact` of the lease are history. The other modules about leases count in
whole seconds that never wrap, and `Leases` assumes that durations are positive
(`BoundsAssumption`); `SoldTimeKept` says when that is right.

Definitions called *Mutant* are plausible bugs. No specification uses them; each shows
that a property notices the bug.

## Runs

| run | instance | checks |
|---|---|---|
| `lease_store` | 2 ids, 3 ports, ranges 1-3 and 2-3, 3 mints | `PortsExclusive`, `PortAccounting`, `AllocateComplete`, `StoreInv`, `LeaseStable`, `RepliesDurable`, `Implements` |
| `tunnel_two_leases` | 2 ids, 2 ports, 2 connections, 2 mints | `TypeOK`, `SessionBacked`, `ListenersAccounted`, `OneSession`, `BindConflictTransient`, `SweepSparesRenewed` |
| `tunnel_liveness` | 1 id, 1 port, 2 connections, 1 mint, fair | `ExpiredGoesDark`, `ReplacedHangsUp` |
| `visitors` | 2 visitors, 1 slot, 2 forwards, fair | `TypeOK`, `SlotsExact`, `CloseReachesAll`, `TeardownDrains`, `CancelEndsPipes` |
| `auth_limiter` | 3 addresses, cap 2, 2 per window of 3, cleanup every 2 | `LimiterTypes`, `BurstBounded`, `RefusalEarned`, `CapRefusalRecent` |
| `egress` | 2 redirects, limits of 1 byte, fair | `DestinationAllowed`, `NamesKeepNetwork`, `TruncationExact`, `EveryRequestAnswered` |
| `keepalive` | interval 5, answers within 3, late ones within 8, fair | `ReapedInTime`, `HealthyKept`, `KeepaliveEnds` |
| `control` | 1 id, 1 port, 2 requests, 2 mints, fair | `PromiseKept`, `GaugesCatchUp` |
| `settings` | 8-bit words, both daemons, 3 sales | `SoldTimeKept`, `GrantClamped`, `TimeoutInForce`, `LimitsExact` |
| `daemon` | 2 requests, 2 keys, fair | `KeyPersisted`, `GraceHonoured`, `StopEndsProcess` |

What each run shows:

- `lease_store`: rows, indexes and allocator stay consistent through every failed write, crash
  and restart with another range; a lease keeps its token and port; what a call reports is on
  disk; and the store implements the registry.
- `tunnel_two_leases`: no race of revocation, expiry, takeover, cancel and disconnect leaves a
  session or a listener behind, or one on another lease's port; the last connection wins; a
  refused bind is a passing one; and a renewed lease survives the sweep that listed it.
- `tunnel_liveness`: an expired lease goes dark even if its row cannot be deleted, and a
  replaced connection is closed.
- `visitors`: racing visitors never share a slot, a close reaches whoever got past the
  tracking, and every slot, socket and pipe comes back in the end.
- `auth_limiter`: the table and every burst are bounded, and an address is refused only for
  recent attempts, its own or those that fill the table.
- `egress`: through redirects, changing resolver answers and reused connections, a request
  reaches only what its mode allows, and it is answered.
- `keepalive`: a silent client is hung up within four intervals, one with the odd late answer
  never, and every goroutine ends.
- `control`: what the cloud was told of a lease stays true, and the gauges are right in the end.
- `settings`: a lease runs for the seconds sold, each sale brought within the bounds in force
  at the time, however often it is extended and under whichever configurations. This and
  `GrantClamped` exclude a `MaxLeaseSeconds` whose product wraps (`MaxIsDuration`). A timeout is
  what was asked for, up to the maximum, when its product fits; when it wraps, all that holds is
  that the maximum is not exceeded: it may be negative, or far too short. Limits are exact
  where the limit + 1 is a number.
- `daemon`: only a persisted key is served, requests get their grace period, and the process
  ends when told to.

Types are an invariant of a run where they say more than the domains of the variables. Some
simpler properties are proved for every value of the constants and not checked by a run again;
Proofs lists them.

Two runs show that a comment says more than the code does:

- `forward_after_removal`: `forward.go:227-229` says that no forward can be installed once
  the lease has left the store. The store is changed without the manager's lock, so one
  can, between StartForward's read and its bind. The Teardown that follows closes it, as
  `ListenersAccounted` shows.
- `register_after_teardown`: `forward.go:200-202` says that a connection cannot be
  registered for a torn-down lease. The re-check is by lease id. If the id is created
  again, a connection that authenticated with the old token is registered for the new
  lease.

In five more places the models show what holds instead of what a comment says:

- `limiter.go:56-57` says that whatever is in the table at the cap is within its window. The
  cleanup is skipped within five seconds of the last one, so `CapRefusalRecent` allows the
  entries that much more age.
- `coordinator.go:141` and the help of `tunnel_leases_active` say that the gauges show the
  store. Of two concurrent refreshes the one that read first may write last, and the gauges
  stay wrong until the next refresh. `GaugesCatchUp` shows that polling `/readyz` repairs them.
- `server.go:327-329` says that the host key is made on the first run. It is made whenever the
  file cannot be read (`GenerateKey`), and then replaces the old one. `KeyPersisted` holds all
  the same; that the fingerprint never changes does not.
- `coordinator.go:34` and `:52` say that a duration is brought within the configured bounds and
  that an extension pushes the expiry out. `Load` accepts a `MaxLeaseSeconds` above
  9223372036, about 292 years, whose product with a second wraps in clampDuration; a grant may
  then be negative, and an extension moves the expiry back. Every result about leases excludes
  such a maximum: `SoldTimeKept` and `GrantClamped` in their statements, `LeaseStable`,
  `PromiseKept` and the theorems on the store, the sessions and the control API by
  `BoundsAssumption`.
- `client.go:135-136` says that truncation is marked. With a limit of 2^63 - 1, which `Load`
  accepts, the limit + 1 wraps, nothing is read and nothing marked. `LimitsExact` shows that
  all smaller limits are exact.

### Bounds

Two leases are what exclusivity and port reuse need, and two mints are what recreating an
id needs. The store has three ports and two ranges, so the cursor wraps and a range is
narrowed with a row outside it. Two connections let one replace the other, while it
forwards, cancels or leaves; that takeovers in a row are safe too is proved for any number.
The limiter's window is longer than its cleanup interval, as it is by default, and there is
one address more than the cap. The egress limits let bodies be below, at and past the
limit. One slot for two visitors puts the counter at its cap while another visitor races
for it; larger numbers are covered by the proofs. `MaxMints`, `MaxTime`, `Horizon`,
`MaxGens`, `MaxKeys` and `MaxSales` bound what is unbounded in the code.

The keepalive's constants are at the edge of `Forgivable`: `HealthyKept` needs
`MaxLapse + 2 * Delay < 3 * Interval`, and 8 is the largest `MaxLapse` that satisfies it;
late answers closer together than `Spacing` could add up to three misses. Words have 8 bits
(`MaxInt` 127, a second is 10 units), so that a product of two legal numbers can wrap to
a negative or to a positive one; the numbers tried lie around every boundary. One lease id
is enough for `ControlAPI`, where the hazards are between requests about one lease.

Connections in `tunnel_two_leases` and addresses in `auth_limiter` are symmetric; no run with
a liveness property uses symmetry. `visitors` does not check deadlock: its visitors come
once, and the instance ends with the connection.

### Fairness

Goroutines keep running (weak fairness of their steps), and closing a channel or a connection
returns. `ExpiredGoesDark`, `ReplacedHangsUp` and `TeardownDrains` rely on that for `ch.Close()`:
it writes to the SSH connection, and with a client that has stopped reading it returns only once
the connection is gone. That takes the keepalive, so these three are about a daemon whose
keepalive is on (`HTP_KEEPALIVE_SECONDS` above zero, as it is by default); `ReapedInTime` shows
that such a client is hung up.

Waiting for `Manager.mu` is strongly fair: a Go mutex hands over to a starving waiter. Leaving the request loop after
the transport closed is strongly fair: only requests already buffered remain. The sweep
runs every second. Clients, visitors, the cloud, the upstream and the clock owe nothing.
A copy is sure to end only when the visitor's socket is closed here and the SSH connection
is gone. `CancelEndsPipes`, where the connection stays, therefore assumes in its statement
(`ClientAnswers`) that the client answers the close of a channel: this is about the SSH
library, which is outside the repository. In `EgressRequest` the deadline fires while
dialling, waiting or reading; the lookups of the validation and of CheckRedirect take no
context, so the resolver itself is assumed to answer or give up.

In `Keepalive` the goroutines run and time passes; no client has to answer. In
`TunnelDaemon` main runs and its timer fires; no request has to end. `GaugesCatchUp` assumes
that `/readyz` is polled again and again and gets through (strong fairness): this is about
how the daemon is operated, and the code refreshes the gauges there for that purpose.

## Proofs

Each theorem is `Spec => []P` or `Spec => [][A]_vars` for every value of the constants that
satisfies the named assumptions of the modules it extends; three theorems have a hypothesis of
their own, named below. The conjuncts of the inductive invariants were first checked with TLC.
Every safety property that a passing run checks is a theorem.

**`LeaseStoreProofs`**: `StoreInvariant`; from it `TypeCorrect`, `PortsAreExclusive`,
`MemoryIsBacked`, `TokensResolve`; the action properties `LeasesAreStable` and
`RepliesAreDurable`; and `StoreImplementsRegistry`, every step of the store is a step of the
registry or leaves the rows alone. `PortsExclusive` is not inductive: that a new row gets a
fresh port depends on the allocator having reserved every row's port, which depends on what
a half-done mutation has done so far. `StoreInv` adds this: `MidCall` says how rows and
memory differ during a call, `used` covers the ports of both, tokens in rows are below the
mint counter, and the token index is the inverse of `byID`.

`PortsAreAccounted` adds the counts of Stats to this: the ports of the leases are as many as
the leases, because the map from a lease to its port is a bijection between calls, and `used`
lies in the range. `AllocationIsComplete` is about the scan of allocate. Every port of the range
is at some distance from the cursor (`ScanMeetsEveryPort`); if a free one exists, there is a
least distance of a free one, and that is the candidate the scan returns. The least element
comes from the library's theorem on well-founded relations (`LeastElement`), so no induction is
needed.

**`TunnelProofs`**: `SessionsAreBacked`, `ListenersAreAccounted`, `OneSessionPerLease` and
`BindConflictsPass`, over the registry the store implements. A connection reads the store,
and acts on what it read a step later, when the lease may be gone. `SessionInv` says what
is left of the reading: Teardown needs `mu`, which the connection holds, so either the
lease is still there or its Teardown is still due (`BackedInv`, `BindInv`). The other
conjuncts say who owns a listener (`ForwardInv`, `ListenInv`), that an unregistered open
connection is on somebody's list to close (`OpenInv`), and that ports are exclusive
(`PortInv`).

`TunnelTypes` says that `Manager.mu` is held, and each local has a value, exactly where its code
runs; it needs `SessionInv` and four invariants of its own, one per group of variables.
`SweepsSpareRenewed` follows from one of them: the sweep's cutoff is never ahead of the clock
(`SweepInv`), so a lease that passes the recheck of MarkExpiredIfBefore has expired. Its
hypothesis is that every range the daemon is restarted with holds every port, since a restart
with a narrower range does drop leases that still run. `DaemonUsesRegistry` is the other half of
`StoreImplementsRegistry`: every step of the daemon is a step of `LeaseRegistry` or leaves the
leases alone.

**`ControlProofs`**: `PromisesKept`, `ControlTypes` and `HandlersUseRegistry`. An answer under way is a copy of a lease, and the
store only moves on from it: `AnswerInv` says for each such copy, and for what was told,
that the lease is there with the same port and no earlier expiry, unless it expired or was
given up. The sweep is harmless because it looks again. `HandlersUseRegistry` is what
`DaemonUsesRegistry` is for the sessions; its hypothesis is that the durations of the registry
include those between the minimum and the maximum of the clamp.

**`VisitorProofs`**: `SlotsAreExact`, `CloseReaches`, `AllowlistFailsClosed`, `VisitorTypes`, for
any number of visitors, slots and forwards. Whoever is past the compare-and-swap holds a slot
(`SlotInv`); whoever is past the tracking is in the map of its forward or has seen it
closed (`ReachInv`). That the map of a closed forward stays empty, which is part of
`VisitorTypes`, needs that a visitor's forward was started before it was accepted (`PlaceInv`).

**`EgressProofs`**: `DestinationsAllowed`, `NamesStay`, `RedirectsAreBounded`, `EgressTypes` and the
action property `TruncationIsExact`. `HopInv` says
that the host in hand was judged by the mode and that pooled connections lead only where
the mode allows, so a resolver that changes its answer does not matter.

**`SSHProofs`**, on `Keepalive`: `GoroutinesAreBounded`, `SilentAreReaped`, `KeepaliveTypes` and
`HealthyAreKept`. `MissInv` ties the outstanding goroutines to the misses; `SilenceInv` measures
the silence by the misses, the time to the next tick and the time left in the current keepalive.
`HealthyAreKept` has `Forgivable` as its hypothesis: prompt answers come within an interval
(`Delay < Interval`, `Delay <= MaxLapse`), a late one and the two queued behind it before the
third keepalive ends (`MaxLapse + 2 * Delay < 3 * Interval`), and late ones are two intervals
apart. Its invariant `Punctual` measures a run of misses from its first keepalive: the run
begins with a late answer, nothing is answered before that one, and afterwards each request is
written when its predecessor is answered and answered in time.

On `AuthLimiter`: `LimiterTypesHold`, `BurstsAreBounded`, `RefusalsAreEarned`,
`CapRefusalsAreRecent`, for any limits, window, cleanup interval, cap and addresses. `LimiterInv`
ties the history of each address to its entry in the table (`Logged`): windows do not overlap,
a window numbers its attempts without gaps up to `max`, and while it runs none of them has been
forgotten. Hence the attempts of the last window belong to two windows at most, and a full
counter stands for `max` of them. That a cleanup removes an entry does not matter, since it only
removes those whose window is over. `AdmissionsAreCounted` shows that the history is exact.

**`DaemonProofs`**: `ServedKeyPersisted`, `GraceIsHonoured`, `DaemonTypes`. `KeyInv` follows the key through
the partial write; `DrainInv` says, per stage of the shutdown, which listener may still have
requests.

**`SettingsProofs`**: `SalesAreKept`, `GrantsAreClamped`, `TimeoutsAreInForce`,
`LimitsAreExact` and `SettingsTypes`, for both daemons, any word size and any number of units
in a second, hence for 2^63 - 1 and 10^9. Their invariant `SettingsInv` adds what `Load` has
checked of the configuration in force (`Accepted`). If the largest product fits, so does every
product within the bounds (`ProductFits`), so a grant is the seconds sold and not their
remainder (`SaleExact`); with a minimum of at least one, every sale adds something.
`TimeoutsAreInForce` holds even if products wrap, because the code compares the product it goes
on to use. The other assumptions about numbers that come from a configuration (ports, limits,
window) are checks of `Load` themselves, so there is nothing to prove about them.

Only model-checked is liveness, which is out of the prover's reach: `ExpiredGoesDark`,
`ReplacedHangsUp`, `TeardownDrains`, `CancelEndsPipes`, `EveryRequestAnswered`, `KeepaliveEnds`,
`GaugesCatchUp` and `StopEndsProcess`. Only proved: `TypeCorrect`, `TokensResolve` and
`MemoryIsBacked` (parts of `StoreInv`, which `lease_store` checks), `ControlTypes`, `EgressTypes`,
`KeepaliveTypes`, `DaemonTypes`, `SettingsTypes`, `RedirectsAreBounded`, `AllowlistFailsClosed`,
`GoroutinesAreBounded`, `AdmissionsAreCounted`, and the two theorems on the use of the registry.

The order in which the proofs of `TunnelProofs` are cut is for the prover: the facts a step
needs are drawn from `SessionInv` first, and each leaf unfolds few definitions.

## Not modelled

- A keepalive interval of zero or less, with which there is no keepalive.
- `Load`'s checks of tokens, host names and listening addresses: they only refuse to start.
- handleList, handleHealth, `/healthz`: they only read. The wording of answers.
- STUN's `respond` and rejectChannels: each answers from its input alone.
- The backoff of the accept loops (SSH, visitors) and STUN's read loop: a failed accept is
  retried after a delay and changes nothing else.
- Counters and byte counts: nothing reads them back.
- Header filters, authentication and mode probes of the egress proxy: stateless string
  and list handling, for which a table of unit tests does as well.
- The egress daemon's `main`: it has nothing to persist.
- Concurrent egress requests: they share only the pools of idle connections, and
  `EgressRequest` lets a request find any connection there that an earlier one left.
- The difference between wall and monotonic time after a restart; there is one clock.
- The Go runtime, bbolt, net/http and the SSH library, other than by what the code relies on.

## Plan

1. `Keepalive` composed with `TunnelSessions` in place of the free `Disconnect`.
2. `ControlAPI` over the sessions of `TunnelSessions`, with the Teardown between the store and
   the answer of a revocation.
