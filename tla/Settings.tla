------------------------------ MODULE Settings ------------------------------
(***************************************************************************)
(* The numbers of both daemons' configurations (tunnel/config/config.go    *)
(* and internal/config/config.go, Load) and what is computed from them:    *)
(* the duration and the expiry of a lease (coordinator.go, clampDuration;  *)
(* lease/store.go), the timeout of an egress request (transport/client.go, *)
(* Do), and the limits on the encoded request (server/handlers.go,         *)
(* decodeLimitedJSON) and on the response (buildResponse), all in words of *)
(* a fixed width.  The other modules about leases count in whole seconds   *)
(* and never wrap; SoldTimeKept says when that is right.                   *)
(*                                                                         *)
(* Load also refuses tokens, host names and addresses to listen on; no     *)
(* number depends on those.  A refused configuration ends the process      *)
(* before it has done anything.  The daemons share nothing: a behaviour    *)
(* looks at one process at a time.  A lease outlives the process that sold *)
(* it, so it may be extended under another configuration.                  *)
(***************************************************************************)
EXTENDS Words

CONSTANTS
  MaxPort,                              \* 65535
  Overhead,                             \* 4096, for the JSON around a body
  LimitGiven,                           \* numbers for ports and limits,
  LeaseGiven, EgressGiven,              \* for lease bounds, for the egress
  Lengths,                              \* lengths of requests and responses
  DefMin, DefMax, DefWindow,            \* the built-in settings of the tunnel
  DefAttempts, DefVisitors,
  DefDefault, DefMaximum, DefBytes,     \* and of the egress daemon
  MaxSales,                             \* bound: sales of one lease
  None

ASSUME SettingsAssumption ==
  /\ MaxPort \in 1 .. MaxInt /\ Overhead \in 1 .. MaxInt - 1
  /\ LimitGiven \cup LeaseGiven \cup EgressGiven \subseteq Int
  /\ Lengths \subseteq Nat /\ MaxSales \in Nat
  /\ {DefMin, DefMax, DefWindow, DefAttempts, DefVisitors} \subseteq Word
  /\ {DefDefault, DefMaximum, DefBytes} \subseteq Word

VARIABLES
  tunnel,   \* the Config of the tunnel daemon, None while it does not run
  egress,   \* the Config of the egress daemon
  lease,    \* a lease in the database, or None
  last      \* the last computation for a request: its input and its result

vars == <<tunnel, egress, lease, last>>

(* expires is ExpiresAt, counted in units from CreatedAt.  The others are  *)
(* history: the sales so far, the seconds they come to, and whether the    *)
(* upper bound was a duration at each of them.                             *)
Leases == [expires : Int, sales : Nat, sold : Int, exact : BOOLEAN]
Unsold == [expires |-> 0, sales |-> 0, sold |-> 0, exact |-> TRUE]

ASSUME SettingsNoneAssumption == None \notin Leases

(* What the environment gives for each setting, and what Load makes of it. *)
TunnelEnvs ==
  [lo : LimitGiven, hi : LimitGiven, min : LeaseGiven, max : LeaseGiven,
   visitors : LimitGiven, attempts : LimitGiven, window : LimitGiven]

TunnelConfigs ==
  [lo : Word, hi : Word, min : Word, max : Word, visitors : Word,
   attempts : Word, window : Word]

EgressEnvs ==
  [default : EgressGiven, maximum : EgressGiven, request : EgressGiven,
   response : EgressGiven]

EgressConfigs == [default : Word, maximum : Word, request : Word, response : Word]

Init == tunnel = None /\ egress = None /\ lease = None /\ last = None

-----------------------------------------------------------------------------
(* The tunnel daemon. *)

parsePortRange(lo, hi) == lo >= 1 /\ hi <= MaxPort /\ lo <= hi

TunnelConfig(e) ==
  [lo |-> e.lo, hi |-> e.hi,
   min |-> getenvInt(e.min, DefMin), max |-> getenvInt(e.max, DefMax),
   visitors |-> getenvInt(e.visitors, DefVisitors),
   attempts |-> getenvInt(e.attempts, DefAttempts),
   window |-> Duration(getenvInt(e.window, DefWindow))]

ValidTunnel(c) ==
  /\ parsePortRange(c.lo, c.hi)
  /\ c.min > 0 /\ c.max >= c.min
  /\ c.visitors > 0
  /\ c.attempts > 0 /\ c.window > 0

LoadTunnel(e) ==
  /\ ValidTunnel(TunnelConfig(e))
  /\ tunnel' = TunnelConfig(e)
  /\ UNCHANGED <<egress, lease, last>>

(* Mutant: the product is clamped, after it may have wrapped. *)
ClampProduct(seconds) ==
  LET d == Duration(seconds) IN
  IF d < Duration(tunnel.min) THEN Duration(tunnel.min)
  ELSE IF d > Duration(tunnel.max) THEN Duration(tunnel.max) ELSE d

clampDuration(seconds) ==
  Duration(IF seconds < tunnel.min THEN tunnel.min
           ELSE IF seconds > tunnel.max THEN tunnel.max ELSE seconds)

(* The bounds are durations: then so is all between them.  Load does not   *)
(* require it.                                                             *)
MaxIsDuration == tunnel.max * Second <= MaxInt

(* The seconds that are sold to whoever asks for these many. *)
Within(seconds) ==
  IF seconds \in tunnel.min .. tunnel.max THEN seconds
  ELSE IF seconds < tunnel.min THEN tunnel.min ELSE tunnel.max

(* Mutant: an extension counts from the creation. *)
Restarted(l, d) == d

(* time.Now().Add(d) of Create and ExpiresAt.Add(d) of Extend. *)
Prolonged(l, d) == l.expires + d

(* CreateLease or ExtendLease; the handlers refuse seconds <= 0.  A create *)
(* of a lease that exists, and a sale that the store cannot write, change  *)
(* nothing and are left out.                                               *)
Lend(seconds) ==
  /\ tunnel # None /\ seconds \in Word /\ seconds > 0
  /\ LET l == IF lease = None THEN Unsold ELSE lease
         d == clampDuration(seconds)
     IN  /\ l.sales < MaxSales
         /\ lease' = [expires |-> Prolonged(l, d), sales |-> l.sales + 1,
                      sold |-> l.sold + Within(seconds),
                      exact |-> l.exact /\ MaxIsDuration]
         /\ last' = [of |-> "lease", in |-> seconds, out |-> d]
  /\ UNCHANGED <<tunnel, egress>>

(* RevokeLease, or the sweep once the lease has expired. *)
Remove ==
  /\ tunnel # None /\ lease # None
  /\ lease' = None
  /\ UNCHANGED <<tunnel, egress, last>>

-----------------------------------------------------------------------------
(* The egress daemon. *)

EgressConfig(e) ==
  [default  |-> Duration(getenvInt(e.default, DefDefault)),
   maximum  |-> Duration(getenvInt(e.maximum, DefMaximum)),
   request  |-> getenvInt(e.request, DefBytes),
   response |-> getenvInt(e.response, DefBytes)]

ValidEgress(c) ==
  /\ c.request > 0 /\ c.response > 0
  /\ c.maximum > 0 /\ c.default > 0 /\ c.default <= c.maximum

LoadEgress(e) ==
  /\ ValidEgress(EgressConfig(e))
  /\ egress' = EgressConfig(e)
  /\ UNCHANGED <<tunnel, lease, last>>

(* Mutant: a request's own timeout is not compared with the maximum. *)
timeoutUncapped(seconds) == IF seconds > 0 THEN Duration(seconds) ELSE egress.default

(* The product is compared after it may have wrapped. *)
timeout(seconds) ==
  LET t == IF seconds > 0 THEN Duration(seconds) ELSE egress.default
  IN  IF t > egress.maximum THEN egress.maximum ELSE t

Timeout(seconds) ==
  /\ egress # None /\ seconds \in Word
  /\ last' = [of |-> "timeout", in |-> seconds, out |-> timeout(seconds)]
  /\ UNCHANGED <<tunnel, egress, lease>>

(* Mutant: the reader stops at the limit, so nothing ever exceeds it. *)
readNoMore(n, limit) == IF limit <= 0 THEN 0 ELSE IF n > limit THEN limit ELSE n

(* ReadAll of a LimitReader of limit + 1; a reader of less than one byte   *)
(* is at its end at once.                                                  *)
readLimited(n, limit) ==
  LET most == Wrap(limit + 1) IN
  IF most <= 0 THEN 0 ELSE IF n > most THEN most ELSE n

(* decodeLimitedJSON of n bytes; nothing read is no JSON either. *)
Decode(n) ==
  /\ egress # None /\ n > 0
  /\ LET limit == Wrap(egress.request + Overhead)
         got == readLimited(n, limit)
     IN  last' = [of |-> "request", in |-> n, out |-> 0 < got /\ got <= limit]
  /\ UNCHANGED <<tunnel, egress, lease>>

(* buildResponse of n bytes. *)
Build(n) ==
  /\ egress # None
  /\ LET got == readLimited(n, egress.response)
         truncated == got > egress.response
     IN  last' = [of |-> "response", in |-> n, truncated |-> truncated,
                  out |-> IF truncated THEN egress.response ELSE got]
  /\ UNCHANGED <<tunnel, egress, lease>>

-----------------------------------------------------------------------------
Stopped == tunnel = None /\ egress = None

Stop ==
  /\ ~Stopped
  /\ tunnel' = None /\ egress' = None /\ last' = None
  /\ UNCHANGED lease

Next ==
  \/ Stopped /\ \E e \in TunnelEnvs : LoadTunnel(e)
  \/ \E s \in LeaseGiven : Lend(s)
  \/ Remove
  \/ Stopped /\ lease = None /\ \E e \in EgressEnvs : LoadEgress(e)
  \/ \E s \in EgressGiven : Timeout(s)
  \/ \E n \in Lengths : Decode(n) \/ Build(n)
  \/ Stop

Spec == Init /\ [][Next]_vars

Last(what) == last # None /\ last.of = what

-----------------------------------------------------------------------------
TypeOK ==
  /\ tunnel \in TunnelConfigs \cup {None} /\ egress \in EgressConfigs \cup {None}
  /\ lease \in Leases \cup {None}
  /\ (Last("lease") \/ Last("timeout")) => last.out \in Word
  /\ Last("response") => last.out \in Nat

(* "pushes a lease's expiry out by the (clamped) duration": the lifetime   *)
(* of a lease is the seconds sold, and each sale adds one at least, as     *)
(* Leases assumes of Durations.  It does not matter how often the lease is *)
(* extended, nor under which configurations.  Excluded are leases that     *)
(* were sold under a MaxLeaseSeconds whose product wraps: Load accepts it, *)
(* and a grant may then be negative and move the expiry back.              *)
SoldTimeKept ==
  (lease # None /\ lease.exact) =>
    lease.expires = lease.sold * Second /\ lease.sold >= lease.sales

(* "clamping duration to the configured bounds": if MaxLeaseSeconds is a   *)
(* duration at all, then no request, however large its number, makes a     *)
(* product wrap, and what is granted is the nearest duration within the    *)
(* bounds.                                                                 *)
GrantClamped ==
  (Last("lease") /\ MaxIsDuration) =>
    /\ last.in < tunnel.min => last.out = tunnel.min * Second
    /\ last.in > tunnel.max => last.out = tunnel.max * Second
    /\ last.in \in tunnel.min .. tunnel.max => last.out = last.in * Second

(* No request gets more than MaxTimeout, whatever its number of seconds    *)
(* does when it is multiplied; one whose product fits gets what it asked   *)
(* for, up to that maximum.                                                *)
TimeoutInForce ==
  Last("timeout") =>
    /\ last.out <= egress.maximum
    /\ (last.in > 0 /\ last.in * Second <= MaxInt) =>
         last.out \in {last.in * Second, egress.maximum} /\ last.out <= last.in * Second
    /\ last.in <= 0 => last.out = egress.default

(* With limits that leave room for the byte more that is read, a request   *)
(* is refused exactly when it is too long and a response marked exactly    *)
(* when it was cut.                                                        *)
LimitsExact ==
  /\ (Last("request") /\ egress.request + Overhead < MaxInt) =>
       (last.out <=> last.in <= egress.request + Overhead)
  /\ (Last("response") /\ egress.response < MaxInt) =>
       /\ last.truncated <=> last.in > egress.response
       /\ last.out = IF last.truncated THEN egress.response ELSE last.in
=============================================================================
