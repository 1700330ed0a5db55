----------------------------- MODULE AuthLimiter -----------------------------
(***************************************************************************)
(* The per-source fixed-window limiter that the SSH intake's accept loop   *)
(* asks before each handshake (sshd/limiter.go, sshd/server.go Serve).     *)
(* One loop calls allow, so a call is one step.  seen[ip] is None when the *)
(* map has no entry.  recent is history, which no action reads: recent[ip] *)
(* holds the attempts of ip admitted within the length of a window, each   *)
(* named by the window it was counted in and its number there.             *)
(***************************************************************************)
EXTENDS Integers, FiniteSets

CONSTANTS
  IPs,              \* source addresses
  max,              \* attempts per window
  window,           \* length of a window
  CleanupInterval,  \* authCleanupInterval
  HardCap,          \* authHardCap
  MaxTime,          \* bound: the clock
  None

ASSUME LimiterAssumption ==
  /\ {max, window, CleanupInterval, HardCap} \subseteq Nat \ {0}
  /\ MaxTime \in Nat

Counter == [count : Nat, start : Nat]              \* windowCounter
Attempt == [start : Nat, nth : Nat, at : Nat]

ASSUME LimiterNoneAssumption == None \notin IPs /\ None \notin Counter

VARIABLES now, seen, lastCleanup, recent, reply
limiterVars == <<now, seen, lastCleanup, recent, reply>>

NoReply == [ip |-> None, ok |-> FALSE, known |-> FALSE]

LimiterInit ==
  /\ now = 0
  /\ seen = [ip \in IPs |-> None]
  /\ lastCleanup = -CleanupInterval    \* the zero time: long ago
  /\ recent = [ip \in IPs |-> {}]
  /\ reply = NoReply

Entries(table) == {ip \in IPs : table[ip] # None}
Current(w) == now - w.start <= window

(* Mutant: a cleanup that is due forgets every entry. *)
CleanupAll ==
  IF now - lastCleanup < CleanupInterval THEN seen ELSE [ip \in IPs |-> None]

(* Mutant: a cleanup that is due deletes nothing. *)
CleanupNone == seen

(* The table after maybeCleanup(now). *)
maybeCleanup ==
  IF now - lastCleanup < CleanupInterval
  THEN seen
  ELSE [ip \in IPs |-> IF seen[ip] # None /\ Current(seen[ip]) THEN seen[ip] ELSE None]

(* Mutant: the window of a known address never ends. *)
KnownAnyAge(table, ip) == table[ip] # None

(* The entry exists and its window is running. *)
InWindow(table, ip) == table[ip] # None /\ Current(table[ip])

Full(table) == Cardinality(Entries(table)) >= HardCap

(* Mutant: one attempt too many. *)
SpentLate(w) == w.count > max

Spent(w) == w.count >= max

Told(ip, table, ok) == reply' = [ip |-> ip, ok |-> ok, known |-> table[ip] # None]

(* The attempt just counted in seen' goes into the history. *)
Admit(ip) ==
  recent' = [recent EXCEPT ![ip] =
               @ \cup {[start |-> seen'[ip].start, nth |-> seen'[ip].count, at |-> now]}]

(* allow(ip): a running window counts up to max; otherwise a new one        *)
(* starts, unless that would add an address to a full table.               *)
allow(ip) ==
  LET table == maybeCleanup IN
  /\ lastCleanup' = IF now - lastCleanup < CleanupInterval THEN lastCleanup ELSE now
  /\ \/ /\ InWindow(table, ip) /\ Spent(table[ip])
        /\ seen' = table /\ Told(ip, table, FALSE) /\ UNCHANGED recent
     \/ /\ InWindow(table, ip) /\ ~Spent(table[ip])
        /\ seen' = [table EXCEPT ![ip].count = @ + 1]
        /\ Told(ip, table, TRUE) /\ Admit(ip)
     \/ /\ ~InWindow(table, ip) /\ table[ip] = None /\ Full(table)
        /\ seen' = table /\ Told(ip, table, FALSE) /\ UNCHANGED recent
     \/ /\ ~InWindow(table, ip) /\ (table[ip] # None \/ ~Full(table))
        /\ seen' = [table EXCEPT ![ip] = [count |-> 1, start |-> now]]
        /\ Told(ip, table, TRUE) /\ Admit(ip)
  /\ UNCHANGED now

Tick ==
  /\ now < MaxTime
  /\ now' = now + 1
  /\ recent' = [ip \in IPs |-> {e \in recent[ip] : now' - e.at <= window}]
  /\ reply' = NoReply
  /\ UNCHANGED <<seen, lastCleanup>>

LimiterNext == (\E ip \in IPs : allow(ip)) \/ Tick
LimiterSpec == LimiterInit /\ [][LimiterNext]_limiterVars

-----------------------------------------------------------------------------
(* The types; a counter never passes max, an admitted address has one, and *)
(* the table never outgrows the cap, however many addresses call within    *)
(* one cleanup interval.                                                   *)
LimiterTypes ==
  /\ now \in 0 .. MaxTime
  /\ seen \in [IPs -> [count : 1 .. max, start : 0 .. now] \cup {None}]
  /\ lastCleanup \in -CleanupInterval .. now
  /\ recent \in [IPs -> SUBSET Attempt]
  /\ reply.ok => seen[reply.ip] # None
  /\ Cardinality(Entries(seen)) <= HardCap

Admitted(ip) == Cardinality(recent[ip])

(* No stretch of time as long as a window sees more than twice max         *)
(* handshakes of one address: the most a fixed window can let through, at  *)
(* the end of one and the start of the next, with cleanups in between.     *)
BurstBounded == \A ip \in IPs : Admitted(ip) <= 2 * max

(* An address that the table knows is refused only when max attempts of    *)
(* its own were admitted within the last window: no refusal outlives it.   *)
RefusalEarned ==
  reply.ip # None /\ ~reply.ok /\ reply.known => Admitted(reply.ip) >= max

(* An unknown address is refused at the cap only because of addresses      *)
(* heard of lately: what fills the table may have outlived its window, but *)
(* by less than the interval in which maybeCleanup does not scan.          *)
CapRefusalRecent ==
  reply.ip # None /\ ~reply.ok /\ ~reply.known =>
    \A ip \in Entries(seen) : now - seen[ip].start < window + CleanupInterval
=============================================================================
