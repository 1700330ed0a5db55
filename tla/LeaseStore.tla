----------------------------- MODULE LeaseStore -----------------------------
(***************************************************************************)
(* The lease store: internal/tunnel/lease/store.go and allocator.go.       *)
(*                                                                         *)
(* A lease lives twice: as a row of the bbolt file (db), which survives a  *)
(* crash, and in memory (byID, byToken and the allocator's used and next), *)
(* which does not.  Every mutation runs under Store.mu and in one order:   *)
(* the row is committed, then memory follows.  The two halves are separate *)
(* steps here, because the process may die between them; crit is the       *)
(* mutation whose row is committed and whose memory half is still to come, *)
(* and while it is set Store.mu is held and no other call can start.       *)
(* A bbolt transaction commits entirely or fails without effect.           *)
(***************************************************************************)
EXTENDS Leases, FiniteSets

VARIABLES
  up,         \* the process runs and Open has returned
  portRange,  \* the range this process was started with
  byID,       \* lease id -> lease, or None
  byToken,    \* token -> id of the lease it points to, or None
  used,       \* alloc.used
  next,       \* alloc.next
  db,         \* lease id -> persisted row, or None
  crit,       \* the half-done mutation, or None
  reply,      \* what the last finished call told its caller
  minted,     \* tokens minted so far
  now         \* time.Now()

memVars == <<up, portRange, byID, byToken, used, next>>
vars == <<memVars, db, crit, reply, minted, now>>

Critical == [op : {"create", "extend", "remove"}, id : LeaseIds, lease : Lease]
Results == {"ok", "invalid", "exhausted", "notfound", "failed", "kept"}
Replies == [id : LeaseIds, result : Results, lease : Lease \cup {None}]

ASSUME StoreNoneAssumption == None \notin Critical \cup Replies

Answer(id, result, l) == [id |-> id, result |-> result, lease |-> l]
NoLeases == [id \in LeaseIds |-> None]
NoTokens == [t \in Tokens |-> None]
Idle == up /\ crit = None     \* Store.mu is free
InRange(p, r) == p \in r.min .. r.max

Init ==
  /\ up = FALSE
  /\ portRange \in Ranges
  /\ byID = NoLeases /\ byToken = NoTokens
  /\ used = {} /\ next = portRange.min
  /\ db = NoLeases
  /\ crit = None /\ reply = None
  /\ minted = 0 /\ now = 0

-----------------------------------------------------------------------------
(* The port allocator. *)

(* a.next++ with the wrap at a.max. *)
After(p) == IF p + 1 > portRange.max THEN portRange.min ELSE p + 1

Span == portRange.max - portRange.min + 1

(* The port probed in iteration i: the i-th one from next, round the range. *)
Candidate(i) == IF next + i > portRange.max THEN next + i - Span ELSE next + i

Free(p, busy) == p \notin used /\ p \notin busy

(* Mutant of allocate: the loop runs one iteration short. *)
allocateShort(busy) ==
  {Candidate(i) : i \in {j \in 0 .. Span - 2 :
                           /\ Free(Candidate(j), busy)
                           /\ \A k \in 0 .. j - 1 : ~Free(Candidate(k), busy)}}

(* The port allocate returns when the ports of busy are bound by some      *)
(* listener: the first free candidate, as a set of at most one port.       *)
allocate(busy) ==
  {Candidate(i) : i \in {j \in 0 .. Span - 1 :
                           /\ Free(Candidate(j), busy)
                           /\ \A k \in 0 .. j - 1 : ~Free(Candidate(k), busy)}}

free == Span - Cardinality(used)

-----------------------------------------------------------------------------
(* Create. *)

CreateExisting(id) ==
  /\ Idle /\ byID[id] # None
  /\ reply' = Answer(id, "ok", byID[id])
  /\ UNCHANGED <<memVars, db, crit, minted, now>>

(* A malformed allowlist entry. *)
CreateInvalid(id) ==
  /\ Idle /\ byID[id] = None
  /\ reply' = Answer(id, "invalid", None)
  /\ UNCHANGED <<memVars, db, crit, minted, now>>

(* Every port probed and none free; next has gone all the way round. *)
CreateExhausted(id, busy) ==
  /\ Idle /\ byID[id] = None
  /\ allocate(busy) = {}
  /\ reply' = Answer(id, "exhausted", None)
  /\ UNCHANGED <<memVars, db, crit, minted, now>>

(* Mutant of CreateAborted: the port is not given back. *)
CreateAbortedLeak(id, busy) ==
  /\ Idle /\ byID[id] = None
  /\ \E p \in allocate(busy) : used' = used \cup {p} /\ next' = After(p)
  /\ reply' = Answer(id, "failed", None)
  /\ UNCHANGED <<up, portRange, byID, byToken, db, crit, minted, now>>

(* Mutant of CreateAborted: the error of persist is ignored. *)
CreateUnpersisted(id, busy) ==
  /\ Idle /\ byID[id] = None
  /\ minted < MaxMints
  /\ minted' = minted + 1
  /\ \E p \in allocate(busy) :
       LET l == [token |-> minted + 1, port |-> p, expires |-> now]
       IN  /\ used' = used \cup {p} /\ next' = After(p)
           /\ byID' = [byID EXCEPT ![id] = l]
           /\ byToken' = [byToken EXCEPT ![l.token] = id]
           /\ reply' = Answer(id, "ok", l)
  /\ UNCHANGED <<up, portRange, db, crit, now>>

(* mintToken or persist failed: the port goes back, next stays advanced. *)
CreateAborted(id, busy) ==
  /\ Idle /\ byID[id] = None
  /\ \E p \in allocate(busy) :
       /\ used' = (used \cup {p}) \ {p}
       /\ next' = After(p)
  /\ reply' = Answer(id, "failed", None)
  /\ UNCHANGED <<up, portRange, byID, byToken, db, crit, minted, now>>

(* Mutant of CreateCommit: the lookup of an existing lease is missing. *)
CreateAgain(id, d, busy) ==
  /\ Idle
  /\ minted < MaxMints
  /\ minted' = minted + 1
  /\ \E p \in allocate(busy) :
       LET l == [token |-> minted + 1, port |-> p, expires |-> now + d]
       IN  /\ used' = used \cup {p} /\ next' = After(p)
           /\ db' = [db EXCEPT ![id] = l]
           /\ crit' = [op |-> "create", id |-> id, lease |-> l]
  /\ UNCHANGED <<up, portRange, byID, byToken, reply, now>>

(* Mutant of CreateCommit: the allocator does not record the port. *)
CreateUnreserved(id, d, busy) ==
  /\ Idle /\ byID[id] = None
  /\ minted < MaxMints
  /\ minted' = minted + 1
  /\ \E p \in allocate(busy) :
       LET l == [token |-> minted + 1, port |-> p, expires |-> now + d]
       IN  /\ next' = After(p)
           /\ db' = [db EXCEPT ![id] = l]
           /\ crit' = [op |-> "create", id |-> id, lease |-> l]
  /\ UNCHANGED <<up, portRange, byID, byToken, used, reply, now>>

CreateCommit(id, d, busy) ==
  /\ Idle /\ byID[id] = None
  /\ minted < MaxMints
  /\ minted' = minted + 1
  /\ \E p \in allocate(busy) :
       LET l == [token |-> minted + 1, port |-> p, expires |-> now + d]
       IN  /\ used' = used \cup {p}
           /\ next' = After(p)
           /\ db' = [db EXCEPT ![id] = l]
           /\ crit' = [op |-> "create", id |-> id, lease |-> l]
  /\ UNCHANGED <<up, portRange, byID, byToken, reply, now>>

CreateApply ==
  /\ up /\ crit # None /\ crit.op = "create"
  /\ byID' = [byID EXCEPT ![crit.id] = crit.lease]
  /\ byToken' = [byToken EXCEPT ![crit.lease.token] = crit.id]
  /\ crit' = None
  /\ reply' = Answer(crit.id, "ok", crit.lease)
  /\ UNCHANGED <<up, portRange, used, next, db, minted, now>>

-----------------------------------------------------------------------------
(* Extend.  The expiry counts from the old one, even one that has passed.  *)

ExtendMissing(id) ==
  /\ Idle /\ byID[id] = None
  /\ reply' = Answer(id, "notfound", None)
  /\ UNCHANGED <<memVars, db, crit, minted, now>>

ExtendAborted(id) ==
  /\ Idle /\ byID[id] # None
  /\ reply' = Answer(id, "failed", None)
  /\ UNCHANGED <<memVars, db, crit, minted, now>>

(* Mutant of ExtendCommit: a lease that has expired is extended from now. *)
ExtendFromNow(id, d) ==
  /\ Idle /\ byID[id] # None
  /\ byID[id].expires + d <= Horizon
  /\ LET start == IF Expired(byID[id], now) THEN now ELSE byID[id].expires
         updated == [byID[id] EXCEPT !.expires = start + d]
     IN  /\ db' = [db EXCEPT ![id] = updated]
         /\ crit' = [op |-> "extend", id |-> id, lease |-> updated]
  /\ UNCHANGED <<memVars, reply, minted, now>>

ExtendCommit(id, d) ==
  /\ Idle /\ byID[id] # None
  /\ byID[id].expires + d <= Horizon
  /\ LET updated == Prolonged(byID[id], d)
     IN  /\ db' = [db EXCEPT ![id] = updated]
         /\ crit' = [op |-> "extend", id |-> id, lease |-> updated]
  /\ UNCHANGED <<memVars, reply, minted, now>>

ExtendApply ==
  /\ up /\ crit # None /\ crit.op = "extend"
  /\ byID' = [byID EXCEPT ![crit.id] = [@ EXCEPT !.expires = crit.lease.expires]]
  /\ crit' = None
  /\ reply' = Answer(crit.id, "ok", byID'[crit.id])
  /\ UNCHANGED <<up, portRange, byToken, used, next, db, minted, now>>

-----------------------------------------------------------------------------
(* remove, and the calls that end in it. *)

RemoveMissing(id) ==
  /\ Idle /\ byID[id] = None
  /\ reply' = Answer(id, "notfound", None)
  /\ UNCHANGED <<memVars, db, crit, minted, now>>

(* Mutant of RemoveAborted: the port is released before the row is deleted. *)
RemoveReleaseFirst(id) ==
  /\ Idle /\ byID[id] # None
  /\ used' = used \ {byID[id].port}
  /\ reply' = Answer(id, "failed", None)
  /\ UNCHANGED <<up, portRange, byID, byToken, next, db, crit, minted, now>>

RemoveAborted(id) ==
  /\ Idle /\ byID[id] # None
  /\ reply' = Answer(id, "failed", None)
  /\ UNCHANGED <<memVars, db, crit, minted, now>>

RemoveCommit(id) ==
  /\ Idle /\ byID[id] # None
  /\ db' = [db EXCEPT ![id] = None]
  /\ crit' = [op |-> "remove", id |-> id, lease |-> byID[id]]
  /\ UNCHANGED <<memVars, reply, minted, now>>

RemoveApply ==
  /\ up /\ crit # None /\ crit.op = "remove"
  /\ byID' = [byID EXCEPT ![crit.id] = None]
  /\ byToken' = [byToken EXCEPT ![crit.lease.token] = None]
  /\ used' = used \ {crit.lease.port}
  /\ crit' = None
  /\ reply' = Answer(crit.id, "ok", None)
  /\ UNCHANGED <<up, portRange, next, db, minted, now>>

Revoke(id) == RemoveMissing(id) \/ RemoveAborted(id) \/ RemoveCommit(id)

(* l.ExpiresAt.After(cutoff): the lease was renewed since the snapshot. *)
StillExpired(id, cutoff) == byID[id] # None /\ byID[id].expires <= cutoff

(* The cutoff is a reading of the clock that may be old by now. *)
MarkExpiredIfBefore(id, cutoff) ==
  \/ /\ Idle /\ ~StillExpired(id, cutoff)
     /\ reply' = Answer(id, "kept", None)
     /\ UNCHANGED <<memVars, db, crit, minted, now>>
  \/ /\ StillExpired(id, cutoff)
     /\ RemoveAborted(id) \/ RemoveCommit(id)

-----------------------------------------------------------------------------
(* The reads. *)

Get(id) == byID[id]
ByToken(t) == IF byToken[t] = None THEN None ELSE byID[byToken[t]]
ExpiredBefore(t) == {id \in LeaseIds : byID[id] # None /\ Expired(byID[id], t)}
List == {byID[id] : id \in {i \in LeaseIds : byID[i] # None}}
Stats == [active |-> Cardinality(List), freePorts |-> free]

-----------------------------------------------------------------------------
(* The process. *)

(* A crash, a kill or an orderly shutdown: memory is gone, the file stays. *)
Crash ==
  /\ up
  /\ up' = FALSE
  /\ byID' = NoLeases /\ byToken' = NoTokens
  /\ used' = {}
  /\ crit' = None /\ reply' = None
  /\ UNCHANGED <<portRange, next, db, minted, now>>

(* The rows Open loads; it deletes the others in the same transaction.  A  *)
(* failed transaction changes nothing and the process exits.               *)
Loadable(id, r) ==
  /\ db[id] # None
  /\ ~Expired(db[id], now)
  /\ InRange(db[id].port, r)

Open(r) ==
  /\ ~up
  /\ up' = TRUE
  /\ portRange' = r
  /\ db' = [id \in LeaseIds |-> IF Loadable(id, r) THEN db[id] ELSE None]
  /\ byID' = db'
  /\ byToken' = [t \in Tokens |->
                   IF \E id \in LeaseIds : Loadable(id, r) /\ db[id].token = t
                     THEN CHOOSE id \in LeaseIds : Loadable(id, r) /\ db[id].token = t
                     ELSE None]
  /\ used' = {p \in PortsOf(db') : InRange(p, r)}
  /\ next' = r.min
  /\ UNCHANGED <<crit, reply, minted, now>>

Tick ==
  /\ now < MaxTime
  /\ now' = now + 1
  /\ UNCHANGED <<memVars, db, crit, reply, minted>>

Next ==
  \/ \E id \in LeaseIds :
       \/ CreateExisting(id)
       \/ CreateInvalid(id)
       \/ \E busy \in SUBSET Ports :
            \/ CreateExhausted(id, busy)
            \/ CreateAborted(id, busy)
            \/ \E d \in Durations : CreateCommit(id, d, busy)
       \/ ExtendMissing(id)
       \/ ExtendAborted(id)
       \/ \E d \in Durations : ExtendCommit(id, d)
       \/ Revoke(id)
       \/ \E cutoff \in 0 .. now : MarkExpiredIfBefore(id, cutoff)
  \/ CreateApply
  \/ ExtendApply
  \/ RemoveApply
  \/ Crash
  \/ \E r \in Ranges : Open(r)
  \/ Tick

Spec == Init /\ [][Next]_vars

-----------------------------------------------------------------------------
(* Types: the allocator's cursor and the ports it has reserved, in         *)
(* particular, never leave the configured range.                           *)
TypeOK ==
  /\ up \in BOOLEAN
  /\ portRange \in Ranges
  /\ byID \in [LeaseIds -> Lease \cup {None}]
  /\ byToken \in [Tokens -> LeaseIds \cup {None}]
  /\ used \subseteq portRange.min .. portRange.max
  /\ next \in portRange.min .. portRange.max
  /\ db \in [LeaseIds -> Lease \cup {None}]
  /\ crit \in Critical \cup {None}
  /\ reply \in Replies \cup {None}
  /\ minted \in 0 .. MaxMints
  /\ now \in 0 .. MaxTime

(* No two persisted leases hold one port, at any instant at which the      *)
(* process may die: Open would rehydrate both (the order of remove, and    *)
(* the release of the port on every failed path of Create).                *)
PortsExclusive ==
  \A a, b \in LeaseIds :
    db[a] # None /\ db[b] # None /\ a # b => db[a].port # db[b].port

(* Between calls the allocator has reserved the ports of the live leases   *)
(* and no others: no failed create, removal or restart leaks a port or     *)
(* frees one twice, and the free count of Stats is exact.                  *)
PortAccounting ==
  Idle => /\ used = PortsOf(byID)
          /\ Stats.active + Stats.freePorts = Span

(* The token index is the inverse of the id index: a live token finds its  *)
(* lease and a token of a removed lease finds nothing (ByToken decides SSH *)
(* authentication).                                                        *)
TokenIndex ==
  Idle => /\ \A id \in LeaseIds : Get(id) # None => ByToken(Get(id).token) = Get(id)
          /\ \A t \in Tokens : ByToken(t) # None => ByToken(t).token = t
          /\ \A t \in Tokens : byToken[t] # None => ByToken(t) # None

(* Memory never promises what a restart would take back: a lease in memory *)
(* has a row with its token and port and no earlier expiry, save the one   *)
(* whose removal is half done; between calls the two are equal.            *)
DiskBacksMemory ==
  /\ \A id \in LeaseIds : byID[id] # None =>
       \/ /\ db[id] # None
          /\ db[id].token = byID[id].token /\ db[id].port = byID[id].port
          /\ byID[id].expires <= db[id].expires
       \/ crit # None /\ crit.op = "remove" /\ crit.id = id
  /\ Idle => byID = db

(* allocate gives up only when every port of the range is reserved or      *)
(* bound, and what it returns is free: the round-robin scan misses no port *)
(* wherever its cursor stands.                                             *)
AllocateComplete ==
  up => \A busy \in SUBSET Ports :
          LET open == {p \in portRange.min .. portRange.max : Free(p, busy)}
          IN  allocate(busy) \subseteq open /\ (allocate(busy) = {} <=> open = {})

(* No two leases of a table share a port or a token. *)
Exclusive(table) ==
  \A a, b \in LeaseIds : table[a] # None /\ table[b] # None /\ a # b =>
    table[a].port # table[b].port /\ table[a].token # table[b].token

(* Where a half-done mutation stands: only its own lease differs between   *)
(* the indexes and the rows.                                               *)
MidCall ==
  crit # None =>
    /\ up
    /\ \A id \in LeaseIds : id # crit.id => byID[id] = db[id]
    /\ crit.op = "create" => byID[crit.id] = None /\ db[crit.id] = crit.lease
    /\ crit.op = "extend" =>
         /\ byID[crit.id] # None /\ db[crit.id] = crit.lease
         /\ crit.lease.token = byID[crit.id].token
         /\ crit.lease.port = byID[crit.id].port
         /\ crit.lease.expires >= byID[crit.id].expires
    /\ crit.op = "remove" => byID[crit.id] = crit.lease /\ db[crit.id] = None

(* The inductive invariant behind the safety properties above: how rows,   *)
(* indexes and allocator relate at every step of every call, through       *)
(* crashes and restarts.                                                   *)
StoreInv ==
  /\ TypeOK
  /\ MidCall
  /\ ~up => crit = None /\ byID = NoLeases
  /\ Idle => byID = db
  /\ Exclusive(byID) /\ Exclusive(db)
  /\ \A id \in LeaseIds : db[id] # None => db[id].token <= minted
  /\ up => used = PortsOf(byID) \cup PortsOf(db)
  /\ \A t \in Tokens, id \in LeaseIds :
       byToken[t] = id <=> byID[id] # None /\ byID[id].token = t

(* A persisted lease keeps its token and port for life and its expiry never *)
(* moves back, through retries of Create, extensions, crashes and restarts. *)
LeaseStable ==
  [][\A id \in LeaseIds : db[id] # None /\ db'[id] # None =>
       /\ db'[id].token = db[id].token /\ db'[id].port = db[id].port
       /\ db'[id].expires >= db[id].expires]_vars

(* Whatever lease a call reports to the cloud is on disk, as reported, at   *)
(* that moment: a crash right after the answer loses nothing the cloud was  *)
(* told.                                                                    *)
RepliesDurable ==
  [][reply' # reply /\ reply' # None /\ reply'.lease # None
       => db'[reply'.id] = reply'.lease]_vars

(* The store implements the registry: seen through its rows, it takes only  *)
(* the steps LeaseRegistry allows, in one step each.                        *)
Registry == INSTANCE LeaseRegistry WITH leases <- db
Implements == Registry!RegSpec
=============================================================================
