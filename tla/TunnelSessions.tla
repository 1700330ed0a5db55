--------------------------- MODULE TunnelSessions ---------------------------
(***************************************************************************)
(* The running tunnel daemon: the SSH connections (sshd/server.go), the    *)
(* forward manager (sshd/forward.go) and the coordinator (coordinator.go)  *)
(* over the lease store, which appears here as the LeaseRegistry that      *)
(* LeaseStore is proved to implement.                                      *)
(*                                                                         *)
(* Two locks matter.  The store's own lock makes each store call atomic.   *)
(* The manager's lock (Manager.mu) guards m.leases and the forward of each *)
(* entry; StartForward and RegisterConn read the store while they hold it, *)
(* but the store can change under them, so each is two steps with mu held  *)
(* in between.  Closing listeners and connections always happens after mu  *)
(* is released, as steps of their own.                                     *)
(*                                                                         *)
(* A connection registers at most once and every registration makes a      *)
(* fresh leaseState, so the leaseState is identified with its connection:  *)
(* m.leases maps a lease id to a connection, fwd[c] says that st.forward   *)
(* is not nil, and lsn[c] is the port its listener has bound.              *)
(***************************************************************************)
EXTENDS LeaseRegistry

CONSTANTS
  Conns,      \* SSH connections of a behaviour, each used once
  Callers,    \* goroutines that serve a DELETE of the control API
  Sweeper     \* the goroutine of runSweeper

ASSUME TunnelAssumption == None \notin Conns \cup Ports

(* The lease a connection logs in for, and the token it presents. *)
Credential == [id : LeaseIds, token : Tokens]

ASSUME CredentialAssumption == None \notin Credential

Tasks == Callers \cup {Sweeper}

VARIABLES
  pc,       \* where each connection's handleConn stands
  who,      \* the lease id and token a connection authenticated with
  open,     \* the transport of the connection is open
  table,    \* m.leases
  fwd,      \* st.forward # nil
  lsn,      \* port bound by the connection's data listener, or None
  old,      \* the local old of RegisterConn
  want,     \* the port of the lease copy in StartForward
  mu,       \* the connection that holds Manager.mu between two steps
  task,     \* where each coordinator goroutine stands
  job,      \* the lease id it tears down
  victim,   \* the leaseState Teardown took out of m.leases
  cutoff,   \* the sweep's reading of the clock
  todo      \* the ids of the sweep's snapshot still to visit

connVars == <<pc, who, open, table, fwd, lsn, old, want, mu>>
taskVars == <<task, job, victim, cutoff, todo>>
vars == <<regVars, connVars, taskVars>>

Stages == {"new", "authed", "checked", "registering", "evictForward", "evictConn",
           "serving", "binding", "cancelling", "leaving", "dropping", "done"}
TaskStages == {"idle", "sweeping", "teardown", "closeForward", "closeConn"}

LeaseLive(id) == leases[id] # None /\ ~Expired(leases[id], now)
Id(c) == who[c].id
Registered(c) == table[Id(c)] = c
Bound == {lsn[c] : c \in Conns} \ {None}

Init ==
  /\ RegInit
  /\ pc = [c \in Conns |-> "new"] /\ who = [c \in Conns |-> None]
  /\ open = [c \in Conns |-> FALSE]
  /\ table = [id \in LeaseIds |-> None]
  /\ fwd = [c \in Conns |-> FALSE] /\ lsn = [c \in Conns |-> None]
  /\ old = [c \in Conns |-> None] /\ want = [c \in Conns |-> None]
  /\ mu = None
  /\ task = [k \in Tasks |-> "idle"] /\ job = [k \in Tasks |-> None]
  /\ victim = [k \in Tasks |-> None]
  /\ cutoff = 0 /\ todo = {}

Goto(c, stage) == pc' = [pc EXCEPT ![c] = stage]
Hangup(c) == open' = [open EXCEPT ![c] = FALSE]

(* f.close() on the forward of c, where the caller found one. *)
CloseForward(c) == lsn' = [lsn EXCEPT ![c] = IF fwd[c] THEN None ELSE @]

-----------------------------------------------------------------------------
(* handleConn up to the registration. *)

(* The handshake succeeds for the token of a live lease. *)
Authenticate(c, id) ==
  /\ pc[c] = "new"
  /\ LeaseLive(id)
  /\ who' = [who EXCEPT ![c] = [id |-> id, token |-> leases[id].token]]
  /\ open' = [open EXCEPT ![c] = TRUE]
  /\ Goto(c, "authed")
  /\ UNCHANGED <<regVars, table, fwd, lsn, old, want, mu, taskVars>>

Refuse(c) == Hangup(c) /\ Goto(c, "done") /\ UNCHANGED mu

CheckLease(c) ==
  /\ pc[c] = "authed"
  /\ \/ ~LeaseLive(Id(c)) /\ Refuse(c)
     \/ LeaseLive(Id(c)) /\ Goto(c, "checked") /\ UNCHANGED <<open, mu>>
  /\ UNCHANGED <<regVars, who, table, fwd, lsn, old, want, taskVars>>

(* Mutant of RegisterCheck: the store is not read again under mu. *)
RegisterNoRecheck(c) ==
  /\ pc[c] = "checked" /\ mu = None
  /\ mu' = c /\ Goto(c, "registering")
  /\ UNCHANGED <<regVars, who, open, table, fwd, lsn, old, want, taskVars>>

(* RegisterConn takes mu and reads the store ... *)
RegisterCheck(c) ==
  /\ pc[c] = "checked" /\ mu = None
  /\ \/ ~LeaseLive(Id(c)) /\ Refuse(c)
     \/ LeaseLive(Id(c)) /\ mu' = c /\ Goto(c, "registering") /\ UNCHANGED open
  /\ UNCHANGED <<regVars, who, table, fwd, lsn, old, want, taskVars>>

(* Mutant of RegisterInstall: mu is never released. *)
RegisterNoUnlock(c) ==
  /\ pc[c] = "registering"
  /\ old' = [old EXCEPT ![c] = table[Id(c)]]
  /\ table' = [table EXCEPT ![Id(c)] = c]
  /\ Goto(c, IF table[Id(c)] = None THEN "serving" ELSE "evictForward")
  /\ UNCHANGED <<regVars, who, open, fwd, lsn, want, mu, taskVars>>

(* ... replaces the entry and releases mu ... *)
RegisterInstall(c) ==
  /\ pc[c] = "registering"
  /\ old' = [old EXCEPT ![c] = table[Id(c)]]
  /\ table' = [table EXCEPT ![Id(c)] = c]
  /\ mu' = None
  /\ Goto(c, IF table[Id(c)] = None THEN "serving" ELSE "evictForward")
  /\ UNCHANGED <<regVars, who, open, fwd, lsn, want, taskVars>>

(* ... then closes what it replaced. *)
EvictForward(c) ==
  /\ pc[c] = "evictForward"
  /\ CloseForward(old[c])
  /\ Goto(c, "evictConn")
  /\ UNCHANGED <<regVars, who, open, table, fwd, old, want, mu, taskVars>>

(* Mutant of EvictConn: the replaced connection is left open. *)
EvictKeepsConn(c) ==
  /\ pc[c] = "evictConn"
  /\ old' = [old EXCEPT ![c] = None]
  /\ Goto(c, "serving")
  /\ UNCHANGED <<regVars, who, open, table, fwd, lsn, want, mu, taskVars>>

EvictConn(c) ==
  /\ pc[c] = "evictConn"
  /\ Hangup(old[c])
  /\ old' = [old EXCEPT ![c] = None]
  /\ Goto(c, "serving")
  /\ UNCHANGED <<regVars, who, table, fwd, lsn, want, mu, taskVars>>

-----------------------------------------------------------------------------
(* handleGlobalRequests.  Requests already buffered are served even after  *)
(* the transport has closed.                                               *)

(* StartForward takes mu, reads the store and looks its entry up; on       *)
(* ErrLeaseGone the connection is closed and the loop left.  A second      *)
(* forward (ErrDuplicateForward) or a malformed request changes nothing.   *)
ForwardCheck(c) ==
  /\ pc[c] = "serving" /\ mu = None
  /\ \/ /\ ~LeaseLive(Id(c)) \/ ~Registered(c)
        /\ Hangup(c) /\ Goto(c, "leaving") /\ UNCHANGED <<mu, want>>
     \/ /\ LeaseLive(Id(c)) /\ Registered(c) /\ ~fwd[c]
        /\ want' = [want EXCEPT ![c] = leases[Id(c)].port]
        /\ mu' = c /\ Goto(c, "binding") /\ UNCHANGED open
  /\ UNCHANGED <<regVars, who, table, fwd, lsn, old, taskVars>>

(* net.Listen on the port of the copy, and st.forward = f; the listen may  *)
(* fail for a port another process holds.                                  *)
ForwardBind(c) ==
  /\ pc[c] = "binding"
  /\ \/ /\ want[c] \notin Bound
        /\ lsn' = [lsn EXCEPT ![c] = want[c]]
        /\ fwd' = [fwd EXCEPT ![c] = TRUE]
     \/ UNCHANGED <<lsn, fwd>>
  /\ want' = [want EXCEPT ![c] = None]
  /\ mu' = None
  /\ Goto(c, "serving")
  /\ UNCHANGED <<regVars, who, open, table, old, taskVars>>

(* CancelForward; of a forward c does not own it changes nothing. *)
Cancel(c) ==
  /\ pc[c] = "serving" /\ mu = None
  /\ Registered(c) /\ fwd[c]
  /\ fwd' = [fwd EXCEPT ![c] = FALSE]
  /\ Goto(c, "cancelling")
  /\ UNCHANGED <<regVars, who, open, table, lsn, old, want, mu, taskVars>>

(* Mutant of CancelClose: the cancelled forward is never closed. *)
CancelLeak(c) ==
  /\ pc[c] = "cancelling"
  /\ Goto(c, "serving")
  /\ UNCHANGED <<regVars, who, open, table, fwd, lsn, old, want, mu, taskVars>>

CancelClose(c) ==
  /\ pc[c] = "cancelling"
  /\ lsn' = [lsn EXCEPT ![c] = None]
  /\ Goto(c, "serving")
  /\ UNCHANGED <<regVars, who, open, table, fwd, old, want, mu, taskVars>>

(* The request channel closes with the transport. *)
Leave(c) ==
  /\ pc[c] = "serving" /\ ~open[c]
  /\ Goto(c, "leaving")
  /\ UNCHANGED <<regVars, who, open, table, fwd, lsn, old, want, mu, taskVars>>

(* Mutant of OnConnClosed: the entry is forgotten, its forward not closed. *)
OnConnClosedLeak(c) ==
  /\ pc[c] = "leaving" /\ mu = None
  /\ \/ Registered(c) /\ table' = [table EXCEPT ![Id(c)] = None]
     \/ ~Registered(c) /\ UNCHANGED table
  /\ Refuse(c)
  /\ UNCHANGED <<regVars, who, fwd, lsn, old, want, taskVars>>

(* OnConnClosed forgets the entry only if it is still c's. *)
OnConnClosed(c) ==
  /\ pc[c] = "leaving" /\ mu = None
  /\ \/ /\ Registered(c)
        /\ table' = [table EXCEPT ![Id(c)] = None]
        /\ Goto(c, "dropping") /\ UNCHANGED open
     \/ ~Registered(c) /\ Refuse(c) /\ UNCHANGED table
  /\ UNCHANGED <<regVars, who, fwd, lsn, old, want, mu, taskVars>>

DropForward(c) ==
  /\ pc[c] = "dropping"
  /\ CloseForward(c)
  /\ Refuse(c)
  /\ UNCHANGED <<regVars, who, table, fwd, old, want, taskVars>>

(* The client or the network goes away, or the keepalive gives up on it. *)
Disconnect(c) ==
  /\ open[c]
  /\ Hangup(c)
  /\ UNCHANGED <<regVars, pc, who, table, fwd, lsn, old, want, mu, taskVars>>

-----------------------------------------------------------------------------
(* The coordinator. *)

TaskAt(k, stage) == task' = [task EXCEPT ![k] = stage]

(* What a task does once its teardown is over. *)
Resume(k) == TaskAt(k, IF k = Sweeper THEN "sweeping" ELSE "idle")

(* The allocator probes the ports it considers: it hands out none that is  *)
(* bound, our own listeners included.                                      *)
CreateLease(id, d) ==
  /\ \E p \in Ports \ Bound : Grant(id, d, p)
  /\ UNCHANGED <<connVars, taskVars>>

ExtendLease(id, d) == Renew(id, d) /\ UNCHANGED <<connVars, taskVars>>

(* RevokeLease removes the lease from the store; if that fails it returns. *)
RevokeLease(k, id) ==
  /\ task[k] = "idle"
  /\ Revoke(id)
  /\ TaskAt(k, "teardown") /\ job' = [job EXCEPT ![k] = id]
  /\ UNCHANGED <<connVars, victim, cutoff, todo>>

(* Teardown takes the entry out under mu ... *)
TeardownTake(k) ==
  /\ task[k] = "teardown" /\ mu = None
  /\ victim' = [victim EXCEPT ![k] = table[job[k]]]
  /\ table' = [table EXCEPT ![job[k]] = None]
  /\ job' = [job EXCEPT ![k] = None]
  /\ IF table[job[k]] = None THEN Resume(k) ELSE TaskAt(k, "closeForward")
  /\ UNCHANGED <<regVars, pc, who, open, fwd, lsn, old, want, mu, cutoff, todo>>

(* ... and closes its forward and its connection after releasing it. *)
TeardownForward(k) ==
  /\ task[k] = "closeForward"
  /\ CloseForward(victim[k])
  /\ TaskAt(k, "closeConn")
  /\ UNCHANGED <<regVars, pc, who, open, table, fwd, old, want, mu,
                 job, victim, cutoff, todo>>

TeardownConn(k) ==
  /\ task[k] = "closeConn"
  /\ Hangup(victim[k])
  /\ victim' = [victim EXCEPT ![k] = None]
  /\ Resume(k)
  /\ UNCHANGED <<regVars, pc, who, table, fwd, lsn, old, want, mu, job, cutoff, todo>>

(* SweepExpired: the cutoff and the snapshot ... *)
SweepStart ==
  /\ task[Sweeper] = "idle"
  /\ cutoff' = now
  /\ todo' = {id \in LeaseIds : leases[id] # None /\ Expired(leases[id], now)}
  /\ TaskAt(Sweeper, "sweeping")
  /\ UNCHANGED <<regVars, connVars, job, victim>>

(* Mutant of StillExpired: the snapshot is trusted. *)
StillPresent(id) == leases[id] # None

(* The recheck of MarkExpiredIfBefore. *)
StillExpired(id) == leases[id] # None /\ leases[id].expires <= cutoff

(* Mutant of SweepOne: a failed row delete skips the teardown. *)
SweepStopsOnError(id) ==
  /\ task[Sweeper] = "sweeping" /\ id \in todo
  /\ todo' = todo \ {id}
  /\ \/ UNCHANGED <<regVars, task, job>>
     \/ /\ StillExpired(id) /\ Revoke(id)
        /\ TaskAt(Sweeper, "teardown") /\ job' = [job EXCEPT ![Sweeper] = id]
  /\ UNCHANGED <<connVars, victim, cutoff>>

(* ... then each id: skipped when it is gone or renewed, else its row is   *)
(* deleted, or the delete fails, and its session is torn down either way.  *)
SweepOne(id) ==
  /\ task[Sweeper] = "sweeping" /\ id \in todo
  /\ todo' = todo \ {id}
  /\ \/ ~StillExpired(id) /\ UNCHANGED <<regVars, task, job>>
     \/ /\ StillExpired(id)
        /\ Revoke(id) \/ UNCHANGED regVars
        /\ TaskAt(Sweeper, "teardown") /\ job' = [job EXCEPT ![Sweeper] = id]
  /\ UNCHANGED <<connVars, victim, cutoff>>

SweepDone ==
  /\ task[Sweeper] = "sweeping" /\ todo = {}
  /\ cutoff' = 0
  /\ TaskAt(Sweeper, "idle")
  /\ UNCHANGED <<regVars, connVars, job, victim, todo>>

-----------------------------------------------------------------------------
(* The daemon dies and is started again: the kernel closes every socket,   *)
(* Open rehydrates the store.                                              *)
Restart(r) ==
  /\ Reopen(r)
  /\ pc' = [c \in Conns |-> IF pc[c] = "new" THEN "new" ELSE "done"]
  /\ open' = [c \in Conns |-> FALSE]
  /\ table' = [id \in LeaseIds |-> None]
  /\ fwd' = [c \in Conns |-> FALSE] /\ lsn' = [c \in Conns |-> None]
  /\ old' = [c \in Conns |-> None] /\ want' = [c \in Conns |-> None]
  /\ mu' = None
  /\ task' = [k \in Tasks |-> "idle"] /\ job' = [k \in Tasks |-> None]
  /\ victim' = [k \in Tasks |-> None]
  /\ cutoff' = 0 /\ todo' = {}
  /\ UNCHANGED who

Clock == Tick /\ UNCHANGED <<connVars, taskVars>>

(* The steps a goroutine of the daemon takes on its own. *)
ConnStep(c) ==
  \/ CheckLease(c) \/ RegisterCheck(c) \/ RegisterInstall(c)
  \/ EvictForward(c) \/ EvictConn(c)
  \/ ForwardBind(c) \/ CancelClose(c)
  \/ Leave(c) \/ OnConnClosed(c) \/ DropForward(c)

TaskStep(k) == TeardownTake(k) \/ TeardownForward(k) \/ TeardownConn(k)

SweepStep == SweepStart \/ SweepDone \/ \E id \in LeaseIds : SweepOne(id)

Next ==
  \/ \E c \in Conns :
       \/ ConnStep(c)
       \/ ForwardCheck(c) \/ Cancel(c) \/ Disconnect(c)
       \/ \E id \in LeaseIds : Authenticate(c, id)
  \/ \E k \in Tasks : TaskStep(k)
  \/ SweepStep
  \/ \E id \in LeaseIds, d \in Durations : CreateLease(id, d) \/ ExtendLease(id, d)
  \/ \E k \in Callers, id \in LeaseIds : RevokeLease(k, id)
  \/ \E r \in Ranges : Restart(r)
  \/ Clock

Spec == Init /\ [][Next]_vars

(* Every goroutine keeps running; one that waits for mu gets it (a Go      *)
(* mutex hands over to a starving waiter), and a closed connection has     *)
(* only the requests already buffered left.  Clients, the cloud, the clock *)
(* and crashes owe nothing.                                                *)
Fairness ==
  /\ \A c \in Conns :
       /\ WF_vars(CheckLease(c)) /\ SF_vars(RegisterCheck(c))
       /\ WF_vars(RegisterInstall(c)) /\ WF_vars(EvictForward(c)) /\ WF_vars(EvictConn(c))
       /\ WF_vars(ForwardBind(c)) /\ WF_vars(CancelClose(c))
       /\ SF_vars(Leave(c)) /\ SF_vars(OnConnClosed(c)) /\ WF_vars(DropForward(c))
  /\ \A k \in Tasks :
       SF_vars(TeardownTake(k)) /\ WF_vars(TeardownForward(k)) /\ WF_vars(TeardownConn(k))
  /\ WF_vars(SweepStep)

FairSpec == Spec /\ Fairness

-----------------------------------------------------------------------------
(* Types, and the discipline of the locals: mu is held exactly inside      *)
(* RegisterConn and StartForward, and each local has a value exactly where *)
(* its code is running.                                                    *)
TypeOK ==
  /\ leases \in [LeaseIds -> Lease \cup {None}]
  /\ minted \in 0 .. MaxMints /\ now \in 0 .. MaxTime
  /\ pc \in [Conns -> Stages]
  /\ who \in [Conns -> Credential \cup {None}]
  /\ open \in [Conns -> BOOLEAN]
  /\ table \in [LeaseIds -> Conns \cup {None}]
  /\ fwd \in [Conns -> BOOLEAN]
  /\ lsn \in [Conns -> Ports \cup {None}]
  /\ old \in [Conns -> Conns \cup {None}]
  /\ want \in [Conns -> Ports \cup {None}]
  /\ mu \in Conns \cup {None}
  /\ task \in [Tasks -> TaskStages]
  /\ job \in [Tasks -> LeaseIds \cup {None}]
  /\ victim \in [Tasks -> Conns \cup {None}]
  /\ cutoff \in 0 .. MaxTime /\ todo \subseteq LeaseIds
  /\ \A c \in Conns : /\ mu = c <=> pc[c] \in {"registering", "binding"}
                      /\ who[c] = None <=> pc[c] = "new"
                      /\ old[c] # None <=> pc[c] \in {"evictForward", "evictConn"}
                      /\ want[c] # None <=> pc[c] = "binding"
  /\ \A k \in Tasks : /\ job[k] # None <=> task[k] = "teardown"
                      /\ victim[k] # None <=> task[k] \in {"closeForward", "closeConn"}

(* Some task has removed (or confirmed expired) the lease id and has its   *)
(* Teardown still to run.                                                  *)
TeardownDue(id) == \E k \in Tasks : task[k] = "teardown" /\ job[k] = id

(* Some goroutine holds the forward of c and is about to close it. *)
CloseDue(c) ==
  \/ pc[c] \in {"cancelling", "dropping"}
  \/ \E d \in Conns : pc[d] = "evictForward" /\ old[d] = c
  \/ \E k \in Tasks : task[k] = "closeForward" /\ victim[k] = c

(* Some goroutine is about to close the connection c. *)
HangupDue(c) ==
  \/ \E d \in Conns : pc[d] \in {"evictForward", "evictConn"} /\ old[d] = c
  \/ \E k \in Tasks : task[k] \in {"closeForward", "closeConn"} /\ victim[k] = c

(* A session is registered only for a lease that is in the store, or one   *)
(* whose Teardown is still to come: once RevokeLease or the sweep is done, *)
(* nothing of the removed lease is left (the order of RevokeLease and of   *)
(* SweepExpired against the re-check of RegisterConn under mu).            *)
SessionBacked ==
  \A id \in LeaseIds : table[id] # None => leases[id] # None \/ TeardownDue(id)

(* Every bound listener is either about to be closed by a goroutine that   *)
(* holds it, or is the installed forward of the registered connection, on  *)
(* the port of its lease, unless that lease's Teardown is due: no race of  *)
(* takeover, cancel, disconnect, revocation and expiry leaks a listener or *)
(* leaves one on a port that is another lease's by now.                    *)
ListenersAccounted ==
  \A c \in Conns : lsn[c] # None =>
    \/ CloseDue(c)
    \/ /\ Registered(c) /\ fwd[c]
       /\ \/ TeardownDue(Id(c))
          \/ leases[Id(c)] # None /\ leases[Id(c)].port = lsn[c]

(* One live connection per lease: an open connection that serves requests  *)
(* is the registered one or is about to be closed (leaseState, RegisterConn *)
(* last-writer-wins).                                                      *)
OneSession ==
  \A c \in Conns : pc[c] \in {"serving", "binding", "cancelling"} /\ open[c] =>
    Registered(c) \/ HangupDue(c)

(* When StartForward finds its port taken by another listener of the       *)
(* daemon, that listener is about to be closed, or one of the two leases   *)
(* is about to be torn down: a refused bind is never a permanent conflict  *)
(* between two healthy leases.                                             *)
BindConflictTransient ==
  \A c, d \in Conns : pc[c] = "binding" /\ lsn[d] = want[c] =>
    CloseDue(d) \/ TeardownDue(Id(d)) \/ TeardownDue(Id(c))

(* The sweep removes a lease only if it is still expired at that moment,   *)
(* however stale its snapshot: an unexpired lease goes only by RevokeLease *)
(* (SweepExpired and the recheck of MarkExpiredIfBefore), here with the    *)
(* range of data ports unchanged over restarts.                            *)
SweepSparesRenewed ==
  [][\A id \in LeaseIds : LeaseLive(id) /\ leases'[id] = None =>
       \E k \in Callers : task[k] = "idle" /\ task'[k] = "teardown" /\ job'[k] = id]_vars

(* A listener whose lease has expired or is gone is closed in the end,     *)
(* unless the lease is renewed first, even if every row delete fails       *)
(* (SweepExpired tears down before it looks at the error).                 *)
ExpiredGoesDark ==
  \A c \in Conns :
    (lsn[c] # None /\ ~LeaseLive(Id(c))) ~> (lsn[c] = None \/ LeaseLive(Id(c)))

(* A connection that lost its lease to a newer one, to a revocation or to  *)
(* expiry is hung up in the end (RegisterConn, Teardown).                  *)
ReplacedHangsUp ==
  \A c \in Conns : (pc[c] = "serving" /\ ~Registered(c)) ~> ~open[c]

(* The comment on StartForward: "once the coordinator removes the lease    *)
(* from the store (BEFORE Teardown), no forward can be installed".         *)
NoForwardAfterRemoval ==
  [][\A c \in Conns : ~fwd[c] /\ fwd'[c] => leases[Id(c)] # None]_vars

(* The comment on RegisterConn: "a connection can't be registered for a    *)
(* lease that revocation/expiry already tore down", the lease being the    *)
(* one whose token the connection authenticated with.                      *)
NoRegisterAfterTeardown ==
  [][\A c \in Conns : pc[c] = "registering" /\ pc'[c] # "registering" /\ pc'[c] # "done" =>
       \/ leases[Id(c)] # None /\ leases[Id(c)].token = who[c].token
       \/ TeardownDue(Id(c))]_vars
=============================================================================
