---------------------------- MODULE TunnelProofs ----------------------------
(***************************************************************************)
(* Proofs about TunnelSessions, for any leases, ports, connections and     *)
(* callers: sessions and listeners are accounted for at every step of      *)
(* every interleaving.                                                     *)
(***************************************************************************)
EXTENDS TunnelSessions, TLAPS

(* The part of TypeOK that the proofs need, by component. *)
RegType ==
  /\ leases \in [LeaseIds -> Lease \cup {None}]
  /\ minted \in Nat /\ now \in Nat

ConnType ==
  /\ DOMAIN pc = Conns /\ DOMAIN who = Conns /\ DOMAIN open = Conns
  /\ DOMAIN fwd = Conns /\ DOMAIN lsn = Conns
  /\ DOMAIN old = Conns /\ DOMAIN want = Conns
  /\ table \in [LeaseIds -> Conns \cup {None}]

TaskType ==
  /\ DOMAIN task = Tasks /\ DOMAIN job = Tasks /\ DOMAIN victim = Tasks
  /\ \A k \in Tasks :
       /\ task[k] = "teardown" => job[k] \in LeaseIds
       /\ task[k] \in {"closeForward", "closeConn"} => victim[k] \in Conns

(* mu and the locals are in use exactly where their code is running. *)
LocalInv ==
  \A c \in Conns :
    /\ pc[c] \in {"registering", "binding"} <=> mu = c
    /\ pc[c] # "new" => Id(c) \in LeaseIds
    /\ pc[c] \in {"evictForward", "evictConn"} => old[c] \in Conns
    /\ pc[c] = "binding" => want[c] \in Ports

(* No two leases share a port (LeaseRegistry). *)
PortInv ==
  \A i, j \in LeaseIds :
    (leases[i] # None /\ leases[j] # None /\ leases[i].port = leases[j].port) => i = j

(* The lease id is in the store, on port p, or its Teardown is waiting. *)
Present(id) == leases[id] # None \/ TeardownDue(id)
Held(id, p) == TeardownDue(id) \/ (leases[id] # None /\ leases[id].port = p)

(* Where a registered connection can be. *)
Sitting == {"evictForward", "evictConn", "serving", "binding", "cancelling", "leaving"}

(* An entry of m.leases is a connection that authenticated for its id. *)
EntryInv ==
  \A id \in LeaseIds : table[id] # None =>
    Id(table[id]) = id /\ pc[table[id]] \in Sitting

(* The lease c registers for was there under mu, and while c holds mu no   *)
(* Teardown can run: c's entry comes before it.                            *)
BackedInv ==
  /\ \A id \in LeaseIds : table[id] # None => Present(id)
  /\ \A c \in Conns : pc[c] = "registering" => Present(Id(c))

(* The same inside StartForward, for the port about to be bound. *)
BindInv ==
  \A c \in Conns : pc[c] = "binding" =>
    Registered(c) /\ ~fwd[c] /\ Held(Id(c), want[c])

(* A listener is the installed forward's, or is being cancelled. *)
ForwardInv ==
  \A c \in Conns : lsn[c] # None => pc[c] # "new" /\ (fwd[c] \/ pc[c] = "cancelling")

ListenInv ==
  \A c \in Conns : lsn[c] # None =>
    CloseDue(c) \/ (Registered(c) /\ fwd[c] /\ Held(Id(c), lsn[c]))

(* OneSession, already while the connection evicts its predecessor. *)
OpenInv ==
  \A c \in Conns : (pc[c] \in Sitting \ {"leaving"} /\ open[c]) =>
    Registered(c) \/ HangupDue(c)

TypeInv == RegType /\ ConnType /\ TaskType /\ LocalInv
SessionInv ==
  TypeInv /\ PortInv /\ EntryInv /\ BackedInv /\ BindInv /\ ForwardInv
  /\ ListenInv /\ OpenInv

-----------------------------------------------------------------------------
(* What the coordinator's steps outside Teardown, and the clock, do to the *)
(* sessions: nothing, and what is about to be closed stays so.             *)
Quiet ==
  /\ UNCHANGED connVars
  /\ \A id \in LeaseIds : Present(id) => Present(id)'
  /\ \A id \in LeaseIds : \A p : Held(id, p) => Held(id, p)'
  /\ \A c \in Conns : CloseDue(c) => CloseDue(c)'
  /\ \A c \in Conns : HangupDue(c) => HangupDue(c)'

CoordinatorStep ==
  \/ SweepStep
  \/ \E id \in LeaseIds, d \in Durations : CreateLease(id, d) \/ ExtendLease(id, d)
  \/ \E k \in Callers, id \in LeaseIds : RevokeLease(k, id)
  \/ Clock
  \/ UNCHANGED vars

LEMMA CoordinatorQuiet ==
  ASSUME RegType, TaskType, PortInv, CoordinatorStep
  PROVE  Quiet /\ RegType' /\ TaskType' /\ PortInv'
<1> USE NoneAssumption, BoundsAssumption
    DEF RegType, TaskType, PortInv, Quiet, Present, Held, TeardownDue, CloseDue, HangupDue,
        regVars, taskVars, connVars, TaskAt, Tasks
<1>1. CASE UNCHANGED vars
  BY <1>1 DEF vars
<1>2. CASE Clock
  BY <1>2 DEF Clock, Tick
<1>3. CASE SweepStart
  BY <1>3 DEF SweepStart
<1>4. CASE SweepDone
  BY <1>4 DEF SweepDone
<1>5. ASSUME NEW id \in LeaseIds, SweepOne(id)
      PROVE  Quiet /\ RegType' /\ TaskType' /\ PortInv'
  BY <1>5 DEF SweepOne, StillExpired, Revoke
<1>6. ASSUME NEW k \in Callers, NEW id \in LeaseIds, RevokeLease(k, id)
      PROVE  Quiet /\ RegType' /\ TaskType' /\ PortInv'
  BY <1>6 DEF RevokeLease, Revoke
<1>7. ASSUME NEW id \in LeaseIds, NEW d \in Durations, CreateLease(id, d)
      PROVE  Quiet /\ RegType' /\ TaskType' /\ PortInv'
  BY <1>7 DEF CreateLease, Grant, PortsOf, Lease, Tokens
<1>8. ASSUME NEW id \in LeaseIds, NEW d \in Durations, ExtendLease(id, d)
      PROVE  Quiet /\ RegType' /\ TaskType' /\ PortInv'
  BY <1>8 DEF ExtendLease, Renew, Prolonged, Lease
<1> HIDE DEF RegType, TaskType, PortInv, Quiet, Present, Held, TeardownDue, CloseDue, HangupDue,
        regVars, taskVars, connVars, TaskAt, Tasks
<1> QED
  BY <1>1, <1>2, <1>3, <1>4, <1>5, <1>6, <1>7, <1>8, Zenon DEF CoordinatorStep, SweepStep

LEMMA QuietStep == SessionInv /\ CoordinatorStep => SessionInv'
<1> SUFFICES ASSUME SessionInv, CoordinatorStep PROVE SessionInv'
  OBVIOUS
<1>1. Quiet /\ RegType' /\ TaskType' /\ PortInv'
  BY CoordinatorQuiet DEF SessionInv, TypeInv
<1>2. ConnType' /\ LocalInv' /\ EntryInv' /\ ForwardInv'
  BY <1>1 DEF SessionInv, TypeInv, Quiet, connVars, ConnType, LocalInv, EntryInv, ForwardInv, Id
<1>3. BackedInv' /\ BindInv'
  BY <1>1 DEF SessionInv, TypeInv, Quiet, connVars, ConnType, LocalInv, BackedInv, BindInv,
              Id, Registered
<1>4. ListenInv' /\ OpenInv'
  BY <1>1 DEF SessionInv, TypeInv, Quiet, connVars, ConnType, LocalInv, ForwardInv,
              ListenInv, OpenInv, Id, Registered
<1> QED
  BY <1>1, <1>2, <1>3, <1>4 DEF SessionInv, TypeInv

-----------------------------------------------------------------------------
(* The steps of a connection. *)
ConnMove(c) ==
  \/ ConnStep(c) \/ ForwardCheck(c) \/ Cancel(c) \/ Disconnect(c)
  \/ \E id \in LeaseIds : Authenticate(c, id)

(* They leave the registry and the tasks alone. *)
LEMMA ConnSteady ==
  ASSUME NEW c \in Conns, ConnMove(c)
  PROVE  /\ UNCHANGED <<leases, minted, now, task, job, victim>>
         /\ \A id : Present(id)' <=> Present(id)
         /\ \A id, p : Held(id, p)' <=> Held(id, p)
<1>1. UNCHANGED <<leases, minted, now, task, job, victim>>
  BY DEF ConnMove, ConnStep, CheckLease, RegisterCheck, RegisterInstall, EvictForward,
         EvictConn, ForwardBind, CancelClose, Leave, OnConnClosed, DropForward,
         ForwardCheck, Cancel, Disconnect, Authenticate, regVars, taskVars
<1> QED
  BY <1>1, Zenon DEF Present, Held, TeardownDue

LEMMA ConnTypes ==
  ASSUME TypeInv, NEW c \in Conns, ConnMove(c)
  PROVE  TypeInv'
<1>a. RegType /\ ConnType /\ TaskType /\ LocalInv
  BY Zenon DEF TypeInv
<1>b. RegType' /\ TaskType'
  BY <1>a, ConnSteady DEF RegType, TaskType
<1>c. LeaseLive(Id(c)) /\ Id(c) \in LeaseIds => leases[Id(c)].port \in Ports
  BY <1>a DEF RegType, LeaseLive, Lease
<1> USE TunnelAssumption, NoneAssumption, <1>a DEF ConnType, LocalInv, Id, Goto, Hangup
<1>1. CheckLease(c) => ConnType' /\ LocalInv'
  BY DEF CheckLease, Refuse
<1>2. RegisterCheck(c) => ConnType' /\ LocalInv'
  BY DEF RegisterCheck, Refuse
<1>3. RegisterInstall(c) => ConnType' /\ LocalInv'
  BY DEF RegisterInstall
<1>4. (EvictForward(c) \/ EvictConn(c) \/ CancelClose(c)) => ConnType' /\ LocalInv'
  BY DEF EvictForward, EvictConn, CancelClose, CloseForward
<1>5. ForwardCheck(c) => ConnType' /\ LocalInv'
  BY <1>c DEF ForwardCheck
<1>6. ForwardBind(c) => ConnType' /\ LocalInv'
  BY DEF ForwardBind
<1>7. (Cancel(c) \/ Leave(c) \/ Disconnect(c)) => ConnType' /\ LocalInv'
  BY DEF Cancel, Leave, Disconnect
<1>8. OnConnClosed(c) => ConnType' /\ LocalInv'
  BY DEF OnConnClosed, Refuse, Registered
<1>9. DropForward(c) => ConnType' /\ LocalInv'
  BY DEF DropForward, Refuse, CloseForward
<1>10. ASSUME NEW id \in LeaseIds, Authenticate(c, id) PROVE ConnType' /\ LocalInv'
  BY <1>10 DEF Authenticate
<1> HIDE DEF ConnType, LocalInv, Id, Goto, Hangup
<1>11. ConnType' /\ LocalInv'
  BY <1>1, <1>2, <1>3, <1>4, <1>5, <1>6, <1>7, <1>8, <1>9, <1>10, Zenon DEF ConnMove, ConnStep
<1> QED
  BY <1>b, <1>11, Zenon DEF TypeInv

LEMMA ConnEntries ==
  ASSUME SessionInv, NEW c \in Conns, ConnMove(c)
  PROVE  EntryInv' /\ ForwardInv' /\ BackedInv'
<1>a. ConnType /\ LocalInv /\ EntryInv /\ ForwardInv /\ BackedInv
  BY DEF SessionInv, TypeInv
<1>b. leases' = leases /\ \A id : Present(id)' <=> Present(id)
  BY ConnSteady
<1> USE TunnelAssumption, NoneAssumption, <1>a, <1>b
    DEF ConnType, LocalInv, EntryInv, ForwardInv, BackedInv, Sitting, Id, Goto, Hangup
<1>1. CASE CheckLease(c)
  BY <1>1 DEF CheckLease, Refuse
<1>2. CASE RegisterCheck(c)
  <2>1. LeaseLive(Id(c)) => Present(Id(c))
    BY Zenon DEF LeaseLive, Present
  <2> QED
    BY <1>2, <2>1 DEF RegisterCheck, Refuse
<1>3. CASE RegisterInstall(c)
  BY <1>3 DEF RegisterInstall
<1>4. CASE EvictForward(c) \/ EvictConn(c) \/ CancelClose(c)
  BY <1>4 DEF EvictForward, EvictConn, CancelClose, CloseForward
<1>5. CASE ForwardCheck(c)
  BY <1>5 DEF ForwardCheck
<1>6. CASE ForwardBind(c)
  BY <1>6 DEF ForwardBind
<1>7. CASE Cancel(c) \/ Leave(c) \/ Disconnect(c)
  BY <1>7 DEF Cancel, Leave, Disconnect
<1>8. CASE OnConnClosed(c)
  BY <1>8 DEF OnConnClosed, Refuse, Registered
<1>9. CASE DropForward(c)
  BY <1>9 DEF DropForward, Refuse, CloseForward
<1>10. ASSUME NEW id \in LeaseIds, Authenticate(c, id)
       PROVE  EntryInv' /\ ForwardInv' /\ BackedInv'
  BY <1>10 DEF Authenticate
<1> HIDE DEF ConnType, LocalInv, EntryInv, ForwardInv, BackedInv, Sitting, Id, Goto, Hangup
<1> QED
  BY <1>1, <1>2, <1>3, <1>4, <1>5, <1>6, <1>7, <1>8, <1>9, <1>10,
     Zenon DEF ConnMove, ConnStep

LEMMA ConnListeners ==
  ASSUME SessionInv, NEW c \in Conns, ConnMove(c)
  PROVE  BindInv' /\ ListenInv' /\ OpenInv'
<1>a. /\ ConnType /\ LocalInv /\ EntryInv
      /\ BindInv /\ ForwardInv /\ ListenInv /\ OpenInv
  BY DEF SessionInv, TypeInv
<1>b. /\ UNCHANGED <<leases, task, victim>>
      /\ \A id, p : Held(id, p)' <=> Held(id, p)
  BY ConnSteady
<1> USE TunnelAssumption, NoneAssumption, <1>a, <1>b
    DEF ConnType, LocalInv, EntryInv, ForwardInv, BindInv, ListenInv, OpenInv,
        CloseDue, HangupDue, Registered, Sitting, Id, Goto, Hangup
<1>1. CASE CheckLease(c)
  BY <1>1 DEF CheckLease, Refuse
<1>2. CASE RegisterCheck(c)
  BY <1>2 DEF RegisterCheck, Refuse
<1>3. CASE RegisterInstall(c)
  BY <1>3 DEF RegisterInstall
<1>4. CASE EvictForward(c)
  BY <1>4 DEF EvictForward, CloseForward
<1>5. CASE EvictConn(c)
  BY <1>5 DEF EvictConn
<1>6. CASE CancelClose(c)
  BY <1>6 DEF CancelClose
<1>7. CASE ForwardCheck(c)
  <2>1. LeaseLive(Id(c)) => Held(Id(c), leases[Id(c)].port)
    BY Zenon DEF LeaseLive, Held
  <2> QED
    BY <1>7, <2>1 DEF ForwardCheck
<1>8. CASE ForwardBind(c)
  BY <1>8 DEF ForwardBind
<1>9. CASE Cancel(c) \/ Leave(c)
  BY <1>9 DEF Cancel, Leave
<1>10. CASE Disconnect(c)
  BY <1>10 DEF Disconnect
<1>11. CASE OnConnClosed(c)
  BY <1>11 DEF OnConnClosed, Refuse
<1>12. CASE DropForward(c)
  BY <1>12 DEF DropForward, Refuse, CloseForward
<1>13. ASSUME NEW id \in LeaseIds, Authenticate(c, id)
       PROVE  BindInv' /\ ListenInv' /\ OpenInv'
  BY <1>13 DEF Authenticate
<1> HIDE DEF ConnType, LocalInv, EntryInv, ForwardInv, BindInv, ListenInv, OpenInv,
        CloseDue, HangupDue, Registered, Sitting, Id, Goto, Hangup
<1> QED
  BY <1>1, <1>2, <1>3, <1>4, <1>5, <1>6, <1>7, <1>8,
     <1>9, <1>10, <1>11, <1>12, <1>13, Zenon DEF ConnMove, ConnStep

LEMMA ConnMoveStep ==
  ASSUME SessionInv, NEW c \in Conns, ConnMove(c)
  PROVE  SessionInv'
<1>1. TypeInv'
  BY ConnTypes DEF SessionInv
<1>2. PortInv'
  BY ConnSteady, Zenon DEF SessionInv, PortInv
<1> QED
  BY <1>1, <1>2, ConnEntries, ConnListeners, Zenon DEF SessionInv

-----------------------------------------------------------------------------
(* Teardown.  It waits for mu, so no connection is between its check of    *)
(* the store and its entry or its bind when the entry is taken out.        *)
LEMMA TeardownStep ==
  ASSUME SessionInv, NEW k \in Tasks, TaskStep(k)
  PROVE  SessionInv'
<1>a. RegType /\ ConnType /\ TaskType /\ LocalInv /\ PortInv
  BY DEF SessionInv, TypeInv
<1>b. EntryInv /\ BackedInv /\ BindInv /\ ForwardInv /\ ListenInv /\ OpenInv
  BY DEF SessionInv
<1>1. CASE TeardownTake(k)
  <2>1. UNCHANGED <<leases, minted, now>>
    BY <1>1 DEF TeardownTake, regVars
  <2>2. UNCHANGED <<pc, who, open, fwd, lsn>>
    BY <1>1 DEF TeardownTake
  <2>3. UNCHANGED <<old, want, mu>> /\ mu = None
    BY <1>1 DEF TeardownTake
  <2>4. /\ task[k] = "teardown" /\ job[k] \in LeaseIds
        /\ table[job[k]] \in Conns \cup {None}
        /\ DOMAIN task' = Tasks /\ DOMAIN job' = Tasks /\ DOMAIN victim' = Tasks
    BY <1>1, <1>a DEF TeardownTake, Resume, TaskAt, TaskType, ConnType
  <2>5. /\ \A j \in Tasks \ {k} :
             task'[j] = task[j] /\ job'[j] = job[j] /\ victim'[j] = victim[j]
        /\ victim'[k] = table[job[k]]
        /\ table[job[k]] # None => task'[k] = "closeForward"
        /\ table[job[k]] = None => task'[k] \in {"sweeping", "idle"}
    BY <1>1, <1>a DEF TeardownTake, Resume, TaskAt, TaskType
  <2>6. /\ table' \in [LeaseIds -> Conns \cup {None}]
        /\ table'[job[k]] = None
        /\ \A id \in LeaseIds : id # job[k] => table'[id] = table[id]
    BY <1>1, <1>a, <2>4 DEF TeardownTake, ConnType
  <2>7. /\ \A id \in LeaseIds : id # job[k] => (Present(id) => Present(id)')
        /\ \A id \in LeaseIds : id # job[k] => \A p : Held(id, p) => Held(id, p)'
    BY <2>1, <2>4, <2>5 DEF Present, Held, TeardownDue
  <2>8. \A c \in Conns : CloseDue(c) \/ table[job[k]] = c => CloseDue(c)'
    BY <2>2, <2>3, <2>4, <2>5, TunnelAssumption DEF CloseDue
  <2>9. \A c \in Conns : HangupDue(c) \/ table[job[k]] = c => HangupDue(c)'
    BY <2>2, <2>3, <2>4, <2>5, TunnelAssumption DEF HangupDue
  <2>10. RegType' /\ PortInv'
    BY <1>a, <2>1 DEF RegType, PortInv
  <2>11. ConnType' /\ LocalInv'
    BY <1>a, <2>2, <2>3, <2>6 DEF ConnType, LocalInv, Id
  <2>12. TaskType'
    BY <1>a, <2>4, <2>5 DEF TaskType
  <2>13. EntryInv' /\ ForwardInv'
    BY <1>b, <2>2, <2>6 DEF EntryInv, ForwardInv, Id
  <2>14. BackedInv' /\ BindInv'
    <3>1. \A c \in Conns : pc'[c] \notin {"registering", "binding"}
      BY <1>a, <2>2, <2>3, TunnelAssumption DEF LocalInv
    <3> QED
      BY <1>b, <2>6, <2>7, <3>1, Zenon DEF BackedInv, BindInv
  <2>15. \A c \in Conns : pc[c] # "new" /\ Registered(c) /\ table[job[k]] # c =>
           Registered(c)' /\ \A p : Held(Id(c), p) => Held(Id(c), p)'
    BY <1>a, <2>2, <2>4, <2>6, <2>7 DEF LocalInv, Registered, Id
  <2>16. ListenInv'
    BY <1>b, <2>2, <2>8, <2>15 DEF ForwardInv, ListenInv, Id
  <2>17. OpenInv'
    BY <1>b, <2>2, <2>9, <2>15 DEF OpenInv, Sitting
  <2> QED
    BY <2>10, <2>11, <2>12, <2>13, <2>14, <2>16, <2>17, Zenon DEF SessionInv, TypeInv
<1>2. CASE TeardownForward(k) \/ TeardownConn(k)
  <2>1. UNCHANGED <<leases, minted, now, job>>
    BY <1>2 DEF TeardownForward, TeardownConn, regVars
  <2>2. UNCHANGED <<pc, who, table, fwd, old, want, mu>>
    BY <1>2 DEF TeardownForward, TeardownConn
  <2>3. /\ task[k] \in {"closeForward", "closeConn"} /\ victim[k] \in Conns
        /\ task'[k] \in {"closeConn", "sweeping", "idle"}
        /\ DOMAIN task' = Tasks /\ DOMAIN victim' = Tasks
        /\ \A j \in Tasks \ {k} : task'[j] = task[j] /\ victim'[j] = victim[j]
        /\ task'[k] = "closeConn" => victim'[k] = victim[k]
    BY <1>2, <1>a DEF TeardownForward, TeardownConn, Resume, TaskAt, TaskType
  <2>4. /\ DOMAIN lsn' = Conns
        /\ \A c \in Conns : lsn'[c] = lsn[c] \/ lsn'[c] = None
        /\ task[k] = "closeForward" /\ fwd[victim[k]] => lsn'[victim[k]] = None
    <3>1. CASE TeardownForward(k)
      <4>1. lsn' = [lsn EXCEPT ![victim[k]] = IF fwd[victim[k]] THEN None ELSE @]
        BY <3>1, Zenon DEF TeardownForward, CloseForward
      <4>2. DOMAIN lsn = Conns
        BY <1>a, Zenon DEF ConnType
      <4> QED
        BY <4>1, <4>2, <2>3
    <3>2. CASE TeardownConn(k)
      BY <3>2, <1>a, Zenon DEF TeardownConn, ConnType
    <3> QED
      BY <1>2, <3>1, <3>2, Zenon
  <2>5. /\ DOMAIN open' = Conns
        /\ \A c \in Conns : c # victim[k] => open'[c] = open[c]
        /\ open'[victim[k]] = open[victim[k]] \/ ~open'[victim[k]]
        /\ task[k] = "closeConn" => ~open'[victim[k]]
        /\ task[k] = "closeForward" => task'[k] = "closeConn"
    BY <1>2, <1>a, <2>3, Zenon
       DEF TeardownForward, TeardownConn, Hangup, TaskAt, ConnType, TaskType
  <2>6. /\ \A id \in LeaseIds : Present(id) => Present(id)'
        /\ \A id \in LeaseIds : \A p : Held(id, p) => Held(id, p)'
    BY <2>1, <2>3 DEF Present, Held, TeardownDue
  <2>7. \A c \in Conns : lsn'[c] # None /\ CloseDue(c) => CloseDue(c)'
    BY <1>b, <2>2, <2>3, <2>4 DEF ForwardInv, CloseDue
  <2>8. \A c \in Conns : open'[c] /\ HangupDue(c) => HangupDue(c)'
    BY <2>2, <2>3, <2>5 DEF HangupDue
  <2>9. RegType' /\ PortInv'
    BY <1>a, <2>1 DEF RegType, PortInv
  <2>10. ConnType' /\ LocalInv'
    BY <1>a, <2>2, <2>4, <2>5, Zenon DEF ConnType, LocalInv, Id
  <2>11. TaskType'
    BY <1>a, <2>1, <2>3 DEF TaskType
  <2>12. EntryInv' /\ ForwardInv'
    BY <1>b, <2>2, <2>4 DEF EntryInv, ForwardInv, Id
  <2>13. BackedInv' /\ BindInv'
    BY <1>a, <1>b, <2>2, <2>6 DEF LocalInv, BackedInv, BindInv, Registered, Id
  <2>14. ListenInv'
    BY <1>a, <1>b, <2>2, <2>4, <2>6, <2>7 DEF LocalInv, ForwardInv, ListenInv, Registered, Id
  <2>15. OpenInv'
    BY <1>b, <2>2, <2>5, <2>8 DEF OpenInv, Registered, Id
  <2> QED
    BY <2>9, <2>10, <2>11, <2>12, <2>13, <2>14, <2>15, Zenon DEF SessionInv, TypeInv
<1> QED
  BY <1>1, <1>2, Zenon DEF TaskStep

(* A restart leaves no session behind. *)
LEMMA RestartStep ==
  ASSUME SessionInv, NEW r \in Ranges, Restart(r)
  PROVE  SessionInv'
<1>1. RegType /\ PortInv /\ ConnType /\ LocalInv
  BY Zenon DEF SessionInv, TypeInv
<1>2. RegType' /\ PortInv'
  BY <1>1 DEF RegType, PortInv, Restart, Reopen
<1>3. /\ \A id \in LeaseIds : table'[id] = None
      /\ \A c \in Conns : pc'[c] \in {"new", "done"} /\ lsn'[c] = None
      /\ \A c \in Conns : pc[c] = "new" => pc'[c] = "new"
      /\ who' = who /\ mu' = None
  BY Zenon DEF Restart
<1>4. ConnType'
  BY <1>1 DEF ConnType, Restart
<1>5. TaskType'
  BY DEF TaskType, Restart
<1>6. LocalInv'
  <2>1. \A c \in Conns : pc'[c] # "new" => pc[c] # "new"
    BY <1>3, Zenon
  <2> QED
    BY <1>1, <1>3, <2>1, TunnelAssumption DEF LocalInv, Id
<1>7. EntryInv' /\ BackedInv' /\ BindInv' /\ ForwardInv' /\ ListenInv' /\ OpenInv'
  BY <1>3 DEF EntryInv, BackedInv, BindInv, ForwardInv, ListenInv, OpenInv, Sitting
<1> QED
  BY <1>2, <1>4, <1>5, <1>6, <1>7, Zenon DEF SessionInv, TypeInv

LEMMA StepKinds ==
  [Next]_vars => \/ CoordinatorStep
                 \/ \E c \in Conns : ConnMove(c)
                 \/ \E k \in Tasks : TaskStep(k)
                 \/ \E r \in Ranges : Restart(r)
BY DEF Next, CoordinatorStep, ConnMove

LEMMA SessionInvInductive ==
  /\ Init => SessionInv
  /\ SessionInv /\ [Next]_vars => SessionInv'
<1>1. Init => SessionInv
  BY TunnelAssumption, NoneAssumption
     DEF Init, RegInit, SessionInv, TypeInv, RegType, ConnType, TaskType, LocalInv, PortInv,
         EntryInv, BackedInv, BindInv, ForwardInv, ListenInv, OpenInv, Id, Sitting
<1> QED
  BY <1>1, StepKinds, QuietStep, ConnMoveStep, TeardownStep, RestartStep

LEMMA SessionInvHolds == Spec => []SessionInv
BY SessionInvInductive, PTL DEF Spec

-----------------------------------------------------------------------------
(* A session is registered only for a lease in the store, or one whose     *)
(* Teardown is still to come (RevokeLease and SweepExpired remove the      *)
(* lease first; RegisterConn checks it under mu).                          *)
THEOREM SessionsAreBacked == Spec => []SessionBacked
<1>1. SessionInv => SessionBacked
  BY DEF SessionInv, BackedInv, SessionBacked, Present
<1> QED
  BY <1>1, SessionInvHolds, PTL

(* No interleaving of takeover, cancel, disconnect, revocation, expiry and *)
(* restart leaks a listener or leaves one on another lease's port          *)
(* (forward.go).                                                           *)
THEOREM ListenersAreAccounted == Spec => []ListenersAccounted
<1>1. SessionInv => ListenersAccounted
  BY DEF SessionInv, ListenInv, ListenersAccounted, Held
<1> QED
  BY <1>1, SessionInvHolds, PTL

(* An open connection that serves requests is its lease's registered one,  *)
(* or is about to be closed (RegisterConn, last writer wins).              *)
THEOREM OneSessionPerLease == Spec => []OneSession
<1>1. SessionInv => OneSession
  BY DEF SessionInv, OpenInv, OneSession, Sitting
<1> QED
  BY <1>1, SessionInvHolds, PTL

(* A bind that StartForward is refused because of another listener of the  *)
(* daemon is a passing conflict.                                           *)
THEOREM BindConflictsPass == Spec => []BindConflictTransient
<1>1. SessionInv => BindConflictTransient
  <2> SUFFICES ASSUME SessionInv, NEW c \in Conns, NEW d \in Conns,
                      pc[c] = "binding", lsn[d] = want[c],
                      ~CloseDue(d), ~TeardownDue(Id(d)), ~TeardownDue(Id(c))
               PROVE  FALSE
    BY DEF BindConflictTransient
  <2>a. LocalInv /\ BindInv /\ ForwardInv /\ ListenInv /\ PortInv
    BY Zenon DEF SessionInv, TypeInv
  <2>1. /\ Id(c) \in LeaseIds /\ Id(d) \in LeaseIds /\ want[c] # None
        /\ Registered(c) /\ ~fwd[c] /\ Registered(d) /\ fwd[d]
        /\ leases[Id(c)] # None /\ leases[Id(c)].port = want[c]
        /\ leases[Id(d)] # None /\ leases[Id(d)].port = want[c]
    BY <2>a, TunnelAssumption DEF LocalInv, BindInv, ForwardInv, ListenInv, Held
  <2> QED
    BY <2>a, <2>1 DEF PortInv, Registered
<1> QED
  BY <1>1, SessionInvHolds, PTL

-----------------------------------------------------------------------------
(* Types.  The rest of TypeOK: the bounds of the counters and the sweep's  *)
(* snapshot, the flags, and the locals of connections and tasks.           *)
SweepInv ==
  /\ minted <= MaxMints /\ now <= MaxTime
  /\ cutoff \in Nat /\ cutoff <= now
  /\ todo \subseteq LeaseIds

FlagInv == open \in [Conns -> BOOLEAN] /\ fwd \in [Conns -> BOOLEAN]

StageInv ==
  /\ pc \in [Conns -> Stages]
  /\ who \in [Conns -> Credential \cup {None}]
  /\ lsn \in [Conns -> Ports \cup {None}]
  /\ old \in [Conns -> Conns \cup {None}]
  /\ want \in [Conns -> Ports \cup {None}]
  /\ mu \in Conns \cup {None}
  /\ \A c \in Conns : /\ who[c] = None <=> pc[c] = "new"
                      /\ old[c] # None <=> pc[c] \in {"evictForward", "evictConn"}
                      /\ want[c] # None <=> pc[c] = "binding"

TaskInv ==
  /\ task \in [Tasks -> TaskStages]
  /\ job \in [Tasks -> LeaseIds \cup {None}]
  /\ victim \in [Tasks -> Conns \cup {None}]
  /\ \A k \in Tasks : /\ job[k] # None <=> task[k] = "teardown"
                      /\ victim[k] # None <=> task[k] \in {"closeForward", "closeConn"}

(* The steps by what they change: the registry and the sweep, the          *)
(* connections, the tasks.                                                 *)
LEMMA TaskSteady ==
  ASSUME NEW k \in Tasks, TaskStep(k)
  PROVE  UNCHANGED <<regVars, cutoff, todo, pc, who, fwd, old, want, mu>>
BY DEF TaskStep, TeardownTake, TeardownForward, TeardownConn

LEMMA ConnSpares ==
  ASSUME NEW c \in Conns, ConnMove(c)
  PROVE  UNCHANGED <<regVars, taskVars>>
BY Zenon DEF ConnMove, ConnStep, CheckLease, RegisterCheck, RegisterInstall, EvictForward,
       EvictConn, ForwardBind, CancelClose, Leave, OnConnClosed, DropForward,
       ForwardCheck, Cancel, Disconnect, Authenticate, Refuse

LEMMA CoordinatorSpares ==
  ASSUME CoordinatorStep
  PROVE  UNCHANGED connVars
BY DEF CoordinatorStep, SweepStep, SweepStart, SweepDone, SweepOne, CreateLease, ExtendLease,
       RevokeLease, Clock, vars

LEMMA SweepInvStep == RegType /\ SweepInv /\ [Next]_vars => SweepInv'
<1> SUFFICES ASSUME RegType, SweepInv, [Next]_vars PROVE SweepInv'
  OBVIOUS
<1>a. minted \in Nat /\ now \in Nat /\ MaxMints \in Nat /\ MaxTime \in Nat
  BY BoundsAssumption DEF RegType
<1>1. ASSUME UNCHANGED <<minted, now, cutoff, todo>> PROVE SweepInv'
  BY <1>1 DEF SweepInv
<1>2. ASSUME NEW c \in Conns, ConnMove(c) PROVE SweepInv'
  BY <1>1, <1>2, ConnSpares DEF regVars, taskVars
<1>3. ASSUME NEW k \in Tasks, TaskStep(k) PROVE SweepInv'
  BY <1>1, <1>3, TaskSteady DEF regVars
<1>4. ASSUME NEW r \in Ranges, Restart(r) PROVE SweepInv'
  <2>1. UNCHANGED <<minted, now>> /\ cutoff' = 0 /\ todo' = {}
    BY <1>4 DEF Restart, Reopen
  <2> QED
    BY <1>a, <2>1 DEF SweepInv
<1>5. ASSUME CoordinatorStep PROVE SweepInv'
  <2>1. CASE UNCHANGED vars
    BY <1>1, <2>1 DEF vars, regVars, taskVars
  <2>2. CASE Clock
    BY <1>a, <2>2 DEF Clock, Tick, taskVars, SweepInv
  <2>3. CASE SweepStart
    BY <1>a, <2>3 DEF SweepStart, regVars, SweepInv
  <2>4. CASE SweepDone
    BY <1>a, <2>4 DEF SweepDone, regVars, SweepInv
  <2>5. ASSUME NEW id \in LeaseIds, SweepOne(id) PROVE SweepInv'
    BY <2>5 DEF SweepOne, Revoke, regVars, SweepInv
  <2>6. ASSUME NEW k \in Callers, NEW id \in LeaseIds, RevokeLease(k, id) PROVE SweepInv'
    BY <1>1, <2>6 DEF RevokeLease, Revoke
  <2>7. ASSUME NEW id \in LeaseIds, NEW d \in Durations, CreateLease(id, d) PROVE SweepInv'
    BY <1>a, <2>7 DEF CreateLease, Grant, taskVars, SweepInv
  <2>8. ASSUME NEW id \in LeaseIds, NEW d \in Durations, ExtendLease(id, d) PROVE SweepInv'
    BY <1>1, <2>8 DEF ExtendLease, Renew, taskVars
  <2> QED
    BY <1>5, <2>1, <2>2, <2>3, <2>4, <2>5, <2>6, <2>7, <2>8, Zenon DEF CoordinatorStep, SweepStep
<1> QED
  BY <1>2, <1>3, <1>4, <1>5, StepKinds, Zenon
LEMMA FlagInvStep == FlagInv /\ [Next]_vars => FlagInv'
<1> SUFFICES ASSUME FlagInv, [Next]_vars PROVE FlagInv'
  OBVIOUS
<1> USE Zenon DEF FlagInv, Hangup
<1>1. ASSUME NEW c \in Conns, ConnMove(c) PROVE FlagInv'
  <2>1. CASE CheckLease(c) \/ RegisterCheck(c) \/ OnConnClosed(c) \/ DropForward(c)
    BY <2>1 DEF CheckLease, RegisterCheck, OnConnClosed, DropForward, Refuse
  <2>2. CASE RegisterInstall(c) \/ EvictForward(c) \/ CancelClose(c) \/ Leave(c)
    BY <2>2 DEF RegisterInstall, EvictForward, CancelClose, Leave
  <2>3. CASE EvictConn(c) \/ ForwardCheck(c) \/ Disconnect(c)
    BY <2>3 DEF EvictConn, ForwardCheck, Disconnect
  <2>4. CASE ForwardBind(c) \/ Cancel(c)
    BY <2>4 DEF ForwardBind, Cancel
  <2>5. ASSUME NEW id \in LeaseIds, Authenticate(c, id) PROVE FlagInv'
    BY <2>5 DEF Authenticate
  <2> QED
    BY <1>1, <2>1, <2>2, <2>3, <2>4, <2>5 DEF ConnMove, ConnStep
<1>2. ASSUME NEW k \in Tasks, TaskStep(k) PROVE FlagInv'
  BY <1>2 DEF TaskStep, TeardownTake, TeardownForward, TeardownConn
<1>3. ASSUME NEW r \in Ranges, Restart(r) PROVE FlagInv'
  BY <1>3 DEF Restart
<1>4. ASSUME CoordinatorStep PROVE FlagInv'
  BY <1>4, CoordinatorSpares DEF connVars
<1> QED
  BY <1>1, <1>2, <1>3, <1>4, StepKinds

LEMMA StageInvStep ==
  TypeInv /\ StageInv /\ [Next]_vars => StageInv'
<1> SUFFICES ASSUME TypeInv, StageInv, [Next]_vars PROVE StageInv'
  OBVIOUS
<1>a. LocalInv
  BY DEF TypeInv
<1>b. /\ \A id \in LeaseIds : table[id] \in Conns \cup {None}
      /\ \A id \in LeaseIds : leases[id] # None => leases[id] \in Lease
  BY DEF TypeInv, ConnType, RegType
<1> USE TunnelAssumption, CredentialAssumption DEF StageInv, Stages, Goto, Hangup
<1>1. ASSUME NEW c \in Conns, ConnMove(c) PROVE StageInv'
  <2>a. pc[c] # "new" => Id(c) \in LeaseIds
    BY <1>a DEF LocalInv
  <2>1. CASE CheckLease(c)
    BY <2>1 DEF CheckLease, Refuse
  <2>2. CASE RegisterCheck(c)
    BY <2>2 DEF RegisterCheck, Refuse
  <2>3. CASE RegisterInstall(c)
    BY <1>b, <2>a, <2>3 DEF RegisterInstall
  <2>4. CASE EvictForward(c)
    BY <2>4 DEF EvictForward, CloseForward
  <2>5. CASE EvictConn(c)
    BY <2>5 DEF EvictConn
  <2>6. CASE ForwardCheck(c)
    <3>1. LeaseLive(Id(c)) /\ pc[c] = "serving" => leases[Id(c)].port \in Ports
      BY <1>b, <2>a DEF LeaseLive, Lease
    <3> QED
      BY <2>6, <3>1 DEF ForwardCheck
  <2>7. CASE ForwardBind(c)
    BY <2>7 DEF ForwardBind
  <2>8. CASE Cancel(c) \/ Leave(c) \/ Disconnect(c)
    BY <2>8 DEF Cancel, Leave, Disconnect
  <2>9. CASE CancelClose(c)
    BY <2>9 DEF CancelClose
  <2>10. CASE OnConnClosed(c)
    BY <2>10 DEF OnConnClosed, Refuse
  <2>11. CASE DropForward(c)
    BY <2>11 DEF DropForward, Refuse, CloseForward
  <2>12. ASSUME NEW id \in LeaseIds, Authenticate(c, id) PROVE StageInv'
    <3>1. [id |-> id, token |-> leases[id].token] \in Credential
      BY <1>b, <2>12 DEF Authenticate, LeaseLive, Lease, Credential
    <3> QED
      BY <2>12, <3>1 DEF Authenticate
  <2> HIDE DEF StageInv, Stages, Goto, Hangup
  <2> QED
    BY <1>1, <2>1, <2>2, <2>3, <2>4, <2>5, <2>6, <2>7, <2>8, <2>9, <2>10, <2>11, <2>12,
       Zenon DEF ConnMove, ConnStep
<1>2. ASSUME NEW k \in Tasks, TaskStep(k) PROVE StageInv'
  <2>1. lsn' \in [Conns -> Ports \cup {None}]
    BY <1>2 DEF TaskStep, TeardownTake, TeardownForward, TeardownConn, CloseForward
  <2>2. UNCHANGED <<pc, who, old, want, mu>>
    BY <1>2, TaskSteady, Zenon
  <2> QED
    BY <2>1, <2>2, Zenon
<1>3. ASSUME NEW r \in Ranges, Restart(r) PROVE StageInv'
  BY <1>3 DEF Restart
<1>4. ASSUME CoordinatorStep PROVE StageInv'
  BY <1>4, CoordinatorSpares DEF connVars
<1> HIDE DEF StageInv, Stages, Goto, Hangup
<1> QED
  BY <1>1, <1>2, <1>3, <1>4, StepKinds, Zenon

LEMMA TaskInvStep ==
  ConnType /\ TaskInv /\ [Next]_vars => TaskInv'
<1> SUFFICES ASSUME ConnType, TaskInv, [Next]_vars PROVE TaskInv'
  OBVIOUS
<1> USE TunnelAssumption, NoneAssumption DEF TaskInv, TaskStages, TaskAt
<1>1. ASSUME NEW c \in Conns, ConnMove(c) PROVE TaskInv'
  BY <1>1, ConnSpares DEF taskVars
<1>2. ASSUME NEW k \in Tasks, TaskStep(k) PROVE TaskInv'
  <2>1. CASE TeardownTake(k)
    <3>1. job[k] \in LeaseIds /\ table[job[k]] \in Conns \cup {None}
      BY <2>1 DEF TeardownTake, ConnType
    <3>2. \E stage \in {"sweeping", "idle", "closeForward"} :
            /\ task' = [task EXCEPT ![k] = stage]
            /\ stage = "closeForward" <=> table[job[k]] # None
      BY <2>1 DEF TeardownTake, Resume
    <3>3. victim' = [victim EXCEPT ![k] = table[job[k]]]
      BY <2>1, Zenon DEF TeardownTake
    <3>4. job' = [job EXCEPT ![k] = None]
      BY <2>1, Zenon DEF TeardownTake
    <3> QED
      BY <3>1, <3>2, <3>3, <3>4
  <2>2. CASE TeardownForward(k) \/ TeardownConn(k)
    BY <2>2 DEF TeardownForward, TeardownConn, Resume
  <2> QED
    BY <1>2, <2>1, <2>2 DEF TaskStep
<1>3. ASSUME NEW r \in Ranges, Restart(r) PROVE TaskInv'
  BY <1>3 DEF Restart
<1>4. ASSUME CoordinatorStep PROVE TaskInv'
  <2>0. Sweeper \in Tasks /\ \A k \in Callers : k \in Tasks
    BY DEF Tasks
  <2>1. CASE Clock \/ UNCHANGED vars
    BY <2>1 DEF Clock, vars, taskVars
  <2>2. CASE SweepStart \/ SweepDone
    BY <2>0, <2>2 DEF SweepStart, SweepDone
  <2>3. ASSUME NEW id \in LeaseIds, SweepOne(id) PROVE TaskInv'
    BY <2>0, <2>3 DEF SweepOne
  <2>4. ASSUME NEW k \in Callers, NEW id \in LeaseIds, RevokeLease(k, id) PROVE TaskInv'
    BY <2>0, <2>4 DEF RevokeLease
  <2>5. ASSUME NEW id \in LeaseIds, NEW d \in Durations, CreateLease(id, d) \/ ExtendLease(id, d)
        PROVE  TaskInv'
    BY <2>5 DEF CreateLease, ExtendLease, taskVars
  <2> HIDE DEF TaskInv, TaskStages, TaskAt
  <2> QED
    BY <1>4, <2>1, <2>2, <2>3, <2>4, <2>5, Zenon DEF CoordinatorStep, SweepStep
<1> HIDE DEF TaskInv, TaskStages, TaskAt
<1> QED
  BY <1>1, <1>2, <1>3, <1>4, StepKinds, Zenon
LEMMA TypesInductive ==
  Spec => [](SessionInv /\ SweepInv /\ FlagInv /\ StageInv /\ TaskInv)
<1>1. Init => SweepInv /\ FlagInv /\ StageInv /\ TaskInv
  <2> SUFFICES ASSUME Init PROVE SweepInv /\ FlagInv /\ StageInv /\ TaskInv
    OBVIOUS
  <2>1. SweepInv
    BY BoundsAssumption DEF Init, RegInit, SweepInv
  <2>2. FlagInv
    BY Zenon DEF Init, FlagInv
  <2>3. StageInv
    BY DEF Init, StageInv, Stages
  <2>4. TaskInv
    BY DEF Init, TaskInv, TaskStages
  <2> QED
    BY <2>1, <2>2, <2>3, <2>4
<1>2. SessionInv => RegType /\ ConnType /\ TypeInv
  BY Zenon DEF SessionInv, TypeInv
<1> QED
  BY <1>1, <1>2, SessionInvHolds, SweepInvStep, FlagInvStep, StageInvStep, TaskInvStep, PTL
     DEF Spec

(* Types, and the discipline of the locals: Manager.mu is held exactly     *)
(* inside RegisterConn and StartForward, and each local of those, of       *)
(* Teardown and of the sweep has a value exactly where its code runs.      *)
THEOREM TunnelTypes == Spec => []TypeOK
<1>1. SessionInv /\ SweepInv /\ FlagInv /\ StageInv /\ TaskInv => TypeOK
  <2> SUFFICES ASSUME SessionInv, SweepInv, FlagInv, StageInv, TaskInv PROVE TypeOK
    OBVIOUS
  <2>1. RegType /\ ConnType /\ LocalInv
    BY Zenon DEF SessionInv, TypeInv
  <2>2. minted \in 0 .. MaxMints /\ now \in 0 .. MaxTime /\ cutoff \in 0 .. MaxTime
    BY <2>1, BoundsAssumption DEF RegType, SweepInv
  <2>3. \A c \in Conns : mu = c <=> pc[c] \in {"registering", "binding"}
    BY <2>1 DEF LocalInv
  <2> QED
    BY <2>1, <2>2, <2>3, Zenon DEF RegType, ConnType, SweepInv, FlagInv, StageInv, TaskInv, TypeOK
<1> QED
  BY <1>1, TypesInductive, PTL

-----------------------------------------------------------------------------
(* However old the sweep's snapshot and its cutoff are when it comes to a  *)
(* lease, it removes none that has been renewed meanwhile; only a call of  *)
(* RevokeLease removes a lease that still runs (MarkExpiredIfBefore reads  *)
(* the expiry again), as long as every range the daemon is restarted with  *)
(* holds every port.                                                       *)
THEOREM SweepsSpareRenewed ==
  ASSUME \A r \in Ranges : Ports \subseteq r.min .. r.max
  PROVE  Spec => SweepSparesRenewed
<1> DEFINE Spared(id) ==
      LeaseLive(id) /\ leases'[id] = None =>
        \E k \in Callers : task[k] = "idle" /\ task'[k] = "teardown" /\ job'[k] = id
<1>1. RegType /\ SweepInv /\ TaskInv /\ [Next]_vars => \A id \in LeaseIds : Spared(id)
  <2> SUFFICES ASSUME RegType, SweepInv, TaskInv, [Next]_vars,
                      NEW id \in LeaseIds, LeaseLive(id), leases'[id] = None
               PROVE  \E k \in Callers :
                        task[k] = "idle" /\ task'[k] = "teardown" /\ job'[k] = id
    OBVIOUS
  <2>1. leases[id] # None /\ leases[id] \in Lease /\ now < leases[id].expires
    BY DEF LeaseLive, Expired, RegType, Lease
  <2>2. leases' # leases
    BY <2>1
  <2>3. ~ \E c \in Conns : ConnMove(c)
    BY <2>2, ConnSpares DEF regVars
  <2>4. ~ \E k \in Tasks : TaskStep(k)
    BY <2>2, TaskSteady DEF regVars
  <2>5. ~ \E r \in Ranges : Restart(r)
    <3> SUFFICES ASSUME NEW r \in Ranges, Restart(r) PROVE FALSE
      OBVIOUS
    <3>1. leases[id].port \in r.min .. r.max
      BY <2>1 DEF Lease
    <3> QED
      BY <2>1, <3>1 DEF LeaseLive, Restart, Reopen, Kept
  <2>6. PICK k \in Callers, j \in LeaseIds : RevokeLease(k, j)
    <3>1. ~ (SweepStart \/ SweepDone \/ Clock \/ UNCHANGED vars)
      BY <2>2 DEF SweepStart, SweepDone, Clock, Tick, vars, regVars
    <3>2. ASSUME NEW j \in LeaseIds, SweepOne(j) PROVE FALSE
      <4>1. j = id /\ leases[id].expires <= cutoff
        BY <2>1, <2>2, <3>2 DEF SweepOne, StillExpired, Revoke, RegType, regVars
      <4>2. now \in Nat /\ cutoff \in Nat /\ cutoff <= now
        BY Zenon DEF SweepInv, RegType
      <4> QED
        BY <2>1, <4>1, <4>2 DEF Lease
    <3>3. ASSUME NEW j \in LeaseIds, NEW d \in Durations, CreateLease(j, d) PROVE FALSE
      BY <2>1, <3>3 DEF CreateLease, Grant, RegType
    <3>4. ASSUME NEW j \in LeaseIds, NEW d \in Durations, ExtendLease(j, d) PROVE FALSE
      BY <2>1, <3>4, NoneAssumption, BoundsAssumption
         DEF ExtendLease, Renew, Prolonged, RegType, Lease
    <3> QED
      BY <2>3, <2>4, <2>5, <3>1, <3>2, <3>3, <3>4, StepKinds, Zenon DEF CoordinatorStep, SweepStep
  <2>7. j = id
    <3>1. leases' = [leases EXCEPT ![j] = None]
      BY <2>6, Zenon DEF RevokeLease, Revoke
    <3> QED
      BY <2>1, <3>1, Zenon DEF RegType
  <2>8. task'[k] = "teardown" /\ job'[k] = j
    BY <2>6 DEF RevokeLease, TaskAt, TaskInv, Tasks
  <2> QED
    BY <2>6, <2>7, <2>8 DEF RevokeLease
<1>2. SessionInv => RegType
  BY Zenon DEF SessionInv, TypeInv
<1>3. SessionInv /\ SweepInv /\ TaskInv /\ [Next]_vars => [\A id \in LeaseIds : Spared(id)]_vars
  BY <1>1, <1>2, Zenon
<1> QED
  BY <1>3, TypesInductive, PTL DEF Spec, SweepSparesRenewed
-----------------------------------------------------------------------------
(* The daemon uses the store as LeaseRegistry says: every interleaving of  *)
(* its goroutines takes the registry through steps of the registry alone,  *)
(* which are the steps LeaseStore is shown to offer (coordinator.go).      *)
THEOREM DaemonUsesRegistry == Spec => RegSpec
<1>1. Init => RegInit
  BY DEF Init
<1>2. [Next]_vars => [RegNext]_regVars
  <2> SUFFICES ASSUME [Next]_vars PROVE RegNext \/ UNCHANGED regVars
    BY Zenon
  <2>1. CASE CoordinatorStep
    <3>1. CASE SweepStart \/ SweepDone \/ UNCHANGED vars
      BY <3>1, Zenon DEF SweepStart, SweepDone, vars
    <3>2. CASE Clock
      BY <3>2, Zenon DEF Clock, RegNext
    <3>3. ASSUME NEW id \in LeaseIds, SweepOne(id) PROVE RegNext \/ UNCHANGED regVars
      BY <3>3, Zenon DEF SweepOne, RegNext
    <3>4. ASSUME NEW k \in Callers, NEW id \in LeaseIds, RevokeLease(k, id) PROVE RegNext
      BY <3>4, Zenon DEF RevokeLease, RegNext
    <3>5. ASSUME NEW id \in LeaseIds, NEW d \in Durations, CreateLease(id, d) PROVE RegNext
      BY <3>5, Zenon DEF CreateLease, RegNext
    <3>6. ASSUME NEW id \in LeaseIds, NEW d \in Durations, ExtendLease(id, d) PROVE RegNext
      BY <3>6, Zenon DEF ExtendLease, RegNext
    <3> QED
      BY <2>1, <3>1, <3>2, <3>3, <3>4, <3>5, <3>6, Zenon DEF CoordinatorStep, SweepStep
  <2>2. ASSUME NEW c \in Conns, ConnMove(c) PROVE UNCHANGED regVars
    BY <2>2, ConnSpares, Zenon
  <2>3. ASSUME NEW k \in Tasks, TaskStep(k) PROVE UNCHANGED regVars
    BY <2>3, TaskSteady, Zenon
  <2>4. ASSUME NEW r \in Ranges, Restart(r) PROVE RegNext
    BY <2>4, Zenon DEF Restart, RegNext
  <2> QED
    BY <2>1, <2>2, <2>3, <2>4, StepKinds, Zenon
<1> QED
  BY <1>1, <1>2, PTL DEF Spec, RegSpec
=============================================================================
