--------------------------- MODULE VisitorForward ---------------------------
(***************************************************************************)
(* The data path of one leaseState (sshd/forward.go): its successive       *)
(* forwards, and one handleVisitor goroutine per accepted public           *)
(* connection, racing the close of the forward and of the SSH connection.  *)
(*                                                                         *)
(* A forward's visitors map is tracked[g], the visitors of generation g    *)
(* that are in it, and chanSet, those whose SSH channel is recorded there. *)
(* The visitor counter belongs to the leaseState, so it spans generations. *)
(* What travels through a pipe is left out; which copy is blocked on what  *)
(* is kept.                                                                *)
(***************************************************************************)
EXTENDS Integers, FiniteSets

CONSTANTS
  Visitors,       \* public connections of a behaviour
  MaxVisitors,    \* m.maxVisitors
  MaxGens,        \* bound: forwards one SSH connection starts
  Networks        \* allowlist entries that parse, as sets of visitors; one
                  \* whose address yields no IP is in none of them

ASSUME VisitorAssumption ==
  MaxVisitors \in Nat /\ MaxGens \in Nat /\ IsFiniteSet(Visitors)

Gens == 1 .. MaxGens

VARIABLES
  connOpen,     \* the SSH connection is open
  registered,   \* the leaseState is in m.leases
  current,      \* generation of st.forward, 0 when nil
  forward,      \* stage of each forward
  tracked,      \* f.visitors of each forward
  chanSet,      \* visitors whose channel is recorded in f.visitors
  count,        \* st.visitors
  pc, gen,      \* of each handleVisitor: its stage and its forward
  loaded,       \* the counter value it read
  sock,         \* the visitor's socket is open on this side
  channel,      \* the SSH channel is open on this side
  copying,      \* the copy directions still running
  allowNets,    \* f.allowNets: the entries of the allowlist that parsed
  allowlistSet  \* f.allowlistSet

fwdVars == <<connOpen, registered, current, forward>>
visVars == <<tracked, chanSet, count, pc, gen, loaded, sock, channel, copying>>
listVars == <<allowNets, allowlistSet>>
vars == <<fwdVars, visVars, listVars>>

Init ==
  /\ connOpen = TRUE /\ registered = TRUE /\ current = 0
  /\ forward = [g \in Gens |-> "none"]
  /\ tracked = [g \in Gens |-> {}] /\ chanSet = {} /\ count = 0
  /\ pc = [v \in Visitors |-> "none"] /\ gen = [v \in Visitors |-> 0]
  /\ loaded = [v \in Visitors |-> 0]
  /\ sock = [v \in Visitors |-> FALSE] /\ channel = [v \in Visitors |-> FALSE]
  /\ copying = [v \in Visitors |-> {}]
  /\ allowNets \in SUBSET Networks
  \* an entry that does not parse leaves allowNets but still sets the flag
  /\ allowlistSet \in (IF allowNets = {} THEN BOOLEAN ELSE {TRUE})

Goto(v, stage) == pc' = [pc EXCEPT ![v] = stage]

-----------------------------------------------------------------------------
(* The forward. *)

(* StartForward; CancelForward has returned before the next request. *)
StartForward ==
  /\ registered /\ current = 0
  /\ \A g \in Gens : forward[g] \in {"none", "closed"}
  /\ \E g \in Gens :
       /\ forward[g] = "none" /\ \A h \in 1 .. g - 1 : forward[h] # "none"
       /\ forward' = [forward EXCEPT ![g] = "listening"]
       /\ current' = g
  /\ UNCHANGED <<connOpen, registered, visVars, listVars>>

CancelForward ==
  /\ registered /\ current # 0
  /\ current' = 0
  /\ UNCHANGED <<connOpen, registered, forward, visVars, listVars>>

(* Teardown, a takeover or OnConnClosed takes the leaseState out. *)
Unregister ==
  /\ registered
  /\ registered' = FALSE
  /\ UNCHANGED <<connOpen, current, forward, visVars, listVars>>

Hangup ==
  /\ connOpen
  /\ connOpen' = FALSE
  /\ UNCHANGED <<registered, current, forward, visVars, listVars>>

(* close(), by whoever took the forward: the listener first ... *)
CloseListener(g) ==
  /\ forward[g] = "listening" /\ (~registered \/ current # g)
  /\ forward' = [forward EXCEPT ![g] = "closing"]
  /\ UNCHANGED <<connOpen, registered, current, visVars, listVars>>

(* Mutant: only the visitor sockets are closed. *)
CloseSocketsOnly(g) ==
  /\ forward[g] = "closing"
  /\ forward' = [forward EXCEPT ![g] = "closed"]
  /\ sock' = [v \in Visitors |-> sock[v] /\ v \notin tracked[g]]
  /\ tracked' = [tracked EXCEPT ![g] = {}]
  /\ chanSet' = chanSet \ tracked[g]
  /\ UNCHANGED <<connOpen, registered, current, count, pc, gen, loaded, channel, copying,
                 listVars>>

(* Mutant: only the channels are closed. *)
CloseChannelsOnly(g) ==
  /\ forward[g] = "closing"
  /\ forward' = [forward EXCEPT ![g] = "closed"]
  /\ channel' = [v \in Visitors |-> channel[v] /\ v \notin tracked[g] \cap chanSet]
  /\ tracked' = [tracked EXCEPT ![g] = {}]
  /\ chanSet' = chanSet \ tracked[g]
  /\ UNCHANGED <<connOpen, registered, current, count, pc, gen, loaded, sock, copying,
                 listVars>>

(* ... then, under vmu, the sockets and channels of every tracked visitor. *)
CloseVisitors(g) ==
  /\ forward[g] = "closing"
  /\ forward' = [forward EXCEPT ![g] = "closed"]
  /\ sock' = [v \in Visitors |-> sock[v] /\ v \notin tracked[g]]
  /\ channel' = [v \in Visitors |-> channel[v] /\ v \notin tracked[g] \cap chanSet]
  /\ tracked' = [tracked EXCEPT ![g] = {}]
  /\ chanSet' = chanSet \ tracked[g]
  /\ UNCHANGED <<connOpen, registered, current, count, pc, gen, loaded, copying, listVars>>

-----------------------------------------------------------------------------
(* handleVisitor. *)

Accept(v, g) ==
  /\ pc[v] = "none" /\ forward[g] = "listening"
  /\ gen' = [gen EXCEPT ![v] = g]
  /\ sock' = [sock EXCEPT ![v] = TRUE]
  /\ Goto(v, "accepted")
  /\ UNCHANGED <<fwdVars, tracked, chanSet, count, loaded, channel, copying, listVars>>

allows(v) ==
  IF allowNets = {} THEN ~allowlistSet ELSE \E n \in allowNets : v \in n

Admitted(v) ==
  allowlistSet \/ allowNets # {} => allows(v)

(* Mutant: the closed flag is not looked at. *)
TrackClosed(v) ==
  /\ pc[v] = "accepted"
  /\ \/ /\ Admitted(v)
        /\ tracked' = [tracked EXCEPT ![gen[v]] = @ \cup {v}]
        /\ Goto(v, "tracked")
     \/ ~Admitted(v) /\ Goto(v, "leave") /\ UNCHANGED tracked
  /\ UNCHANGED <<fwdVars, chanSet, count, gen, loaded, sock, channel, copying, listVars>>

(* The allowlist, then trackVisitor.  A refused visitor, and one that      *)
(* comes after the close, only has its socket closed.                      *)
Track(v) ==
  /\ pc[v] = "accepted"
  /\ \/ /\ Admitted(v) /\ forward[gen[v]] # "closed"
        /\ tracked' = [tracked EXCEPT ![gen[v]] = @ \cup {v}]
        /\ Goto(v, "tracked")
     \/ /\ ~Admitted(v) \/ forward[gen[v]] = "closed"
        /\ Goto(v, "leave") /\ UNCHANGED tracked
  /\ UNCHANGED <<fwdVars, chanSet, count, gen, loaded, sock, channel, copying, listVars>>

(* reserveVisitorSlot: the load and the bound ... *)
LoadCount(v) ==
  /\ pc[v] = "tracked"
  /\ \/ count >= MaxVisitors /\ Goto(v, "untrack") /\ UNCHANGED loaded
     \/ /\ count < MaxVisitors /\ Goto(v, "loaded")
        /\ loaded' = [loaded EXCEPT ![v] = count]
  /\ UNCHANGED <<fwdVars, tracked, chanSet, count, gen, sock, channel, copying, listVars>>

(* Mutant: a plain store of the value read plus one. *)
StoreCount(v) ==
  /\ pc[v] = "loaded"
  /\ count' = loaded[v] + 1 /\ Goto(v, "reserved")
  /\ loaded' = [loaded EXCEPT ![v] = 0]
  /\ UNCHANGED <<fwdVars, tracked, chanSet, gen, sock, channel, copying, listVars>>

(* ... then the compare-and-swap, which starts over when it loses. *)
SwapCount(v) ==
  /\ pc[v] = "loaded"
  /\ \/ count = loaded[v] /\ count' = loaded[v] + 1 /\ Goto(v, "reserved")
     \/ count # loaded[v] /\ Goto(v, "tracked") /\ UNCHANGED count
  /\ loaded' = [loaded EXCEPT ![v] = 0]
  /\ UNCHANGED <<fwdVars, tracked, chanSet, gen, sock, channel, copying, listVars>>

(* OpenChannel returns when the client answers, or when the connection is  *)
(* gone (an answer that came before may still be what it returns).         *)
ChannelOpened(v) ==
  /\ pc[v] = "reserved"
  /\ channel' = [channel EXCEPT ![v] = TRUE]
  /\ Goto(v, "opened")
  /\ UNCHANGED <<fwdVars, tracked, chanSet, count, gen, loaded, sock, copying, listVars>>

ChannelRefused(v) ==
  /\ pc[v] = "reserved"
  /\ Goto(v, "release")
  /\ UNCHANGED <<fwdVars, tracked, chanSet, count, gen, loaded, sock, channel, copying,
                 listVars>>

(* Mutant: the pipe starts without recording the channel. *)
PipeUnrecorded(v) ==
  /\ pc[v] = "opened"
  /\ copying' = [copying EXCEPT ![v] = {"in", "out"}]
  /\ Goto(v, "piping")
  /\ UNCHANGED <<fwdVars, tracked, chanSet, count, gen, loaded, sock, channel, listVars>>

setVisitorChannel(v) ==
  /\ pc[v] = "opened"
  /\ \/ /\ forward[gen[v]] # "closed" /\ v \in tracked[gen[v]]
        /\ chanSet' = chanSet \cup {v}
        /\ copying' = [copying EXCEPT ![v] = {"in", "out"}]
        /\ Goto(v, "piping")
     \/ /\ forward[gen[v]] = "closed" \/ v \notin tracked[gen[v]]
        /\ Goto(v, "release") /\ UNCHANGED <<chanSet, copying>>
  /\ UNCHANGED <<fwdVars, tracked, count, gen, loaded, sock, channel, listVars>>

(* One io.Copy returns. *)
CopyEnds(v, dir) ==
  /\ pc[v] = "piping" /\ dir \in copying[v]
  /\ copying' = [copying EXCEPT ![v] = @ \ {dir}]
  /\ UNCHANGED <<fwdVars, tracked, chanSet, count, pc, gen, loaded, sock, channel, listVars>>

(* wg.Wait returns. *)
PipeDone(v) ==
  /\ pc[v] = "piping" /\ copying[v] = {}
  /\ Goto(v, "release")
  /\ UNCHANGED <<fwdVars, tracked, chanSet, count, gen, loaded, sock, channel, copying,
                 listVars>>

(* The deferred calls: close the channel and give the slot back, then      *)
(* untrack, and last close the socket.                                     *)
Release(v) ==
  /\ pc[v] = "release"
  /\ channel' = [channel EXCEPT ![v] = FALSE]
  /\ count' = count - 1
  /\ Goto(v, "untrack")
  /\ UNCHANGED <<fwdVars, tracked, chanSet, gen, loaded, sock, copying, listVars>>

untrackVisitor(v) ==
  /\ pc[v] = "untrack"
  /\ tracked' = [tracked EXCEPT ![gen[v]] = @ \ {v}]
  /\ chanSet' = chanSet \ {v}
  /\ Goto(v, "leave")
  /\ UNCHANGED <<fwdVars, count, gen, loaded, sock, channel, copying, listVars>>

CloseSocket(v) ==
  /\ pc[v] = "leave"
  /\ sock' = [sock EXCEPT ![v] = FALSE]
  /\ Goto(v, "done")
  /\ UNCHANGED <<fwdVars, tracked, chanSet, count, gen, loaded, channel, copying, listVars>>

Next ==
  \/ StartForward \/ CancelForward \/ Unregister \/ Hangup
  \/ \E g \in Gens : CloseListener(g) \/ CloseVisitors(g)
  \/ \E v \in Visitors :
       \/ \E g \in Gens : Accept(v, g)
       \/ Track(v) \/ LoadCount(v) \/ SwapCount(v)
       \/ ChannelOpened(v) \/ ChannelRefused(v) \/ setVisitorChannel(v)
       \/ \E dir \in {"in", "out"} : CopyEnds(v, dir)
       \/ PipeDone(v) \/ Release(v) \/ untrackVisitor(v) \/ CloseSocket(v)

Spec == Init /\ [][Next]_vars

(* The goroutines keep running.  OnConnClosed follows a lost connection,   *)
(* and whoever unregisters the leaseState hangs up.  Neither the visitor   *)
(* nor the client owes anything: OpenChannel is sure to return once the    *)
(* connection is gone, and a copy, which may block on either end, once the *)
(* socket is closed here and the connection is gone.                       *)
Fairness ==
  /\ WF_vars(~connOpen /\ Unregister) /\ WF_vars(~registered /\ Hangup)
  /\ \A g \in Gens : WF_vars(CloseListener(g)) /\ WF_vars(CloseVisitors(g))
  /\ \A v \in Visitors :
       /\ WF_vars(Track(v)) /\ WF_vars(LoadCount(v)) /\ WF_vars(SwapCount(v))
       /\ WF_vars(~connOpen /\ (ChannelOpened(v) \/ ChannelRefused(v)))
       /\ WF_vars(setVisitorChannel(v))
       /\ \A dir \in {"in", "out"} : WF_vars(~sock[v] /\ ~connOpen /\ CopyEnds(v, dir))
       /\ WF_vars(PipeDone(v)) /\ WF_vars(Release(v))
       /\ WF_vars(untrackVisitor(v)) /\ WF_vars(CloseSocket(v))

FairSpec == Spec /\ Fairness

-----------------------------------------------------------------------------
Stages == {"none", "accepted", "tracked", "loaded", "reserved", "opened", "piping",
           "release", "untrack", "leave", "done"}

(* The types; a visitor is tracked only by the forward that accepted it,   *)
(* and by none that is closed (close sets visitors to nil for good).       *)
TypeOK ==
  /\ connOpen \in BOOLEAN /\ registered \in BOOLEAN
  /\ current \in 0 .. MaxGens
  /\ forward \in [Gens -> {"none", "listening", "closing", "closed"}]
  /\ tracked \in [Gens -> SUBSET Visitors] /\ chanSet \subseteq UNION {tracked[g] : g \in Gens}
  /\ \A g \in Gens : \A v \in tracked[g] : gen[v] = g /\ forward[g] \in {"listening", "closing"}
  /\ count \in Int
  /\ pc \in [Visitors -> Stages] /\ gen \in [Visitors -> 0 .. MaxGens]
  /\ loaded \in [Visitors -> 0 .. MaxVisitors]
  /\ sock \in [Visitors -> BOOLEAN] /\ channel \in [Visitors -> BOOLEAN]
  /\ copying \in [Visitors -> SUBSET {"in", "out"}]
  /\ allowNets \subseteq Networks /\ allowlistSet \in BOOLEAN

(* The visitors that hold a slot. *)
Holding == {v \in Visitors : pc[v] \in {"reserved", "opened", "piping", "release"}}

(* The counter is the number of visitors that hold a slot and never above  *)
(* the cap, whatever reserveVisitorSlot calls race, on which early return  *)
(* handleVisitor leaves, and across a cancel and a new forward.            *)
SlotsExact == count = Cardinality(Holding) /\ count <= MaxVisitors

(* Once close() is done no visitor it had to reach is left up: a handler   *)
(* past trackVisitor has its socket closed, and one that pipes its channel *)
(* too, whichever side won the race for vmu.                               *)
CloseReachesAll ==
  \A v \in Visitors : gen[v] # 0 /\ forward[gen[v]] = "closed" =>
    /\ pc[v] \in Stages \ {"accepted", "leave"} => ~sock[v]
    /\ pc[v] = "piping" => ~channel[v]

(* A lease whose allowlist was set serves only visitors in a network of    *)
(* it, and nobody when no entry of the list parsed (allows fails closed).  *)
FailClosed ==
  allowlistSet => Holding \subseteq UNION allowNets

(* Once the leaseState is out of the manager, every slot comes back and    *)
(* every visitor socket is closed, whatever visitors and client do: wg.Wait *)
(* returns and the deferred decrement runs.                                *)
TeardownDrains ==
  ~registered ~> (count = 0 /\ \A v \in Visitors : ~sock[v])

(* External: a client answers the close of a channel with its own.         *)
ClientAnswers ==
  \A v \in Visitors : \A dir \in {"in", "out"} :
    WF_vars(~sock[v] /\ ~channel[v] /\ CopyEnds(v, dir))

(* With such a client, cancel-tcpip-forward ends the pipes it cut although *)
(* the SSH connection stays up: close() closes BOTH ends of each.          *)
CancelEndsPipes ==
  ClientAnswers =>
    \A v \in Visitors :
      (pc[v] = "piping" /\ forward[gen[v]] = "closed") ~> pc[v] = "done"
=============================================================================
