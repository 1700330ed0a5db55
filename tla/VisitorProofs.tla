---------------------------- MODULE VisitorProofs ----------------------------
(***************************************************************************)
(* Proofs about VisitorForward, for any visitors, cap, allowlist and       *)
(* number of forwards.                                                     *)
(***************************************************************************)
EXTENDS VisitorForward, FiniteSetTheorems, TLAPS

(* handleVisitor between trackVisitor and untrackVisitor. *)
Inside == {"tracked", "loaded", "reserved", "opened", "piping", "release", "untrack"}

StageInv ==
  /\ DOMAIN pc = Visitors /\ DOMAIN gen = Visitors /\ DOMAIN loaded = Visitors
  /\ DOMAIN forward = Gens /\ DOMAIN tracked = Gens
  /\ \A v \in Visitors : pc[v] # "none" => gen[v] \in Gens
  /\ \A v \in Visitors : pc[v] = "none" => gen[v] = 0

(* What the bound of reserveVisitorSlot rests on: a value that passed the  *)
(* test is below the cap, and the swap stores only what it was computed    *)
(* from.                                                                   *)
SlotInv ==
  /\ SlotsExact
  /\ \A v \in Visitors : pc[v] = "loaded" => loaded[v] < MaxVisitors

(* Whoever is past the allowlist is in one of its networks. *)
AdmitInv ==
  \A v \in Visitors : pc[v] \in Inside /\ allowlistSet => v \in UNION allowNets

(* A visitor inside is in the forward's map, or was and close() has seen   *)
(* it; while the forward is open its pipe is recorded there.               *)
ReachInv ==
  /\ DOMAIN sock = Visitors /\ DOMAIN channel = Visitors
  /\ \A g \in Gens : \A v \in tracked[g] : v \in Visitors /\ gen[v] = g /\ pc[v] \in Inside
  /\ \A v \in Visitors :
       /\ pc[v] = "done" => ~sock[v]
       /\ pc[v] \in Inside =>
            \/ v \in tracked[gen[v]] /\ forward[gen[v]] # "closed"
            \/ forward[gen[v]] = "closed" /\ ~sock[v] /\ (pc[v] = "piping" => ~channel[v])
       /\ (pc[v] = "piping" /\ forward[gen[v]] # "closed") => v \in chanSet

-----------------------------------------------------------------------------
LEMMA StageStep == StageInv /\ [Next]_vars => StageInv'
<1> SUFFICES ASSUME StageInv, [Next]_vars PROVE StageInv'
  OBVIOUS
<1> USE VisitorAssumption DEF StageInv, fwdVars, visVars, listVars, Goto, Gens
<1>1. CASE StartForward \/ CancelForward \/ Unregister \/ Hangup \/ UNCHANGED vars
  BY <1>1 DEF StartForward, CancelForward, Unregister, Hangup, vars
<1>2. ASSUME NEW g \in Gens, CloseListener(g) \/ CloseVisitors(g) PROVE StageInv'
  BY <1>2 DEF CloseListener, CloseVisitors
<1>3. ASSUME NEW v \in Visitors, NEW g \in Gens, Accept(v, g) PROVE StageInv'
  BY <1>3 DEF Accept
<1>4. ASSUME NEW v \in Visitors, Track(v) \/ LoadCount(v) \/ SwapCount(v) PROVE StageInv'
  BY <1>4 DEF Track, LoadCount, SwapCount
<1>5. ASSUME NEW v \in Visitors,
             \/ ChannelOpened(v) \/ ChannelRefused(v) \/ setVisitorChannel(v)
             \/ \E dir \in {"in", "out"} : CopyEnds(v, dir)
      PROVE  StageInv'
  BY <1>5 DEF ChannelOpened, ChannelRefused, setVisitorChannel, CopyEnds
<1>6. ASSUME NEW v \in Visitors,
             PipeDone(v) \/ Release(v) \/ untrackVisitor(v) \/ CloseSocket(v)
      PROVE  StageInv'
  BY <1>6 DEF PipeDone, Release, untrackVisitor, CloseSocket
<1> QED
  BY <1>1, <1>2, <1>3, <1>4, <1>5, <1>6 DEF Next

LEMMA AdmitStep == StageInv /\ AdmitInv /\ [Next]_vars => AdmitInv'
<1> SUFFICES ASSUME StageInv, AdmitInv, [Next]_vars PROVE AdmitInv'
  OBVIOUS
<1> USE DEF StageInv, AdmitInv, Inside, fwdVars, visVars, listVars, Goto
<1>1. CASE StartForward \/ CancelForward \/ Unregister \/ Hangup \/ UNCHANGED vars
  BY <1>1, Zenon DEF StartForward, CancelForward, Unregister, Hangup, vars
<1>2. ASSUME NEW g \in Gens, CloseListener(g) \/ CloseVisitors(g) PROVE AdmitInv'
  BY <1>2, Zenon DEF CloseListener, CloseVisitors
<1>3. ASSUME NEW v \in Visitors, NEW g \in Gens, Accept(v, g) PROVE AdmitInv'
  BY <1>3 DEF Accept
<1>4. ASSUME NEW v \in Visitors, Track(v) PROVE AdmitInv'
  <2>1. Admitted(v) /\ allowlistSet => v \in UNION allowNets
    BY DEF Admitted, allows
  <2> QED
    BY <1>4, <2>1 DEF Track
<1>5. ASSUME NEW v \in Visitors,
             \/ LoadCount(v) \/ SwapCount(v)
             \/ ChannelOpened(v) \/ ChannelRefused(v) \/ setVisitorChannel(v)
             \/ \E dir \in {"in", "out"} : CopyEnds(v, dir)
      PROVE  AdmitInv'
  BY <1>5, Zenon DEF LoadCount, SwapCount, ChannelOpened, ChannelRefused, setVisitorChannel, CopyEnds
<1>6. ASSUME NEW v \in Visitors,
             PipeDone(v) \/ Release(v) \/ untrackVisitor(v) \/ CloseSocket(v)
      PROVE  AdmitInv'
  BY <1>6, Zenon DEF PipeDone, Release, untrackVisitor, CloseSocket
<1> QED
  BY <1>1, <1>2, <1>3, <1>4, <1>5, <1>6 DEF Next

LEMMA HoldingFinite == IsFiniteSet(Holding)
BY VisitorAssumption, FS_Subset DEF Holding

LEMMA SlotStep == StageInv /\ SlotInv /\ [Next]_vars => SlotInv'
<1> SUFFICES ASSUME StageInv, SlotInv, [Next]_vars PROVE SlotInv'
  OBVIOUS
<1> USE VisitorAssumption DEF StageInv, SlotInv, SlotsExact, fwdVars, visVars, listVars, Goto
<1>0. Cardinality(Holding) \in Nat /\ count \in Nat
  BY HoldingFinite, FS_CardinalityType
<1>1. CASE StartForward \/ CancelForward \/ Unregister \/ Hangup \/ UNCHANGED vars
  BY <1>1 DEF StartForward, CancelForward, Unregister, Hangup, vars, Holding
<1>2. ASSUME NEW g \in Gens, CloseListener(g) \/ CloseVisitors(g) PROVE SlotInv'
  BY <1>2, Zenon DEF CloseListener, CloseVisitors, Holding
<1>3. ASSUME NEW v \in Visitors, NEW g \in Gens, Accept(v, g) PROVE SlotInv'
  <2>1. Holding' = Holding
    BY <1>3 DEF Accept, Holding
  <2> QED
    BY <1>3, <2>1 DEF Accept
<1>4. ASSUME NEW v \in Visitors, Track(v) \/ LoadCount(v) PROVE SlotInv'
  <2>1. Holding' = Holding
    BY <1>4 DEF Track, LoadCount, Holding
  <2> QED
    BY <1>0, <1>4, <2>1 DEF Track, LoadCount
<1>5. ASSUME NEW v \in Visitors, SwapCount(v) PROVE SlotInv'
  <2>1. CASE count # loaded[v]
    <3>1. Holding' = Holding
      BY <1>5, <2>1 DEF SwapCount, Holding
    <3> QED
      BY <1>5, <2>1, <3>1 DEF SwapCount
  <2>2. CASE count = loaded[v]
    <3>1. Holding' = Holding \cup {v} /\ v \notin Holding
      BY <1>5, <2>2 DEF SwapCount, Holding
    <3>2. Cardinality(Holding') = Cardinality(Holding) + 1
      BY <3>1, HoldingFinite, FS_AddElement, Zenon
    <3>3. count' = count + 1 /\ count + 1 <= MaxVisitors
      BY <1>0, <1>5, <2>2 DEF SwapCount
    <3>4. \A u \in Visitors : pc'[u] = "loaded" => loaded'[u] < MaxVisitors
      BY <1>5, <2>2 DEF SwapCount
    <3> QED
      BY <3>2, <3>3, <3>4
  <2> QED
    BY <2>1, <2>2
<1>6. ASSUME NEW v \in Visitors,
             \/ ChannelOpened(v) \/ ChannelRefused(v) \/ setVisitorChannel(v)
             \/ \E dir \in {"in", "out"} : CopyEnds(v, dir)
             \/ PipeDone(v) \/ untrackVisitor(v) \/ CloseSocket(v)
      PROVE  SlotInv'
  <2>1. Holding' = Holding /\ UNCHANGED <<count, loaded>>
    BY <1>6 DEF ChannelOpened, ChannelRefused, setVisitorChannel, CopyEnds, PipeDone,
                untrackVisitor, CloseSocket, Holding
  <2> QED
    BY <1>6, <2>1 DEF ChannelOpened, ChannelRefused, setVisitorChannel, CopyEnds, PipeDone,
                      untrackVisitor, CloseSocket
<1>7. ASSUME NEW v \in Visitors, Release(v) PROVE SlotInv'
  <2>1. Holding' = Holding \ {v} /\ v \in Holding
    BY <1>7 DEF Release, Holding
  <2>2. Cardinality(Holding') = Cardinality(Holding) - 1
    BY <2>1, HoldingFinite, FS_RemoveElement
  <2> QED
    BY <1>0, <1>7, <2>2 DEF Release
<1> QED
  BY <1>1, <1>2, <1>3, <1>4, <1>5, <1>6, <1>7 DEF Next

LEMMA ReachStep == StageInv /\ ReachInv /\ [Next]_vars => ReachInv'
<1> SUFFICES ASSUME StageInv, ReachInv, [Next]_vars PROVE ReachInv'
  OBVIOUS
<1> USE DEF StageInv, ReachInv, Inside, fwdVars, visVars, listVars, Goto
<1>1. CASE CancelForward \/ Unregister \/ Hangup \/ UNCHANGED vars
  BY <1>1 DEF CancelForward, Unregister, Hangup, vars
<1>2. CASE StartForward
  BY <1>2 DEF StartForward
<1>3. ASSUME NEW g \in Gens, CloseListener(g) PROVE ReachInv'
  BY <1>3 DEF CloseListener
<1>4. ASSUME NEW g \in Gens, CloseVisitors(g) PROVE ReachInv'
  <2>1. /\ UNCHANGED <<pc, gen>>
        /\ forward' = [forward EXCEPT ![g] = "closed"]
        /\ tracked' = [tracked EXCEPT ![g] = {}] /\ chanSet' = chanSet \ tracked[g]
        /\ DOMAIN sock' = Visitors /\ DOMAIN channel' = Visitors
    BY <1>4 DEF CloseVisitors
  <2>2. \A v \in Visitors : /\ sock'[v] => sock[v] /\ v \notin tracked[g]
                            /\ channel'[v] => channel[v] /\ v \notin tracked[g] \cap chanSet
    BY <1>4, Zenon DEF CloseVisitors
  <2> QED
    BY <1>4, <2>1, <2>2 DEF CloseVisitors
<1>5. ASSUME NEW v \in Visitors, NEW g \in Gens, Accept(v, g) PROVE ReachInv'
  BY <1>5 DEF Accept
<1>6. ASSUME NEW v \in Visitors, Track(v) PROVE ReachInv'
  BY <1>6 DEF Track
<1>7. ASSUME NEW v \in Visitors,
             \/ LoadCount(v) \/ SwapCount(v) \/ ChannelOpened(v) \/ ChannelRefused(v)
             \/ \E dir \in {"in", "out"} : CopyEnds(v, dir)
             \/ PipeDone(v) \/ Release(v) \/ CloseSocket(v)
      PROVE  ReachInv'
  BY <1>7 DEF LoadCount, SwapCount, ChannelOpened, ChannelRefused, CopyEnds, PipeDone,
              Release, CloseSocket
<1>8. ASSUME NEW v \in Visitors, setVisitorChannel(v) PROVE ReachInv'
  BY <1>8 DEF setVisitorChannel
<1>9. ASSUME NEW v \in Visitors, untrackVisitor(v) PROVE ReachInv'
  BY <1>9 DEF untrackVisitor
<1> QED
  BY <1>1, <1>2, <1>3, <1>4, <1>5, <1>6, <1>7, <1>8, <1>9, Zenon DEF Next

-----------------------------------------------------------------------------
LEMMA InitInvs == Init => StageInv /\ AdmitInv /\ SlotInv /\ ReachInv
<1> SUFFICES ASSUME Init PROVE StageInv /\ AdmitInv /\ SlotInv /\ ReachInv
  OBVIOUS
<1>1. StageInv /\ AdmitInv /\ ReachInv
  BY DEF Init, StageInv, AdmitInv, ReachInv, Inside
<1>2. Holding = {}
  BY DEF Init, Holding
<1>3. SlotInv
  BY <1>2, VisitorAssumption, FS_EmptySet DEF Init, SlotInv, SlotsExact
<1> QED
  BY <1>1, <1>3

(* The visitor counter is the number of visitors that hold a slot, and     *)
(* never above the cap (reserveVisitorSlot and the deferred decrement).    *)
THEOREM SlotsAreExact == Spec => []SlotsExact
<1>1. SlotInv => SlotsExact
  BY DEF SlotInv
<1> QED
  BY <1>1, InitInvs, StageStep, SlotStep, PTL DEF Spec

(* A finished close() has reached every visitor past trackVisitor          *)
(* (trackVisitor, setVisitorChannel and close under vmu).                  *)
THEOREM CloseReaches == Spec => []CloseReachesAll
<1>1. StageInv /\ ReachInv => CloseReachesAll
  BY DEF StageInv, ReachInv, CloseReachesAll, Inside, Stages
<1> QED
  BY <1>1, InitInvs, StageStep, ReachStep, PTL DEF Spec

(* A set allowlist admits only visitors of its networks (allows).          *)
THEOREM AllowlistFailsClosed == Spec => []FailClosed
<1>1. AdmitInv => FailClosed
  BY DEF AdmitInv, FailClosed, Holding, Inside
<1> QED
  BY <1>1, InitInvs, StageStep, AdmitStep, PTL DEF Spec
-----------------------------------------------------------------------------
(* Types.  The Boolean variables, and the others with what trackVisitor    *)
(* needs: a visitor's forward has been started.                            *)
FlagInv ==
  /\ connOpen \in BOOLEAN /\ registered \in BOOLEAN
  /\ sock \in [Visitors -> BOOLEAN] /\ channel \in [Visitors -> BOOLEAN]
  /\ copying \in [Visitors -> SUBSET {"in", "out"}]
  /\ allowNets \subseteq Networks /\ allowlistSet \in BOOLEAN

PlaceInv ==
  /\ current \in 0 .. MaxGens
  /\ forward \in [Gens -> {"none", "listening", "closing", "closed"}]
  /\ tracked \in [Gens -> SUBSET Visitors]
  /\ chanSet \subseteq UNION {tracked[g] : g \in Gens}
  /\ \A g \in Gens : \A v \in tracked[g] : gen[v] = g /\ forward[g] \in {"listening", "closing"}
  /\ pc \in [Visitors -> Stages] /\ gen \in [Visitors -> 0 .. MaxGens]
  /\ loaded \in [Visitors -> 0 .. MaxVisitors]
  /\ \A v \in Visitors : pc[v] # "none" => forward[gen[v]] # "none"

LEMMA FlagStep == FlagInv /\ [Next]_vars => FlagInv'
<1> SUFFICES ASSUME FlagInv, [Next]_vars PROVE FlagInv'
  OBVIOUS
<1> USE DEF FlagInv, fwdVars, visVars, listVars
<1>1. CASE StartForward \/ CancelForward \/ Unregister \/ Hangup \/ UNCHANGED vars
  BY <1>1, Zenon DEF StartForward, CancelForward, Unregister, Hangup, vars
<1>2. ASSUME NEW g \in Gens, CloseListener(g) PROVE FlagInv'
  BY <1>2, Zenon DEF CloseListener
<1>3. ASSUME NEW g \in Gens, CloseVisitors(g) PROVE FlagInv'
  <2>1. sock' \in [Visitors -> BOOLEAN]
    BY <1>3 DEF CloseVisitors
  <2>2. channel' \in [Visitors -> BOOLEAN]
    BY <1>3 DEF CloseVisitors
  <2> QED
    BY <1>3, <2>1, <2>2, Zenon DEF CloseVisitors
<1>4. ASSUME NEW v \in Visitors, NEW g \in Gens, Accept(v, g) PROVE FlagInv'
  BY <1>4 DEF Accept
<1>5. ASSUME NEW v \in Visitors,
             \/ Track(v) \/ LoadCount(v) \/ SwapCount(v) \/ ChannelRefused(v)
             \/ PipeDone(v) \/ untrackVisitor(v)
      PROVE  FlagInv'
  BY <1>5, Zenon DEF Track, LoadCount, SwapCount, ChannelRefused, PipeDone, untrackVisitor
<1>6. ASSUME NEW v \in Visitors, ChannelOpened(v) \/ Release(v) \/ CloseSocket(v)
      PROVE  FlagInv'
  BY <1>6, Zenon DEF ChannelOpened, Release, CloseSocket
<1>7. ASSUME NEW v \in Visitors,
             setVisitorChannel(v) \/ \E dir \in {"in", "out"} : CopyEnds(v, dir)
      PROVE  FlagInv'
  BY <1>7 DEF setVisitorChannel, CopyEnds
<1> QED
  BY <1>1, <1>2, <1>3, <1>4, <1>5, <1>6, <1>7 DEF Next

LEMMA PlaceStep ==
  StageInv /\ SlotInv /\ ReachInv /\ PlaceInv /\ [Next]_vars => PlaceInv'
<1> SUFFICES ASSUME StageInv, SlotInv, ReachInv, PlaceInv, [Next]_vars PROVE PlaceInv'
  OBVIOUS
<1>a. /\ \A v \in Visitors : pc[v] # "none" => gen[v] \in Gens
      /\ \A g \in Gens : \A v \in tracked[g] : v \in Visitors /\ pc[v] \in Inside
  BY DEF StageInv, ReachInv
<1>b. count \in Nat
  BY HoldingFinite, FS_CardinalityType DEF SlotInv, SlotsExact
<1> USE DEF PlaceInv, fwdVars, visVars, listVars, Goto
<1>1. CASE CancelForward \/ Unregister \/ Hangup \/ UNCHANGED vars
  BY <1>1, VisitorAssumption DEF CancelForward, Unregister, Hangup, vars
<1>2. CASE StartForward
  BY <1>2, VisitorAssumption DEF StartForward, Gens
<1>3. ASSUME NEW g \in Gens, CloseListener(g) PROVE PlaceInv'
  BY <1>3 DEF CloseListener
<1>4. ASSUME NEW g \in Gens, CloseVisitors(g) PROVE PlaceInv'
  BY <1>4 DEF CloseVisitors
<1>5. ASSUME NEW v \in Visitors, NEW g \in Gens, Accept(v, g) PROVE PlaceInv'
  <2>1. g \in 0 .. MaxGens /\ "accepted" \in Stages
    BY VisitorAssumption DEF Gens, Stages
  <2>2. \A h \in Gens : v \notin tracked[h]
    BY <1>a, <1>5 DEF Accept, Inside
  <2> QED
    BY <1>5, <2>1, <2>2 DEF Accept
<1>6. ASSUME NEW v \in Visitors, Track(v) PROVE PlaceInv'
  BY <1>a, <1>6 DEF Track, Stages
<1>7. ASSUME NEW v \in Visitors, LoadCount(v) \/ SwapCount(v) PROVE PlaceInv'
  BY <1>b, <1>7, VisitorAssumption DEF LoadCount, SwapCount, Stages
<1>8. ASSUME NEW v \in Visitors,
             \/ ChannelOpened(v) \/ ChannelRefused(v)
             \/ \E dir \in {"in", "out"} : CopyEnds(v, dir)
             \/ PipeDone(v) \/ Release(v) \/ CloseSocket(v)
      PROVE  PlaceInv'
  BY <1>8 DEF ChannelOpened, ChannelRefused, CopyEnds, PipeDone, Release, CloseSocket, Stages
<1>9. ASSUME NEW v \in Visitors, setVisitorChannel(v) PROVE PlaceInv'
  BY <1>a, <1>9 DEF setVisitorChannel, Stages
<1>10. ASSUME NEW v \in Visitors, untrackVisitor(v) PROVE PlaceInv'
  BY <1>a, <1>10 DEF untrackVisitor, Stages
<1> HIDE DEF PlaceInv, fwdVars, visVars, listVars, Goto
<1> QED
  BY <1>1, <1>2, <1>3, <1>4, <1>5, <1>6, <1>7, <1>8, <1>9, <1>10 DEF Next

(* Types; a visitor is in the map of the forward that accepted it, of no   *)
(* other and of none that is closed, for any number of visitors and        *)
(* forwards (trackVisitor, untrackVisitor, close).                         *)
THEOREM VisitorTypes == Spec => []TypeOK
<1>1. Init => FlagInv /\ PlaceInv
  <2> SUFFICES ASSUME Init PROVE FlagInv /\ PlaceInv
    OBVIOUS
  <2>1. FlagInv
    BY Zenon DEF Init, FlagInv
  <2>2. PlaceInv
    BY VisitorAssumption DEF Init, PlaceInv, Stages, Gens
  <2> QED
    BY <2>1, <2>2
<1>2. SlotInv /\ FlagInv /\ PlaceInv => TypeOK
  <2> SUFFICES ASSUME SlotInv, FlagInv, PlaceInv PROVE TypeOK
    OBVIOUS
  <2>1. count \in Int
    BY HoldingFinite, FS_CardinalityType DEF SlotInv, SlotsExact
  <2> QED
    BY <2>1, Zenon DEF FlagInv, PlaceInv, TypeOK
<1> QED
  BY <1>1, <1>2, InitInvs, StageStep, SlotStep, ReachStep, FlagStep, PlaceStep, PTL DEF Spec
=============================================================================
