---------------------------- MODULE DaemonProofs ----------------------------
(***************************************************************************)
(* Proofs about TunnelDaemon, for any number of requests and restarts.     *)
(***************************************************************************)
EXTENDS TunnelDaemon, TLAPS

(* A key is served only after start-up, when nothing writes its file. *)
KeyInv == signer # None => Started /\ keyFile = signer

(* Whatever crash or failed write met a start before, a key that is served *)
(* is the key in the file.                                                 *)
THEOREM ServedKeyPersisted == Spec => []KeyPersisted
<1>1. Init => KeyInv
  BY DEF Init, KeyInv
<1>2. KeyInv /\ [Next]_vars => KeyInv'
  <2>. SUFFICES ASSUME KeyInv, [Next]_vars PROVE KeyInv'
    OBVIOUS
  <2>. USE DEF KeyInv, Started, keyVars
  <2>1. CASE Main
    <3>1. CASE OpenStore
      BY <3>1 DEF OpenStore
    <3>2. CASE ReadKey
      BY <3>2 DEF ReadKey, Exit
    <3>3. CASE GenerateKey
      BY <3>3 DEF GenerateKey
    <3>4. CASE WriteKey
      BY <3>4 DEF WriteKey, Exit
    <3>5. CASE ShutdownControl \/ ShutdownMetrics \/ CloseStore
      BY <3>5 DEF ShutdownControl, ShutdownMetrics, BeginShutdown, CloseStore
    <3>6. CASE Return
      BY <3>6 DEF Return, Exit
    <3>. QED  BY <2>1, <3>1, <3>2, <3>3, <3>4, <3>5, <3>6 DEF Main
  <2>2. CASE OpenFails \/ KeyFails \/ Signal \/ GraceEnds \/ Crash
    BY <2>2 DEF OpenFails, KeyFails, Signal, GraceEnds, Crash, Exit
  <2>3. CASE \E s \in HTTP \cup Intakes :
               Bind(s) \/ HTTPFails(s) \/ IntakeFails(s) \/ CloseIntake(s)
    BY <2>3 DEF Bind, HTTPFails, IntakeFails, CloseIntake, Exit
  <2>4. CASE \E r \in Reqs : Answer(r) \/ \E s \in HTTP : Request(r, s)
    BY <2>4 DEF Answer, Request
  <2>5. CASE UNCHANGED vars
    BY <2>5 DEF vars
  <2>. QED  BY <2>1, <2>2, <2>3, <2>4, <2>5 DEF Next
<1>3. KeyInv => KeyPersisted
  BY DEF KeyInv, KeyPersisted
<1>. QED  BY <1>1, <1>2, <1>3, PTL DEF Spec

-----------------------------------------------------------------------------
(* A request that outlasts the grace period. *)
Late(s) == \A r \in Reqs : at[r] = s => graceOver

(* The inductive invariant of the shutdown: a listener past its Shutdown   *)
(* takes no more requests, and those it still has are late.                *)
DrainInv ==
  /\ at \in [Reqs -> HTTP \cup {None}]
  /\ lsn \in [HTTP \cup Intakes -> {"unbound", "bound", "closed", "failed"}]
  /\ pc \in {"down", "key", "write", "bind", "drainControl", "drainMetrics",
             "return"}
  /\ pc \in {"key", "write", "bind", "drainControl", "drainMetrics"} => store
  /\ ~Started => /\ \A r \in Reqs : at[r] = None
                 /\ \A s \in HTTP : lsn[s] # "bound"
  /\ pc \in {"drainControl", "drainMetrics", "return"} => lsn["control"] # "bound"
  /\ pc \in {"drainMetrics", "return"} => lsn["metrics"] # "bound" /\ Late("control")
  /\ pc = "return" => Late("metrics")
  /\ (lastExit # None /\ cut /\ lastExit.code = 0) => lastExit.grace

(* The end of the process, from wherever. *)
LEMMA ExitDrain ==
  ASSUME DrainInv, NEW code \in {0, 1, 2}, Exit(code),
         code = 0 => \A r \in Reqs : at[r] # None => graceOver
  PROVE  DrainInv'
<1>1. /\ at' \in [Reqs -> HTTP \cup {None}] /\ \A r \in Reqs : at'[r] = None
      /\ lsn' \in [HTTP \cup Intakes -> {"unbound", "bound", "closed", "failed"}]
      /\ \A s \in HTTP : lsn'[s] # "bound"
      /\ pc' = "down"
  BY DEF Exit, NoListeners
<1>2. (lastExit' # None /\ cut' /\ lastExit'.code = 0) => lastExit'.grace
  <2>1. lastExit'.code = code /\ lastExit'.grace = graceOver
    BY DEF Exit
  <2>2. cut' => \E r \in Reqs : at[r] # None
    BY DEF Exit
  <2>. QED  BY <2>1, <2>2
<1>. QED  BY <1>1, <1>2 DEF DrainInv, Started

LEMMA DrainInit == Init => DrainInv
BY DEF Init, DrainInv, NoListeners, HTTP, Intakes, Started

LEMMA DrainStep == DrainInv /\ [Next]_vars => DrainInv'
<1>. SUFFICES ASSUME DrainInv, [Next]_vars PROVE DrainInv'
  OBVIOUS
<1>1. CASE OpenStore
  BY <1>1 DEF OpenStore, DrainInv, Started
<1>2. CASE ReadKey
  <2>1. CASE Exit(1)
    BY <2>1, ExitDrain
  <2>2. CASE /\ pc' = "bind"
             /\ UNCHANGED <<lsn, ctx, graceOver, store, at, lastExit, cut>>
    BY <1>2, <2>2 DEF ReadKey, DrainInv, Started, HTTP, Late
  <2>. QED  BY <1>2, <2>1, <2>2 DEF ReadKey
<1>3. CASE GenerateKey
  BY <1>3 DEF GenerateKey, DrainInv, Started
<1>4. CASE WriteKey
  <2>1. CASE Exit(1)
    BY <2>1, ExitDrain
  <2>2. CASE /\ pc' = "bind"
             /\ UNCHANGED <<lsn, ctx, graceOver, store, at, lastExit, cut>>
    BY <1>4, <2>2 DEF WriteKey, DrainInv, Started, HTTP, Late
  <2>. QED  BY <1>4, <2>1, <2>2 DEF WriteKey
<1>5. CASE ShutdownControl
  BY <1>5 DEF ShutdownControl, BeginShutdown, DrainInv, Started, HTTP
<1>6. CASE ShutdownMetrics
  BY <1>6 DEF ShutdownMetrics, ShutdownReturns, Drained, Late, BeginShutdown,
              DrainInv, Started, HTTP
<1>7. CASE CloseStore
  BY <1>7 DEF CloseStore, ShutdownReturns, Drained, Late, DrainInv, Started
<1>8. CASE Return
  <2>1. \A r \in Reqs : at[r] # None => graceOver
    BY <1>8 DEF Return, DrainInv, Late, HTTP
  <2>. QED  BY <1>8, <2>1, ExitDrain DEF Return
<1>9. CASE OpenFails \/ KeyFails \/ Crash
  BY <1>9, ExitDrain DEF OpenFails, KeyFails, Crash
<1>10. CASE Signal \/ GraceEnds
  BY <1>10 DEF Signal, GraceEnds, DrainInv, Started, Late
<1>11. ASSUME NEW s \in HTTP \cup Intakes, Bind(s) PROVE DrainInv'
  <2>1. /\ Started /\ UNCHANGED <<pc, graceOver, store, at, lastExit, cut>>
        /\ lsn' = [lsn EXCEPT ![s] = IF Told(s) THEN "closed" ELSE "bound"]
    BY <1>11 DEF Bind
  <2>2. lsn' \in [HTTP \cup Intakes -> {"unbound", "bound", "closed", "failed"}]
    BY <2>1 DEF DrainInv
  <2>3. \A t \in HTTP : lsn'[t] = "bound" => (lsn[t] = "bound" \/ (t = s /\ ~Told(s)))
    BY <2>1 DEF DrainInv
  <2>4. /\ pc \in {"drainControl", "drainMetrics", "return"} => lsn'["control"] # "bound"
        /\ pc \in {"drainMetrics", "return"} => lsn'["metrics"] # "bound"
    BY <2>3 DEF DrainInv, Told, HTTP
  <2>. QED  BY <2>1, <2>2, <2>4 DEF DrainInv, Started, Late
<1>12. ASSUME NEW s \in HTTP \cup Intakes, HTTPFails(s) PROVE DrainInv'
  BY <1>12, ExitDrain DEF HTTPFails
<1>13. ASSUME NEW s \in HTTP \cup Intakes, IntakeFails(s) \/ CloseIntake(s)
       PROVE  DrainInv'
  BY <1>13 DEF IntakeFails, CloseIntake, DrainInv, Started, Late, HTTP, Intakes
<1>14. ASSUME NEW r \in Reqs, NEW s \in HTTP, Request(r, s) PROVE DrainInv'
  BY <1>14 DEF Request, DrainInv, Started, Late, HTTP
<1>15. ASSUME NEW r \in Reqs, Answer(r) PROVE DrainInv'
  BY <1>15, DaemonAssumption DEF Answer, DrainInv, Started, Late, HTTP
<1>16. CASE UNCHANGED vars
  BY <1>16 DEF vars, DrainInv, Started, Late
<1>. QED
  BY <1>1, <1>2, <1>3, <1>4, <1>5, <1>6, <1>7, <1>8, <1>9, <1>10, <1>11, <1>12,
     <1>13, <1>14, <1>15, <1>16 DEF Next, Main

(* Until the grace period is over, the store of a request in flight is     *)
(* open, and a clean exit cuts no request off.                             *)
THEOREM GraceIsHonoured == Spec => []GraceHonoured
<1>1. DrainInv => GraceHonoured
  BY DEF DrainInv, GraceHonoured, Started, Late, HTTP
<1>. QED  BY <1>1, DrainInit, DrainStep, PTL DEF Spec

-----------------------------------------------------------------------------
(* A key is written only after it was generated. *)
WriteInv == pc = "write" => generated > 0

(* main, its listeners, the requests and the key file keep their types, a  *)
(* file that is no key is never served (main.go, loadOrCreateHostKey).     *)
THEOREM DaemonTypes == Spec => []TypeOK
<1>1. Init => TypeOK
  <2>. SUFFICES ASSUME Init PROVE TypeOK
    OBVIOUS
  <2>1. graceOver \in BOOLEAN /\ store \in BOOLEAN
    BY Zenon DEF Init
  <2>. QED  BY <2>1, DaemonAssumption DEF Init, TypeOK, NoListeners
<1>2. TypeOK /\ WriteInv /\ [Next]_vars => TypeOK' /\ WriteInv'
  <2>. SUFFICES ASSUME TypeOK, WriteInv, [Next]_vars
                PROVE  TypeOK' /\ WriteInv'
    OBVIOUS
  <2>. USE DaemonAssumption DEF TypeOK, WriteInv, keyVars
  <2>1. ASSUME NEW code, Exit(code), UNCHANGED keyVars PROVE TypeOK' /\ WriteInv'
    BY <2>1 DEF Exit, NoListeners
  <2>2. CASE OpenStore \/ CloseStore
    BY <2>2 DEF OpenStore, CloseStore
  <2>3. CASE ReadKey
    <3>1. CASE keyFile = Partial
      BY <2>1, <2>3, <3>1 DEF ReadKey
    <3>2. CASE keyFile # Partial
      BY <2>3, <3>2 DEF ReadKey
    <3>. QED  BY <3>1, <3>2
  <2>4. CASE GenerateKey
    BY <2>4 DEF GenerateKey
  <2>5. CASE WriteKey
    <3>1. CASE Exit(1) /\ UNCHANGED keyFile
      BY <2>1, <2>5, <3>1 DEF WriteKey
    <3>2. CASE /\ keyFile' = generated /\ signer' = generated /\ pc' = "bind"
               /\ UNCHANGED <<lsn, ctx, graceOver, store, at, lastExit, cut>>
      BY <2>5, <3>2 DEF WriteKey, Keys
    <3>. QED  BY <2>5, <3>1, <3>2 DEF WriteKey
  <2>6. CASE ShutdownControl \/ ShutdownMetrics
    BY <2>6 DEF ShutdownControl, ShutdownMetrics, BeginShutdown
  <2>7. CASE Return \/ OpenFails \/ KeyFails \/ Crash
    BY <2>1, <2>7 DEF Return, OpenFails, KeyFails, Crash
  <2>8. CASE Signal \/ GraceEnds
    BY <2>8 DEF Signal, GraceEnds
  <2>9. ASSUME NEW s \in HTTP \cup Intakes, HTTPFails(s) PROVE TypeOK' /\ WriteInv'
    BY <2>1, <2>9 DEF HTTPFails
  <2>10. ASSUME NEW s \in HTTP \cup Intakes, Bind(s) \/ IntakeFails(s) \/ CloseIntake(s)
         PROVE  TypeOK' /\ WriteInv'
    BY <2>10 DEF Bind, IntakeFails, CloseIntake
  <2>11. ASSUME NEW r \in Reqs, Answer(r) \/ \E s \in HTTP : Request(r, s)
         PROVE  TypeOK' /\ WriteInv'
    BY <2>11 DEF Answer, Request
  <2>12. CASE UNCHANGED vars
    BY <2>12 DEF vars
  <2>. QED
    BY <2>2, <2>3, <2>4, <2>5, <2>6, <2>7, <2>8, <2>9, <2>10, <2>11, <2>12
    DEF Next, Main
<1>3. Init => WriteInv
  BY DEF Init, WriteInv
<1>. QED  BY <1>1, <1>2, <1>3, PTL DEF Spec
=============================================================================
