----------------------------- MODULE SSHProofs -----------------------------
(***************************************************************************)
(* Proofs about two parts of the SSH server.  For any interval and any     *)
(* client, the goroutines of the keepalive loop are bounded, and a         *)
(* connection that has fallen silent is closed in time.  For any settings  *)
(* and any addresses, the limiter of the accept loop admits no more and    *)
(* refuses no more than it says.                                           *)
(***************************************************************************)
EXTENDS Keepalive, AuthLimiter, FiniteSetTheorems, TLAPS

(* The keepalive loop. *)

(* The inductive invariant.  That an answer resets the misses would leave  *)
(* more goroutines than misses, were the answered request not the last one *)
(* outstanding.                                                            *)
MissInv ==
  /\ misses \in 0 .. MaxMisses /\ stale \in Nat
  /\ phase \in {"select", "sending", "ended"}
  /\ mine \in {"none", "waiting", "answered", "failed"}
  /\ mine # "none" => phase = "sending"
  /\ mine = "answered" => stale = 0
  /\ phase # "ended" => misses < MaxMisses
  /\ stale <= misses

LEMMA MissInit == Init => MissInv
BY DEF Init, MissInv, MaxMisses

LEMMA MissStep == MissInv /\ [Next]_vars => MissInv'
<1>. SUFFICES ASSUME MissInv, [Next]_vars PROVE MissInv'
  OBVIOUS
<1>. USE DEF MissInv, MaxMisses
<1>1. CASE SendKeepalive
  BY <1>1 DEF SendKeepalive
<1>2. CASE Answered
  BY <1>2 DEF Answered, ResetMisses
<1>3. CASE Failed
  BY <1>3 DEF Failed, Missed, CountMiss
<1>4. CASE TimedOut
  BY <1>4 DEF TimedOut, Missed, CountMiss, Outstanding
<1>5. CASE Cancelled
  BY <1>5 DEF Cancelled
<1>6. CASE Answer
  BY <1>6 DEF Answer, Outstanding, GoroutineEnds, loopVars
<1>7. CASE RequestFails
  BY <1>7 DEF RequestFails, GoroutineEnds, loopVars
<1>8. CASE Disconnect \/ HandleConnReturns \/ Shutdown \/ PathLost \/ Lapse
  BY <1>8 DEF Disconnect, HandleConnReturns, Shutdown, PathLost, Lapse, loopVars
<1>9. CASE Elapse
  BY <1>9 DEF Elapse
<1>10. CASE Done \/ UNCHANGED vars
  BY <1>10 DEF Done, vars, loopVars
<1>. QED
  BY <1>1, <1>2, <1>3, <1>4, <1>5, <1>6, <1>7, <1>8, <1>9, <1>10 DEF Next, Loop

(* A request given up on is outstanding only as long as its miss is        *)
(* counted, so at most three goroutines of a connection wait at a time.    *)
THEOREM GoroutinesAreBounded == Spec => [](GoroutinesBounded /\ stale <= MaxMisses)
<1>1. MissInv => GoroutinesBounded /\ stale <= MaxMisses
  BY DEF MissInv, GoroutinesBounded, MaxMisses
<1>. QED  BY <1>1, MissInit, MissStep, PTL DEF Spec

-----------------------------------------------------------------------------
(* The time n + 1 intervals take, as a sum. *)
Intervals(n) == Interval + (IF n > 0 THEN Interval ELSE 0)
                         + (IF n > 1 THEN Interval ELSE 0)

(* The inductive invariant behind ReapedInTime: how long the silence can   *)
(* be at each point of the loop.  A keepalive that fails takes one         *)
(* interval, in which a tick is buffered: the next one follows at once.    *)
SilenceInv ==
  /\ due \in 1 .. Interval /\ left \in 0 .. Interval /\ silence \in Nat
  /\ (phase = "sending" /\ ~tick) => due <= left
  /\ (open /\ mine = "answered") => silence = 0
  /\ mine = "failed" => ~open
  /\ (open /\ phase = "select" /\ ~tick) => misses = 0 /\ silence <= Interval - due
  /\ (open /\ phase = "select" /\ tick) => silence <= Intervals(misses)
  /\ (open /\ phase = "sending") => silence <= Intervals(misses) + Interval - left

LEMMA SilenceInit == Init => SilenceInv
BY KeepaliveAssumption DEF Init, SilenceInv, Intervals

LEMMA SilenceStep == MissInv /\ SilenceInv /\ [Next]_vars => SilenceInv'
<1>. SUFFICES ASSUME MissInv, SilenceInv, [Next]_vars PROVE SilenceInv'
  OBVIOUS
<1>. USE KeepaliveAssumption DEF MissInv, SilenceInv, MaxMisses, Intervals
<1>1. CASE SendKeepalive
  BY <1>1 DEF SendKeepalive, clientVars
<1>2. CASE Answered
  BY <1>2 DEF Answered, ResetMisses, clientVars
<1>3. CASE Failed
  BY <1>3, Zenon DEF Failed, Missed, CountMiss, clientVars
<1>4. CASE TimedOut
  <2>1. tick /\ tick' = tick /\ UNCHANGED <<left, due, silence>>
    BY <1>4 DEF TimedOut, clientVars
  <2>2. open' => open /\ phase = "sending" /\ left = 0 /\ misses' < MaxMisses
    BY <1>4, Zenon DEF TimedOut, Missed
  <2>3. /\ misses' = misses + 1 /\ misses < MaxMisses
        /\ phase' \in {"select", "ended"} /\ mine' = "none"
    BY <1>4 DEF TimedOut, Missed, CountMiss
  <2>4. open' => silence' <= Intervals(misses')
    BY <2>1, <2>2, <2>3
  <2>. QED  BY <2>1, <2>3, <2>4
<1>5. CASE Cancelled
  BY <1>5 DEF Cancelled, clientVars
<1>6. CASE Answer
  BY <1>6 DEF Answer, Outstanding, loopVars
<1>7. CASE RequestFails
  BY <1>7 DEF RequestFails, loopVars
<1>8. CASE Disconnect \/ HandleConnReturns \/ Shutdown \/ PathLost \/ Lapse
  BY <1>8 DEF Disconnect, HandleConnReturns, Shutdown, PathLost, Lapse, loopVars,
              clientVars
<1>9. CASE Elapse
  <2>1. silence' \in Nat /\ silence' <= silence + 1
    <3>1. DeadAfter + 1 \in Nat
      BY DEF DeadAfter
    <3>. QED  BY <1>9, <3>1 DEF Elapse, UpTo
  <2>2. /\ UNCHANGED <<phase, misses, mine, open>>
        /\ phase # "ended" /\ ~LoopReady
        /\ due' = IF due = 1 THEN Interval ELSE due - 1
        /\ left' = IF left > 0 THEN left - 1 ELSE 0
    BY <1>9 DEF Elapse
  <2>3. tick' <=> (tick \/ due = 1)
    BY <1>9, Zenon DEF Elapse
  <2>4. CASE phase = "select"
    <3>1. ~tick
      BY <2>2, <2>4 DEF LoopReady
    <3>2. CASE due = 1
      BY <2>1, <2>2, <2>3, <2>4, <3>1, <3>2
    <3>3. CASE due # 1
      BY <2>1, <2>2, <2>3, <2>4, <3>1, <3>3
    <3>. QED  BY <3>2, <3>3
  <2>5. CASE phase = "sending"
    <3>1. left > 0 /\ mine \notin {"answered", "failed"}
      BY <2>2, <2>5 DEF LoopReady
    <3>2. left' = left - 1
      BY <2>2, <3>1
    <3>3. ~tick' => due' <= left'
      BY <2>2, <2>3, <2>5, <3>2
    <3>. QED  BY <2>1, <2>2, <2>5, <3>1, <3>2, <3>3
  <2>. QED  BY <2>2, <2>4, <2>5
<1>10. CASE Done \/ UNCHANGED vars
  BY <1>10 DEF Done, vars, loopVars, clientVars
<1>. QED
  BY <1>1, <1>2, <1>3, <1>4, <1>5, <1>6, <1>7, <1>8, <1>9, <1>10, Zenon DEF Next, Loop

(* A connection whose loop runs is never kept open beyond four intervals   *)
(* of silence, whatever was answered late before.                          *)
THEOREM SilentAreReaped == Spec => []ReapedInTime
<1>1. MissInv /\ SilenceInv => ReapedInTime
  <2>. SUFFICES ASSUME MissInv, SilenceInv, open, phase # "ended"
                PROVE  silence <= DeadAfter
    BY DEF ReapedInTime
  <2>1. DeadAfter = Interval + Interval + Interval + Interval
    BY KeepaliveAssumption DEF DeadAfter, MaxMisses
  <2>. QED  BY <2>1, KeepaliveAssumption DEF MissInv, SilenceInv, MaxMisses, Intervals
<1>. QED  BY <1>1, MissInit, MissStep, SilenceInit, SilenceStep, PTL DEF Spec

-----------------------------------------------------------------------------
(* The loop, its ticker, its goroutines and the client keep their types,   *)
(* for any interval (server.go, keepalive).                                *)
THEOREM KeepaliveTypes == Spec => []TypeOK
<1>1. Init => TypeOK
  <2>. SUFFICES ASSUME Init PROVE TypeOK
    OBVIOUS
  <2>1. /\ tick \in BOOLEAN /\ open \in BOOLEAN /\ running \in BOOLEAN
        /\ lapsing \in BOOLEAN
    BY Zenon DEF Init
  <2>. QED
    BY <2>1, KeepaliveAssumption DEF Init, TypeOK, MaxMisses, DeadAfter
<1>2. MissInv /\ TypeOK /\ [Next]_vars => TypeOK'
  <2>. SUFFICES ASSUME MissInv, TypeOK, [Next]_vars PROVE TypeOK'
    OBVIOUS
  <2>1. DeadAfter + 1 \in Nat /\ MaxMisses \in Nat
    BY KeepaliveAssumption DEF DeadAfter, MaxMisses
  <2>. USE KeepaliveAssumption DEF TypeOK
  <2>2. CASE SendKeepalive
    <3>1. tick' \in BOOLEAN
      BY <2>2, Zenon DEF SendKeepalive
    <3>. QED  BY <2>2, <3>1 DEF SendKeepalive, clientVars
  <2>3. CASE Answered
    BY <2>1, <2>3 DEF Answered, ResetMisses, clientVars
  <2>4. CASE Failed
    BY <2>4 DEF MissInv, Failed, Missed, CountMiss, clientVars, MaxMisses
  <2>5. CASE TimedOut
    BY <2>5 DEF MissInv, TimedOut, Missed, CountMiss, Outstanding, clientVars, MaxMisses
  <2>6. CASE Cancelled
    BY <2>6 DEF Cancelled, clientVars
  <2>7. CASE Answer
    <3>1. lapsing' \in BOOLEAN
      BY <2>7, Zenon DEF Answer
    <3>. QED  BY <2>1, <2>7, <3>1 DEF Answer, GoroutineEnds, loopVars
  <2>8. CASE RequestFails
    <3>1. lapsing' \in BOOLEAN
      BY <2>8, Zenon DEF RequestFails
    <3>. QED  BY <2>8, <3>1 DEF RequestFails, GoroutineEnds, loopVars
  <2>9. CASE Disconnect \/ HandleConnReturns \/ Shutdown \/ PathLost \/ Lapse
    BY <2>9, Zenon DEF Disconnect, HandleConnReturns, Shutdown, PathLost, Lapse, loopVars,
                clientVars
  <2>10. CASE Elapse
    BY <2>1, <2>10 DEF Elapse, UpTo
  <2>11. CASE Done \/ UNCHANGED vars
    BY <2>11 DEF Done, vars, loopVars, clientVars
  <2>. QED
    BY <2>2, <2>3, <2>4, <2>5, <2>6, <2>7, <2>8, <2>9, <2>10, <2>11 DEF Next, Loop
<1>. QED  BY <1>1, <1>2, MissInit, MissStep, PTL DEF Spec
-----------------------------------------------------------------------------
(* Healthy clients.  What the code forgives: answers within an interval,   *)
(* and one late answer at a time whose delay, with those of the two        *)
(* requests queued behind it, ends before the third keepalive does.        *)
Forgivable ==
  /\ Delay < Interval /\ Delay <= MaxLapse
  /\ MaxLapse + Delay + Delay < Interval + Interval + Interval
  /\ Interval + Interval <= Spacing

(* Time since the first keepalive of a run of misses was sent. *)
RunTime == (IF misses > 0 THEN Interval ELSE 0) + (IF misses > 1 THEN Interval ELSE 0)
           + (IF phase = "sending" THEN Interval - left ELSE 0)

(* The time n prompt answers take. *)
Grace(n) == (IF n > 0 THEN Delay ELSE 0) + (IF n > 1 THEN Delay ELSE 0)

(* A run of misses begins with a late answer.  Until it comes nothing else *)
(* is answered; from then on every answer is prompt, and the requests that *)
(* have piled up are written one after the other.                          *)
Punctual ==
  /\ (phase = "sending") <=> (mine # "none")
  /\ lapsing => Outstanding > 0
  /\ Outstanding > 0 => age <= (IF lapsing THEN MaxLapse ELSE Delay)
  /\ (stale = misses /\ Outstanding > 0) => age = RunTime
  /\ (misses > 0 /\ stale = misses) => lapsing
  /\ stale < misses => ~lapsing /\ quiet <= RunTime - Interval
  /\ (stale < misses /\ Outstanding > 0) =>
       RunTime - age <= MaxLapse + Grace(misses - stale - 1)
  /\ mine = "answered" => RunTime <= MaxLapse + Grace(misses)
  /\ (mine = "answered" /\ misses = 0 /\ left = 0) => quiet = 0
  /\ misses > 0 => Interval <= MaxLapse
  /\ misses > 1 => Interval + Interval <= MaxLapse + Delay

Healthy == open /\ path = "up" /\ phase # "ended"
HealthyInv == Healthy => Punctual

LEMMA HealthyStep ==
  ASSUME Forgivable, MissInv, SilenceInv, TypeOK, HealthyInv, [Next]_vars
  PROVE  HealthyInv'
<1>. SUFFICES ASSUME Healthy' PROVE Punctual'
  BY DEF HealthyInv
<1>a. /\ Interval \in Nat /\ Delay \in Nat /\ MaxLapse \in Nat /\ Spacing \in Nat
      /\ age \in Nat /\ left \in 0 .. Interval
      /\ quiet \in Nat /\ quiet <= Spacing
  BY KeepaliveAssumption DEF TypeOK
<1>b. stale \in Nat /\ misses \in Nat /\ stale <= misses
  BY DEF MissInv, MaxMisses
<1>c. misses = 0 \/ misses = 1 \/ misses = 2 \/ phase = "ended"
  BY DEF MissInv, MaxMisses
<1>d. /\ mine \in {"none", "waiting", "answered", "failed"}
      /\ mine = "answered" => stale = 0
      /\ mine = "failed" => ~open
      /\ open /\ phase = "select" /\ ~tick => misses = 0
  BY DEF MissInv, SilenceInv
<1>. USE <1>a, <1>b, <1>c DEF Forgivable
<1>1. CASE SendKeepalive
  <2>1. Healthy
    BY <1>1, Zenon DEF SendKeepalive, Healthy, clientVars
  <2>2. Punctual
    BY <2>1, Zenon DEF HealthyInv
  <2>3. /\ UNCHANGED <<misses, stale, lapsing, quiet>>
        /\ phase = "select" /\ phase' = "sending" /\ left' = Interval /\ mine' = "waiting"
        /\ age' = IF stale = 0 THEN 0 ELSE age
    BY <1>1 DEF SendKeepalive, clientVars
  <2>. QED
    BY <1>d, <2>2, <2>3 DEF Punctual, Outstanding, RunTime, Grace
<1>2. CASE Answered
  <2>1. Healthy
    BY <1>2, Zenon DEF Answered, Healthy, clientVars
  <2>2. Punctual
    BY <2>1, Zenon DEF HealthyInv
  <2>3. /\ UNCHANGED <<stale, lapsing, quiet, age>>
        /\ mine = "answered" /\ phase' = "select" /\ mine' = "none" /\ misses' = 0
    BY <1>2 DEF Answered, ResetMisses, clientVars
  <2>. QED
    BY <1>d, <2>2, <2>3 DEF Punctual, Outstanding, RunTime, Grace
<1>3. CASE Failed
  BY <1>3, <1>d, Zenon DEF Failed, Missed, Healthy
<1>4. CASE TimedOut
  <2>1. Healthy /\ misses' < MaxMisses
    BY <1>4, Zenon DEF TimedOut, Missed, Healthy, clientVars
  <2>2. Punctual
    BY <2>1, Zenon DEF HealthyInv
  <2>3. /\ UNCHANGED <<lapsing, quiet, age, left>>
        /\ phase = "sending" /\ left = 0 /\ mine' = "none" /\ stale' = Outstanding
        /\ misses' = misses + 1 /\ misses' < 3 /\ phase' = "select"
    BY <1>4, <2>1 DEF TimedOut, Missed, CountMiss, clientVars, MaxMisses
  <2>4. mine = "waiting" \/ (mine = "answered" /\ stale = 0)
    <3>1. open /\ (phase = "sending" <=> mine # "none")
      BY <2>1, <2>2, Zenon DEF Healthy, Punctual
    <3>2. mine # "failed" /\ mine # "none"
      BY <1>d, <2>3, <3>1
    <3>. QED
      BY <1>d, <3>2
  <2>5. CASE misses = 0
    <3>1. stale = 0 /\ RunTime = Interval /\ misses' = 1 /\ stale' \in {0, 1}
      BY <2>3, <2>4, <2>5 DEF RunTime, Outstanding
    <3>2. CASE mine = "waiting"
      <4>1. age = Interval /\ lapsing /\ Interval <= MaxLapse /\ stale' = 1
        BY <2>2, <2>3, <2>5, <3>1, <3>2 DEF Punctual, Outstanding
      <4>. QED
        BY <2>3, <3>1, <4>1 DEF Punctual, Outstanding, RunTime
    <3>3. CASE mine = "answered"
      <4>1. Interval <= MaxLapse /\ quiet = 0 /\ ~lapsing /\ stale' = 0
        BY <2>2, <2>3, <2>5, <3>1, <3>3 DEF Punctual, Outstanding, Grace
      <4>. QED
        BY <2>3, <3>1, <4>1 DEF Punctual, Outstanding, RunTime
    <3>. QED
      BY <2>4, <3>2, <3>3
  <2>6. CASE misses = 1
    <3>1. RunTime = Interval + Interval /\ misses' = 2
      BY <2>3, <2>6 DEF RunTime
    <3>2. CASE stale = 1
      <4>1. /\ age = Interval + Interval /\ lapsing /\ age <= MaxLapse
            /\ Interval <= MaxLapse /\ stale' = 2
        BY <2>2, <2>3, <2>4, <2>6, <3>1, <3>2 DEF Punctual, Outstanding
      <4>. QED
        BY <2>3, <3>1, <4>1 DEF Punctual, Outstanding, RunTime
    <3>3. CASE stale = 0 /\ mine = "waiting"
      <4>1. /\ Interval + Interval - age <= MaxLapse /\ ~lapsing /\ age <= Delay
            /\ quiet <= Interval /\ Interval <= MaxLapse /\ stale' = 1
        BY <2>2, <2>3, <2>6, <3>1, <3>3 DEF Punctual, Outstanding, Grace
      <4>. QED
        BY <2>3, <3>1, <4>1 DEF Punctual, Outstanding, RunTime, Grace
    <3>4. CASE stale = 0 /\ mine = "answered"
      <4>1. /\ Interval + Interval <= MaxLapse + Delay /\ ~lapsing
            /\ quiet <= Interval /\ Interval <= MaxLapse /\ stale' = 0
        BY <2>2, <2>3, <2>6, <3>1, <3>4 DEF Punctual, Outstanding, Grace
      <4>. QED
        BY <2>3, <3>1, <4>1 DEF Punctual, Outstanding, RunTime, Grace
    <3>. QED
      BY <2>4, <2>6, <3>2, <3>3, <3>4
  <2>. QED
    BY <2>3, <2>5, <2>6
<1>5. CASE Answer
  <2>1. Healthy
    BY <1>5, Zenon DEF Answer, Healthy, loopVars
  <2>2. Punctual
    BY <2>1, Zenon DEF HealthyInv
  <2>3. /\ UNCHANGED <<phase, misses, left>> /\ age' = 0 /\ Outstanding > 0
        /\ IF stale > 0 THEN stale' = stale - 1 /\ mine' = mine
                        ELSE mine' = "answered" /\ stale' = stale
        /\ quiet' = IF lapsing THEN 0 ELSE quiet
    BY <1>5 DEF Answer, GoroutineEnds, loopVars
  <2>4. ~lapsing'
    BY <1>5, Zenon DEF Answer
  <2>5. CASE stale = 0
    BY <1>d, <2>2, <2>3, <2>4, <2>5 DEF Punctual, Outstanding, RunTime, Grace
  <2>6. CASE stale > 0 /\ misses = 1
    BY <1>d, <2>2, <2>3, <2>4, <2>6 DEF Punctual, Outstanding, RunTime, Grace
  <2>7. CASE stale > 0 /\ misses = 2
    BY <1>d, <2>2, <2>3, <2>4, <2>7 DEF Punctual, Outstanding, RunTime, Grace
  <2>. QED
    BY <2>1, <2>5, <2>6, <2>7 DEF Healthy
<1>6. CASE Lapse
  <2>1. Healthy
    BY <1>6, Zenon DEF Lapse, Healthy, loopVars
  <2>2. Punctual
    BY <2>1, Zenon DEF HealthyInv
  <2>3. /\ UNCHANGED <<phase, misses, left, mine, stale, age, quiet>>
        /\ quiet >= Spacing /\ Outstanding > 0 /\ ~lapsing
    BY <1>6 DEF Lapse, loopVars
  <2>4. misses = 0
    BY <1>d, <2>1, <2>2, <2>3 DEF Punctual, Outstanding, RunTime, Grace, Healthy
  <2>. QED
    BY <1>d, <2>2, <2>3, <2>4 DEF Punctual, Outstanding, RunTime, Grace
<1>7. CASE Elapse
  <2>1. Healthy
    BY <1>7, Zenon DEF Elapse, Healthy
  <2>2. Punctual
    BY <2>1, Zenon DEF HealthyInv
  <2>3. /\ UNCHANGED <<phase, misses, mine, stale, lapsing>> /\ ~LoopReady /\ ~AnswerDue
        /\ left' = (IF left > 0 THEN left - 1 ELSE 0)
        /\ age' = IF Outstanding > 0 THEN age + 1 ELSE age
        /\ quiet' \in Nat /\ quiet' <= quiet + 1
    BY <1>7, <2>1 DEF Elapse, UpTo, Healthy
  <2>4. CASE phase = "select"
    <3>1. misses = 0 /\ mine = "none"
      BY <1>d, <2>1, <2>2, <2>3, <2>4 DEF LoopReady, Healthy, Punctual
    <3>. QED
      BY <2>2, <2>3, <2>4, <3>1 DEF Punctual, Outstanding, RunTime, Grace
  <2>5. CASE phase = "sending"
    <3>1. left > 0 /\ left' = left - 1 /\ mine = "waiting"
      BY <1>d, <2>1, <2>2, <2>3, <2>5 DEF LoopReady, Healthy, Punctual
    <3>2. age < (IF lapsing THEN MaxLapse ELSE Delay)
      BY <2>1, <2>2, <2>3, <3>1 DEF AnswerDue, Healthy, Outstanding
    <3>. QED
      BY <2>2, <2>3, <2>5, <3>1, <3>2 DEF Punctual, Outstanding, RunTime, Grace
  <2>. QED
    BY <2>1, <2>4, <2>5 DEF Healthy, MissInv
<1>8. CASE RequestFails \/ Disconnect \/ PathLost \/ Cancelled
  BY <1>8, Zenon DEF RequestFails, Disconnect, PathLost, Cancelled, Healthy
<1>9. CASE HandleConnReturns \/ Shutdown \/ Done \/ UNCHANGED vars
  <2>1. UNCHANGED <<phase, misses, left, mine, stale, age, quiet, lapsing, open, path>>
    BY <1>9 DEF HandleConnReturns, Shutdown, Done, vars, loopVars, clientVars
  <2>2. Punctual
    BY <2>1, Zenon DEF HealthyInv, Healthy
  <2>. QED
    BY <2>1, <2>2, Zenon DEF Punctual, Outstanding, RunTime, Grace
<1>. QED
  BY <1>1, <1>2, <1>3, <1>4, <1>5, <1>6, <1>7, <1>8, <1>9, Zenon DEF Next, Loop

(* A client that answers within Delay but for the odd answer within        *)
(* MaxLapse is never hung up by the third miss (sendKeepalive), for every  *)
(* interval and every delay the three misses forgive.                      *)
THEOREM HealthyAreKept ==
  ASSUME Forgivable
  PROVE  Spec => HealthyKept
<1>. DEFINE Patient == open => misses < MaxMisses
           Kept == open /\ path = "up" /\ ~open' => misses' < MaxMisses
<1>1. Init => HealthyInv
  BY KeepaliveAssumption DEF Init, HealthyInv, Punctual, Healthy, Outstanding, RunTime, Grace
<1>2. Init => Patient
  BY DEF Init, MaxMisses
<1>3. Patient /\ [Next]_vars => Patient'
  <2>. SUFFICES ASSUME Patient, [Next]_vars, open' PROVE misses' < MaxMisses
    OBVIOUS
  <2>1. CASE Failed \/ TimedOut
    BY <2>1, Zenon DEF Failed, TimedOut, Missed
  <2>2. CASE Answered
    BY <2>2 DEF Answered, ResetMisses, MaxMisses
  <2>. QED
    BY <2>1, <2>2, Zenon
       DEF Next, Loop, SendKeepalive, Cancelled, Answer, RequestFails, Disconnect,
           HandleConnReturns, Shutdown, PathLost, Lapse, Elapse, Done, vars, loopVars
<1>4. MissInv /\ SilenceInv /\ TypeOK /\ HealthyInv /\ Patient /\ [Next]_vars => [Kept]_vars
  <2>. SUFFICES ASSUME MissInv, SilenceInv, TypeOK, HealthyInv, Patient, Next,
                       open, path = "up", ~open'
                PROVE  misses' < MaxMisses
    BY Zenon
  <2>1. CASE Disconnect
    BY <2>1, Zenon DEF Disconnect, loopVars
  <2>2. CASE Failed
    BY <2>2, Zenon DEF Failed, SilenceInv
  <2>3. CASE TimedOut
    <3>1. Punctual
      BY <2>3, Zenon DEF TimedOut, HealthyInv, Healthy
    <3>2. phase = "sending" /\ left = 0 /\ misses' = misses + 1
      BY <2>3 DEF TimedOut, Missed, CountMiss
    <3>3. /\ misses \in 0 .. 2 /\ stale \in Nat /\ stale <= misses /\ age \in Nat
          /\ mine \in {"none", "waiting", "answered", "failed"} /\ mine # "failed"
          /\ mine = "answered" => stale = 0
      BY <3>2 DEF MissInv, SilenceInv, TypeOK, MaxMisses
    <3>4. ASSUME misses = 2 PROVE FALSE
      <4>1. RunTime = Interval + Interval + Interval
        BY <3>2, <3>4, KeepaliveAssumption DEF RunTime
      <4>2. CASE mine = "answered"
        BY <3>1, <3>4, <4>1, <4>2, KeepaliveAssumption DEF Punctual, Grace, Forgivable
      <4>3. CASE mine = "waiting" /\ stale = 2
        BY <3>1, <3>4, <4>1, <4>3, KeepaliveAssumption DEF Punctual, Outstanding, Forgivable
      <4>4. CASE mine = "waiting" /\ stale < 2
        <5>1. stale \in {0, 1} /\ stale < misses /\ Outstanding > 0
          BY <3>3, <3>4, <4>4 DEF Outstanding
        <5>2. age <= Delay
          BY <3>1, <5>1 DEF Punctual
        <5>3. RunTime - age <= MaxLapse + Grace(misses - stale - 1)
          BY <3>1, <5>1 DEF Punctual
        <5>4. Grace(misses - stale - 1) <= Delay /\ Grace(misses - stale - 1) \in Nat
          BY <3>4, <5>1, KeepaliveAssumption DEF Grace
        <5>. QED
          BY <3>3, <4>1, <5>2, <5>3, <5>4, KeepaliveAssumption DEF Forgivable
      <4>. QED
        BY <3>1, <3>2, <3>3, <3>4, <4>2, <4>3, <4>4 DEF Punctual
    <3>. QED
      BY <3>2, <3>3, <3>4 DEF MaxMisses
  <2>. QED
    BY <2>1, <2>2, <2>3, Zenon
       DEF Next, Loop, SendKeepalive, Answered, Cancelled, Answer, RequestFails,
           HandleConnReturns, Shutdown, PathLost, Lapse, Elapse, Done, vars, loopVars
<1>. HIDE DEF Patient
<1>. QED
  BY <1>1, <1>2, <1>3, <1>4, HealthyStep, MissInit, MissStep, SilenceInit, SilenceStep,
     KeepaliveTypes, PTL DEF Spec, HealthyKept
-----------------------------------------------------------------------------
(* The limiter. *)

(* What the history R of one address, its entry w in the table and the     *)
(* time t have to do with each other.  Windows do not overlap, a window    *)
(* numbers its attempts from 1 without gaps, and while it runs none of     *)
(* them has been forgotten.                                                *)
Logged(R, w, t) ==
  /\ R \subseteq Attempt
  /\ \A e \in R : /\ e.nth \in 1 .. max
                  /\ e.start <= e.at /\ e.at <= e.start + window
                  /\ e.at <= t /\ t <= e.at + window
  /\ \A e, f \in R : e.start = f.start /\ e.nth = f.nth => e = f
  /\ \A e, f \in R : e.start < f.start => e.start + window < f.start
  /\ w = None => \A e \in R : e.start + window < t
  /\ w # None =>
       /\ w \in [count : 1 .. max, start : 0 .. t]
       /\ \A e \in R : \/ e.start = w.start /\ e.nth <= w.count
                       \/ e.start + window < w.start
       /\ t - w.start <= window =>
            \A n \in 1 .. w.count : \E e \in R : e.start = w.start /\ e.nth = n

(* The inductive invariant of the limiter. *)
LimiterInv ==
  /\ now \in 0 .. MaxTime
  /\ seen \in [IPs -> Counter \cup {None}]
  /\ lastCleanup \in -CleanupInterval .. now
  /\ recent \in [IPs -> SUBSET Attempt]
  /\ \A ip \in IPs : Logged(recent[ip], seen[ip], now)
  /\ \A ip \in Entries(seen) : lastCleanup - seen[ip].start <= window
  /\ IsFiniteSet(Entries(seen)) /\ Cardinality(Entries(seen)) <= HardCap

(* What the last answer of allow says about the state it left. *)
ReplyInv ==
  /\ reply.ok => reply.ip \in IPs /\ seen[reply.ip] # None
  /\ reply.ip # None /\ ~reply.ok /\ reply.known =>
       /\ reply.ip \in IPs /\ seen[reply.ip] # None
       /\ Current(seen[reply.ip]) /\ Spent(seen[reply.ip])
  /\ reply.ip # None /\ ~reply.ok /\ ~reply.known =>
       now - lastCleanup < CleanupInterval

(* Facts about the constants in the form the proofs below use. *)
LEMMA LimiterConstants ==
  /\ max \in Nat /\ max > 0 /\ window \in Nat /\ window > 0
  /\ CleanupInterval \in Nat /\ CleanupInterval > 0
  /\ HardCap \in Nat /\ HardCap > 0 /\ MaxTime \in Nat
BY LimiterAssumption

(* A tick forgets attempts as old as a window, and none of a running one   *)
(* (limiter.go: allow compares with the start of the window).              *)
LEMMA LoggedTick ==
  ASSUME NEW R, NEW w, NEW t \in Nat, NEW u, u = t + 1, Logged(R, w, t)
  PROVE  Logged({e \in R : u - e.at <= window}, w, u)
<1>. DEFINE Q == {e \in R : u - e.at <= window}
<1>1. R \subseteq Attempt
  BY DEF Logged
<1>2. \A e \in R : e.start \in Nat /\ e.nth \in Nat /\ e.at \in Nat
  BY <1>1 DEF Attempt
<1>3. Q \subseteq Attempt /\ Q \subseteq R
  BY <1>1
<1>4. \A e \in Q : /\ e.nth \in 1 .. max
                   /\ e.start <= e.at /\ e.at <= e.start + window
                   /\ e.at <= u /\ u <= e.at + window
  BY <1>2, LimiterConstants DEF Logged
<1>5. w = None => \A e \in Q : e.start + window < u
  BY <1>2, LimiterConstants DEF Logged
<1>6. ASSUME w # None
      PROVE  /\ w \in [count : 1 .. max, start : 0 .. u]
             /\ u - w.start <= window =>
                  \A n \in 1 .. w.count : \E e \in Q : e.start = w.start /\ e.nth = n
  <2>1. w \in [count : 1 .. max, start : 0 .. t]
    BY <1>6 DEF Logged
  <2>2. /\ w.start \in Nat /\ w.start <= t
        /\ w \in [count : 1 .. max, start : 0 .. u]
    BY <2>1
  <2>3. ASSUME u - w.start <= window, NEW n \in 1 .. w.count
        PROVE  \E e \in Q : e.start = w.start /\ e.nth = n
    <3>1. t - w.start <= window
      BY <2>2, <2>3, LimiterConstants
    <3>2. PICK e \in R : e.start = w.start /\ e.nth = n
      BY <1>6, <3>1 DEF Logged
    <3>3. w.start <= e.at
      BY <3>2 DEF Logged
    <3>4. u - e.at <= window
      BY <1>2, <2>2, <2>3, <3>3, LimiterConstants
    <3>. QED
      BY <3>2, <3>4
  <2>. QED
    BY <2>2, <2>3
<1>. HIDE DEF Q
<1>7. Logged(Q, w, u)
  BY <1>3, <1>4, <1>5, <1>6 DEF Logged
<1>. QED
  BY <1>7 DEF Q

(* An entry whose window is over may be dropped (limiter.go, maybeCleanup). *)
LEMMA LoggedCleanup ==
  ASSUME NEW R, NEW w, NEW t \in Nat, Logged(R, w, t),
         w # None => t - w.start > window
  PROVE  Logged(R, None, t)
<1>1. \A e \in R : e.start \in Nat
  BY DEF Logged, Attempt
<1>2. ASSUME w # None, NEW e \in R PROVE e.start + window < t
  <2>1. w.start \in Nat /\ w.start <= t /\ w.start + window < t
    BY <1>2, LimiterConstants DEF Logged
  <2>. QED
    BY <1>1, <1>2, <2>1, LimiterConstants DEF Logged
<1>. QED
  BY <1>2 DEF Logged

(* An attempt counted in a running window (limiter.go, allow: w.count++).  *)
LEMMA LoggedCount ==
  ASSUME NEW R, NEW w, NEW t \in Nat, Logged(R, w, t),
         w # None, t - w.start <= window, w.count < max
  PROVE  LET e == [start |-> w.start, nth |-> w.count + 1, at |-> t]
         IN  Logged(R \cup {e}, [w EXCEPT !.count = @ + 1], t)
<1>. DEFINE e == [start |-> w.start, nth |-> w.count + 1, at |-> t]
            v == [w EXCEPT !.count = @ + 1]
            Q == R \cup {e}
<1>1. /\ w.start \in Nat /\ w.start <= t /\ w.count \in 1 .. max
      /\ w \in [count : 1 .. max, start : 0 .. t]
  BY DEF Logged
<1>2. /\ v \in [count : 1 .. max, start : 0 .. t] /\ v \in Counter
      /\ v.start = w.start /\ v.count = w.count + 1
  BY <1>1, LimiterConstants DEF Counter
<1>3. /\ e \in Attempt /\ e.start = w.start /\ e.nth = w.count + 1 /\ e.at = t
  BY <1>1, LimiterConstants DEF Attempt
<1>4. v # None
  BY <1>2, LimiterNoneAssumption
<1>. HIDE DEF e, v
<1>5. \A f \in R : f \in Attempt /\ f.start \in Nat /\ f.nth \in Nat /\ f.at \in Nat
  BY DEF Logged, Attempt
<1>6. \A f \in R : \/ f.start = w.start /\ f.nth <= w.count
                   \/ f.start + window < w.start
  BY DEF Logged
<1>7. \A f \in Q : /\ f \in Attempt /\ f.nth \in 1 .. max
                   /\ f.start <= f.at /\ f.at <= f.start + window
                   /\ f.at <= t /\ t <= f.at + window
  BY <1>1, <1>3, <1>5, LimiterConstants DEF Logged
<1>8. \A f, g \in Q : f.start = g.start /\ f.nth = g.nth => f = g
  <2>1. \A f \in R : ~(f.start = e.start /\ f.nth = e.nth)
    BY <1>1, <1>3, <1>5, <1>6, LimiterConstants
  <2>2. \A f, g \in R : f.start = g.start /\ f.nth = g.nth => f = g
    BY DEF Logged
  <2>. QED
    BY <2>1, <2>2
<1>9. \A f, g \in Q : f.start < g.start => f.start + window < g.start
  <2>1. \A f \in R : f.start = e.start \/ f.start + window < e.start
    BY <1>3, <1>6
  <2>2. \A f, g \in R : f.start < g.start => f.start + window < g.start
    BY DEF Logged
  <2>. QED
    BY <1>1, <1>3, <1>5, <2>1, <2>2, LimiterConstants
<1>10. \A f \in Q : \/ f.start = v.start /\ f.nth <= v.count
                    \/ f.start + window < v.start
  BY <1>1, <1>2, <1>3, <1>5, <1>6
<1>11. \A n \in 1 .. v.count : \E f \in Q : f.start = v.start /\ f.nth = n
  <2>1. \A n \in 1 .. w.count : \E f \in R : f.start = w.start /\ f.nth = n
    BY DEF Logged
  <2>2. \A n \in 1 .. v.count : n \in 1 .. w.count \/ n = w.count + 1
    BY <1>1, <1>2
  <2>. QED
    BY <1>2, <1>3, <2>1, <2>2
<1>. HIDE DEF Q
<1>12. Logged(Q, v, t)
  BY <1>2, <1>4, <1>7, <1>8, <1>9, <1>10, <1>11 DEF Logged
<1>. QED
  BY <1>12 DEF Q, e, v

(* The first attempt of a new window (limiter.go, allow: count 1). *)
LEMMA LoggedFirst ==
  ASSUME NEW R, NEW t \in Nat, Logged(R, None, t)
  PROVE  Logged(R \cup {[start |-> t, nth |-> 1, at |-> t]}, [count |-> 1, start |-> t], t)
<1>. DEFINE e == [start |-> t, nth |-> 1, at |-> t]
            v == [count |-> 1, start |-> t]
            Q == R \cup {e}
<1>1. /\ v \in [count : 1 .. max, start : 0 .. t] /\ v \in Counter
      /\ v.start = t /\ v.count = 1
  BY LimiterConstants DEF Counter
<1>2. e \in Attempt /\ e.start = t /\ e.nth = 1 /\ e.at = t
  BY DEF Attempt
<1>3. v # None
  BY <1>1, LimiterNoneAssumption
<1>. HIDE DEF e, v
<1>4. \A f \in R : f \in Attempt /\ f.start \in Nat /\ f.nth \in Nat /\ f.at \in Nat
  BY DEF Logged, Attempt
<1>5. \A f \in R : f.start + window < t
  BY DEF Logged
<1>6. \A f \in Q : /\ f \in Attempt /\ f.nth \in 1 .. max
                   /\ f.start <= f.at /\ f.at <= f.start + window
                   /\ f.at <= t /\ t <= f.at + window
  BY <1>2, <1>4, LimiterConstants DEF Logged
<1>7. \A f, g \in Q : f.start = g.start /\ f.nth = g.nth => f = g
  <2>1. \A f \in R : f.start # e.start
    BY <1>2, <1>4, <1>5, LimiterConstants
  <2>2. \A f, g \in R : f.start = g.start /\ f.nth = g.nth => f = g
    BY DEF Logged
  <2>. QED
    BY <2>1, <2>2
<1>8. \A f, g \in Q : f.start < g.start => f.start + window < g.start
  <2>1. \A f, g \in R : f.start < g.start => f.start + window < g.start
    BY DEF Logged
  <2>. QED
    BY <1>2, <1>4, <1>5, <2>1, LimiterConstants
<1>9. \A f \in Q : \/ f.start = v.start /\ f.nth <= v.count
                   \/ f.start + window < v.start
  BY <1>1, <1>2, <1>5
<1>10. \A n \in 1 .. v.count : \E f \in Q : f.start = v.start /\ f.nth = n
  BY <1>1, <1>2
<1>. HIDE DEF Q
<1>11. Logged(Q, v, t)
  BY <1>1, <1>3, <1>6, <1>7, <1>8, <1>9, <1>10 DEF Logged
<1>. QED
  BY <1>11 DEF Q, e, v

(* The attempts of the last window fall into at most two windows, each of  *)
(* which counts to max (limiter.go, allow).                                *)
LEMMA LoggedBound ==
  ASSUME NEW R, NEW w, NEW t \in Nat, Logged(R, w, t)
  PROVE  IsFiniteSet(R) /\ Cardinality(R) <= 2 * max
<1>1. \A e \in R : /\ e.start \in Nat /\ e.at \in Nat /\ e.nth \in 1 .. max
                   /\ e.start <= e.at /\ e.at <= e.start + window
                   /\ e.at <= t /\ t <= e.at + window
  BY DEF Logged, Attempt
<1>2. \A e, f, g \in R : ~(e.start < f.start /\ f.start < g.start)
  <2>. SUFFICES ASSUME NEW e \in R, NEW f \in R, NEW g \in R,
                       e.start < f.start, f.start < g.start
                PROVE  FALSE
    OBVIOUS
  <2>1. e.start + window < f.start /\ f.start + window < g.start
    BY DEF Logged
  <2>. QED
    BY <1>1, <2>1, LimiterConstants
<1>. DEFINE later(e) == \E d \in R : d.start < e.start
            slot == [e \in R |-> IF later(e) THEN max + e.nth ELSE e.nth]
            slots == 1 .. 2 * max
<1>3. slot \in [R -> slots]
  BY <1>1, LimiterConstants
<1>4. ASSUME NEW e \in R, NEW f \in R, slot[e] = slot[f] PROVE e = f
  <2>1. later(e) <=> later(f)
    BY <1>1, <1>4, LimiterConstants
  <2>2. e.nth = f.nth
    BY <1>1, <1>4, <2>1, LimiterConstants
  <2>3. e.start = f.start
    <3>1. CASE later(e)
      BY <1>1, <1>2, <2>1, <3>1
    <3>2. CASE ~later(e)
      BY <1>1, <2>1, <3>2
    <3>. QED
      BY <3>1, <3>2
  <2>. QED
    BY <2>2, <2>3 DEF Logged
<1>5. IsFiniteSet(slots) /\ Cardinality(slots) = 2 * max
  BY LimiterConstants, FS_Interval
<1>. HIDE DEF slot, slots
<1>6. slot \in Injection(R, slots)
  BY <1>3, <1>4, Zenon DEF Injection, IsInjective
<1>. QED
  BY <1>5, <1>6, FS_Injection

(* A running window that has counted n attempts has admitted n of them     *)
(* within its length (limiter.go, allow).                                  *)
LEMMA LoggedEarned ==
  ASSUME NEW R, NEW w, NEW t \in Nat, Logged(R, w, t),
         w # None, t - w.start <= window
  PROVE  Cardinality(R) >= w.count
<1>1. w.count \in Nat
  BY LimiterConstants DEF Logged
<1>. DEFINE numbers == 1 .. w.count
            nthOf == [n \in numbers |-> CHOOSE e \in R : e.start = w.start /\ e.nth = n]
<1>2. \A n \in numbers : nthOf[n] \in R /\ nthOf[n].nth = n
  <2>1. \A n \in numbers : \E e \in R : e.start = w.start /\ e.nth = n
    BY DEF Logged
  <2>. QED
    BY <2>1
<1>3. nthOf \in [numbers -> R]
  BY <1>2, Zenon
<1>4. IsFiniteSet(numbers) /\ Cardinality(numbers) = w.count
  <2>1. 1 \in Int /\ w.count \in Int
    BY <1>1
  <2>2. /\ IsFiniteSet(1 .. w.count)
        /\ Cardinality(1 .. w.count) = IF 1 > w.count THEN 0 ELSE w.count - 1 + 1
    BY <2>1, FS_Interval, Zenon
  <2>. QED
    BY <1>1, <2>2
<1>5. IsFiniteSet(R) /\ Cardinality(R) \in Nat
  BY LoggedBound, FS_CardinalityType
<1>. HIDE DEF nthOf, numbers
<1>6. nthOf \in Injection(numbers, R)
  <2>1. \A m, n \in numbers : nthOf[m] = nthOf[n] => m = n
    BY <1>2, Zenon
  <2>. QED
    BY <1>3, <2>1, Zenon DEF Injection, IsInjective
<1>7. Cardinality(numbers) <= Cardinality(R)
  BY <1>5, <1>6, FS_Injection
<1>. QED
  BY <1>1, <1>4, <1>5, <1>7

(* The time of the last scan after a call of allow (limiter.go,            *)
(* maybeCleanup).                                                          *)
Scanned == IF now - lastCleanup < CleanupInterval THEN lastCleanup ELSE now

(* maybeCleanup drops only entries whose windows are over, and after a     *)
(* scan no other is left (limiter.go, maybeCleanup).                       *)
LEMMA CleanupFacts ==
  ASSUME LimiterInv
  PROVE  /\ maybeCleanup \in [IPs -> Counter \cup {None}]
         /\ \A i \in IPs : Logged(recent[i], maybeCleanup[i], now)
         /\ \A i \in Entries(maybeCleanup) : Scanned - maybeCleanup[i].start <= window
         /\ IsFiniteSet(Entries(maybeCleanup)) /\ Cardinality(Entries(maybeCleanup)) <= HardCap
         /\ Scanned \in -CleanupInterval .. now /\ now - Scanned < CleanupInterval
         /\ now \in Nat
<1>. DEFINE table == maybeCleanup
<1>1. /\ now \in Nat /\ lastCleanup \in Int /\ lastCleanup <= now
      /\ -CleanupInterval <= lastCleanup
  BY LimiterConstants DEF LimiterInv
<1>2. Scanned \in -CleanupInterval .. now /\ now - Scanned < CleanupInterval
  BY <1>1, LimiterConstants DEF Scanned
<1>3. seen \in [IPs -> Counter \cup {None}]
  BY DEF LimiterInv
<1>4. table \in [IPs -> Counter \cup {None}]
  BY <1>3 DEF maybeCleanup
<1>5. ASSUME NEW i \in IPs
      PROVE  \/ table[i] = seen[i]
             \/ table[i] = None /\ (seen[i] # None => now - seen[i].start > window)
  <2>1. seen[i] # None => seen[i].start \in Nat
    BY <1>3 DEF Counter
  <2>. QED
    BY <1>1, <1>3, <2>1, LimiterConstants DEF maybeCleanup, Current
<1>6. ASSUME NEW i \in IPs PROVE Logged(recent[i], table[i], now)
  <2>1. Logged(recent[i], seen[i], now)
    BY DEF LimiterInv
  <2>2. CASE table[i] = seen[i]
    BY <2>1, <2>2
  <2>3. CASE table[i] = None /\ (seen[i] # None => now - seen[i].start > window)
    BY <1>1, <2>1, <2>3, LoggedCleanup
  <2>. QED
    BY <1>5, <2>2, <2>3
<1>7. ASSUME NEW i \in Entries(table) PROVE Scanned - table[i].start <= window
  <2>1. CASE now - lastCleanup < CleanupInterval
    BY <2>1 DEF Scanned, maybeCleanup, LimiterInv
  <2>2. CASE ~(now - lastCleanup < CleanupInterval)
    BY <2>2 DEF Scanned, maybeCleanup, Current, Entries
  <2>. QED
    BY <2>1, <2>2
<1>8. Entries(table) \in SUBSET Entries(seen)
  BY <1>5 DEF Entries
<1>9. IsFiniteSet(Entries(seen)) /\ Cardinality(Entries(seen)) <= HardCap
  BY DEF LimiterInv
<1>. HIDE DEF table
<1>10. IsFiniteSet(Entries(table)) /\ Cardinality(Entries(table)) <= Cardinality(Entries(seen))
  BY <1>8, <1>9, FS_Subset, Zenon
<1>11. Cardinality(Entries(table)) \in Nat /\ Cardinality(Entries(seen)) \in Nat
  BY <1>9, <1>10, FS_CardinalityType
<1>12. Cardinality(Entries(table)) <= HardCap
  BY <1>9, <1>10, <1>11, LimiterConstants
<1>. QED
  BY <1>1, <1>2, <1>4, <1>6, <1>7, <1>10, <1>12, Zenon DEF table

(* A call that leaves the table as maybeCleanup made it. *)
LEMMA RefusedStep ==
  ASSUME LimiterInv, seen' = maybeCleanup, lastCleanup' = Scanned,
         UNCHANGED <<now, recent>>
  PROVE  LimiterInv'
<1>1. now' \in 0 .. MaxTime /\ recent' \in [IPs -> SUBSET Attempt]
  BY DEF LimiterInv
<1>. QED
  BY <1>1, CleanupFacts DEF LimiterInv, Entries

(* A call that admits an attempt of ip and leaves v as its entry. *)
Admits(ip, v) ==
  /\ seen' = [maybeCleanup EXCEPT ![ip] = v]
  /\ lastCleanup' = Scanned /\ now' = now /\ Admit(ip)
  /\ Logged(recent[ip] \cup {[start |-> v.start, nth |-> v.count, at |-> now]}, v, now)
  /\ Scanned - v.start <= window
  /\ maybeCleanup[ip] # None \/ ~Full(maybeCleanup)

LEMMA AdmittedStep ==
  ASSUME LimiterInv, NEW ip \in IPs, NEW v \in Counter, Admits(ip, v)
  PROVE  LimiterInv'
<1>. DEFINE table == maybeCleanup
<1>1. table \in [IPs -> Counter \cup {None}]
  BY CleanupFacts
<1>2. \A i \in IPs : Logged(recent[i], table[i], now)
  BY CleanupFacts, Zenon
<1>3. \A i \in Entries(table) : Scanned - table[i].start <= window
  BY CleanupFacts, Zenon
<1>4. IsFiniteSet(Entries(table)) /\ Cardinality(Entries(table)) <= HardCap
  BY CleanupFacts, Zenon
<1>5. Scanned \in -CleanupInterval .. now
  BY CleanupFacts, Zenon
<1>6. table[ip] # None \/ ~Full(table)
  BY DEF Admits
<1>7. seen' = [table EXCEPT ![ip] = v]
  BY DEF Admits
<1>8. lastCleanup' = Scanned /\ now' = now /\ Admit(ip) /\ Scanned - v.start <= window
  BY DEF Admits
<1>9. Logged(recent[ip] \cup {[start |-> v.start, nth |-> v.count, at |-> now]}, v, now)
  BY DEF Admits
<1>. HIDE DEF table
<1>10. /\ seen' \in [IPs -> Counter \cup {None}] /\ seen'[ip] = v
       /\ \A i \in IPs : i # ip => seen'[i] = table[i]
  BY <1>1, <1>7, Zenon
<1>11. v # None
  BY LimiterNoneAssumption
<1>12. recent \in [IPs -> SUBSET Attempt]
  BY DEF LimiterInv
<1>13. /\ recent' = [recent EXCEPT ![ip] = recent'[ip]]
       /\ recent'[ip] = recent[ip] \cup {[start |-> v.start, nth |-> v.count, at |-> now]}
       /\ \A i \in IPs : i # ip => recent'[i] = recent[i]
  BY <1>8, <1>10, <1>12 DEF Admit
<1>14. \A i \in IPs : Logged(recent'[i], seen'[i], now')
  <2>1. \A i \in IPs : i # ip => Logged(recent'[i], seen'[i], now')
    BY <1>8, <1>2, <1>10, <1>13, Zenon
  <2>2. Logged(recent'[ip], seen'[ip], now')
    BY <1>8, <1>9, <1>10, <1>13, Zenon
  <2>. QED
    BY <2>1, <2>2, Zenon
<1>15. recent' \in [IPs -> SUBSET Attempt]
  <2>1. recent'[ip] \in SUBSET Attempt
    BY <1>10, <1>14 DEF Logged
  <2>. QED
    BY <1>12, <1>13, <2>1
<1>16. Entries(seen)' = Entries(table) \cup {ip}
  BY <1>10, <1>11 DEF Entries
<1>17. \A i \in Entries(seen)' : lastCleanup' - seen'[i].start <= window
  BY <1>8, <1>3, <1>10, <1>16, Zenon DEF Entries
<1>18. /\ IsFiniteSet(Entries(seen)')
       /\ Cardinality(Entries(seen)') =
            IF ip \in Entries(table) THEN Cardinality(Entries(table))
                                     ELSE Cardinality(Entries(table)) + 1
  <2>1. IsFiniteSet(Entries(table))
    BY <1>4
  <2>. DEFINE S == Entries(table)
  <2>. HIDE DEF S
  <2>2. /\ IsFiniteSet(S \cup {ip})
        /\ Cardinality(S \cup {ip}) = IF ip \in S THEN Cardinality(S) ELSE Cardinality(S) + 1
    BY <2>1, FS_AddElement DEF S
  <2>. QED
    BY <1>16, <2>2, Zenon DEF S
<1>19. Cardinality(Entries(table)) \in Nat
  BY <1>4, FS_CardinalityType
<1>20. Cardinality(Entries(seen)') <= HardCap
  BY <1>4, <1>6, <1>18, <1>19, LimiterConstants DEF Full, Entries
<1>21. now' \in 0 .. MaxTime /\ lastCleanup' \in -CleanupInterval .. now'
  BY <1>8, <1>5 DEF LimiterInv
<1>. QED
  BY <1>10, <1>14, <1>15, <1>17, <1>18, <1>20, <1>21, Zenon DEF LimiterInv

(* A call of allow keeps the invariant and answers as the state warrants:  *)
(* one case per branch (limiter.go, allow).                                *)
LEMMA AllowStep ==
  ASSUME LimiterInv, NEW ip \in IPs, allow(ip)
  PROVE  LimiterInv' /\ ReplyInv'
<1>. DEFINE table == maybeCleanup
<1>1. /\ lastCleanup' = Scanned /\ now' = now
      /\ \/ /\ InWindow(table, ip) /\ Spent(table[ip])
            /\ seen' = table /\ Told(ip, table, FALSE) /\ recent' = recent
         \/ /\ InWindow(table, ip) /\ ~Spent(table[ip])
            /\ seen' = [table EXCEPT ![ip].count = @ + 1]
            /\ Told(ip, table, TRUE) /\ Admit(ip)
         \/ /\ table[ip] = None
            /\ seen' = table /\ Told(ip, table, FALSE) /\ recent' = recent
         \/ /\ ~InWindow(table, ip) /\ (table[ip] # None \/ ~Full(table))
            /\ seen' = [table EXCEPT ![ip] = [count |-> 1, start |-> now]]
            /\ Told(ip, table, TRUE) /\ Admit(ip)
  BY Zenon DEF allow, Scanned
<1>2. /\ table \in [IPs -> Counter \cup {None}]
      /\ Logged(recent[ip], table[ip], now)
      /\ \A i \in Entries(table) : Scanned - table[i].start <= window
      /\ Scanned \in -CleanupInterval .. now /\ now - Scanned < CleanupInterval
      /\ now \in Nat
  BY CleanupFacts, Zenon
<1>3. ip # None
  BY LimiterNoneAssumption
<1>4. CASE /\ InWindow(table, ip) /\ Spent(table[ip])
           /\ seen' = table /\ Told(ip, table, FALSE) /\ recent' = recent
  <2>1. LimiterInv'
    BY <1>1, <1>4, RefusedStep
  <2>2. ReplyInv'
    BY <1>1, <1>4, Zenon DEF ReplyInv, Told, InWindow, Current, Spent
  <2>. QED
    BY <2>1, <2>2
<1>5. CASE /\ table[ip] = None
           /\ seen' = table /\ Told(ip, table, FALSE) /\ recent' = recent
  <2>1. LimiterInv'
    BY <1>1, <1>5, RefusedStep
  <2>2. ReplyInv'
    BY <1>1, <1>2, <1>5, Zenon DEF ReplyInv, Told
  <2>. QED
    BY <2>1, <2>2
<1>6. CASE /\ InWindow(table, ip) /\ ~Spent(table[ip])
           /\ seen' = [table EXCEPT ![ip].count = @ + 1]
           /\ Told(ip, table, TRUE) /\ Admit(ip)
  <2>. DEFINE w == table[ip]
              v == [w EXCEPT !.count = @ + 1]
  <2>1. /\ w # None /\ w \in Counter /\ now - w.start <= window
        /\ w.start \in Nat /\ w.count \in Nat /\ w.count < max
        /\ Scanned - w.start <= window
    BY <1>2, <1>6, LimiterConstants DEF InWindow, Current, Spent, Counter, Entries
  <2>2. v \in Counter /\ v.start = w.start /\ v.count = w.count + 1
    BY <2>1 DEF Counter
  <2>3. Logged(recent[ip] \cup {[start |-> w.start, nth |-> w.count + 1, at |-> now]}, v, now)
    BY <1>2, <2>1, LoggedCount
  <2>4. seen' = [table EXCEPT ![ip] = v]
    BY <1>2, <1>6
  <2>. HIDE DEF v, w
  <2>5. Logged(recent[ip] \cup {[start |-> v.start, nth |-> v.count, at |-> now]}, v, now)
    BY <2>2, <2>3
  <2>6. Admits(ip, v)
    BY <1>1, <1>6, <2>1, <2>2, <2>4, <2>5, Zenon DEF Admits, w
  <2>7. LimiterInv'
    BY <2>2, <2>6, AdmittedStep
  <2>8. seen'[ip] = v /\ v # None
    BY <1>2, <2>2, <2>4, LimiterNoneAssumption
  <2>9. ReplyInv'
    BY <1>6, <2>8, Zenon DEF ReplyInv, Told
  <2>. QED
    BY <2>7, <2>9
<1>7. CASE /\ ~InWindow(table, ip) /\ (table[ip] # None \/ ~Full(table))
           /\ seen' = [table EXCEPT ![ip] = [count |-> 1, start |-> now]]
           /\ Told(ip, table, TRUE) /\ Admit(ip)
  <2>. DEFINE v == [count |-> 1, start |-> now]
  <2>1. v \in Counter /\ v.start = now /\ v.count = 1
    BY <1>2 DEF Counter
  <2>2. table[ip] # None => now - table[ip].start > window
    <3>1. table[ip] # None => table[ip].start \in Nat
      BY <1>2 DEF Counter
    <3>. QED
      BY <1>2, <1>7, <3>1, LimiterConstants DEF InWindow, Current
  <2>3. Logged(recent[ip], None, now)
    BY <1>2, <2>2, LoggedCleanup
  <2>4. Logged(recent[ip] \cup {[start |-> now, nth |-> 1, at |-> now]}, v, now)
    BY <1>2, <2>3, LoggedFirst
  <2>5. Scanned - now <= window
    BY <1>2, LimiterConstants
  <2>6. seen' = [table EXCEPT ![ip] = v]
    BY <1>7
  <2>. HIDE DEF v
  <2>7. Logged(recent[ip] \cup {[start |-> v.start, nth |-> v.count, at |-> now]}, v, now)
    BY <2>1, <2>4
  <2>8. Admits(ip, v)
    BY <1>1, <1>7, <2>1, <2>5, <2>6, <2>7, Zenon DEF Admits
  <2>9. LimiterInv'
    BY <2>1, <2>8, AdmittedStep
  <2>10. seen'[ip] = v /\ v # None
    BY <1>2, <2>1, <2>6, LimiterNoneAssumption
  <2>11. ReplyInv'
    BY <1>7, <2>10, Zenon DEF ReplyInv, Told
  <2>. QED
    BY <2>9, <2>11
<1>. QED
  BY <1>1, <1>4, <1>5, <1>6, <1>7, Zenon

(* Time passes: windows end, and old attempts leave the history. *)
LEMMA LimiterTick == LimiterInv /\ Tick => LimiterInv' /\ ReplyInv'
<1>. SUFFICES ASSUME LimiterInv, Tick PROVE LimiterInv' /\ ReplyInv'
  OBVIOUS
<1>1. now \in Nat /\ now' = now + 1 /\ now' \in 0 .. MaxTime
  BY LimiterConstants DEF LimiterInv, Tick
<1>2. lastCleanup' \in -CleanupInterval .. now'
  BY <1>1, LimiterConstants DEF LimiterInv, Tick
<1>3. \A i \in IPs : Logged(recent'[i], seen'[i], now')
  <2>. SUFFICES ASSUME NEW i \in IPs PROVE Logged(recent'[i], seen[i], now')
    BY DEF Tick
  <2>1. recent'[i] = {e \in recent[i] : now' - e.at <= window}
    BY DEF Tick
  <2>2. Logged(recent[i], seen[i], now)
    BY DEF LimiterInv
  <2>3. Logged({e \in recent[i] : now' - e.at <= window}, seen[i], now')
    BY <1>1, <2>2, LoggedTick, Zenon
  <2>. QED
    BY <2>1, <2>3, Zenon
<1>4. LimiterInv'
  <2>1. seen' = seen /\ lastCleanup' = lastCleanup
    BY DEF Tick
  <2>2. recent' \in [IPs -> SUBSET Attempt]
    BY DEF Tick, LimiterInv
  <2>. QED
    BY <1>1, <1>2, <1>3, <2>1, <2>2 DEF LimiterInv, Entries
<1>5. ReplyInv'
  BY DEF Tick, NoReply, ReplyInv
<1>. QED
  BY <1>4, <1>5

LEMMA LimiterInitial == LimiterInit => LimiterInv /\ ReplyInv
<1>. SUFFICES ASSUME LimiterInit PROVE LimiterInv /\ ReplyInv
  OBVIOUS
<1>1. Entries(seen) = {}
  BY DEF LimiterInit, Entries
<1>2. IsFiniteSet(Entries(seen)) /\ Cardinality(Entries(seen)) <= HardCap
  BY <1>1, FS_EmptySet, LimiterConstants
<1>3. \A i \in IPs : Logged(recent[i], seen[i], now)
  BY DEF LimiterInit, Logged
<1>4. now \in 0 .. MaxTime /\ lastCleanup \in -CleanupInterval .. now
  BY LimiterConstants DEF LimiterInit
<1>5. seen \in [IPs -> Counter \cup {None}] /\ recent \in [IPs -> SUBSET Attempt]
  BY DEF LimiterInit
<1>6. ReplyInv
  BY DEF LimiterInit, NoReply, ReplyInv
<1>. QED
  BY <1>1, <1>2, <1>3, <1>4, <1>5, <1>6 DEF LimiterInv

(* Every reachable state of the limiter satisfies its inductive invariant  *)
(* (limiter.go).                                                           *)
THEOREM LimiterInvariant == LimiterSpec => [](LimiterInv /\ ReplyInv)
<1>1. LimiterInv /\ ReplyInv /\ [LimiterNext]_limiterVars => LimiterInv' /\ ReplyInv'
  <2>. SUFFICES ASSUME LimiterInv, ReplyInv, [LimiterNext]_limiterVars
                PROVE  LimiterInv' /\ ReplyInv'
    OBVIOUS
  <2>1. CASE \E ip \in IPs : allow(ip)
    BY <2>1, AllowStep
  <2>2. CASE Tick
    BY <2>2, LimiterTick
  <2>3. CASE UNCHANGED limiterVars
    BY <2>3, Zenon DEF limiterVars, LimiterInv, ReplyInv, Entries, Current, Spent
  <2>. QED
    BY <2>1, <2>2, <2>3, Zenon DEF LimiterNext
<1>. QED
  BY <1>1, LimiterInitial, PTL DEF LimiterSpec

(* Types; the table never outgrows authHardCap (limiter.go, allow: the     *)
(* guard on len(a.seen)).                                                  *)
THEOREM LimiterTypesHold == LimiterSpec => []LimiterTypes
<1>1. ASSUME LimiterInv, ReplyInv PROVE LimiterTypes
  <2>1. \A i \in IPs : seen[i] # None => seen[i] \in [count : 1 .. max, start : 0 .. now]
    BY <1>1, Zenon DEF LimiterInv, Logged
  <2>2. seen \in [IPs -> [count : 1 .. max, start : 0 .. now] \cup {None}]
    BY <1>1, <2>1 DEF LimiterInv
  <2>. QED
    BY <1>1, <2>2, Zenon DEF LimiterTypes, LimiterInv, ReplyInv
<1>. QED
  BY <1>1, LimiterInvariant, PTL

(* No stretch of time as long as a window admits more than twice max       *)
(* handshakes of one address, whatever cleanups and refusals lie in it     *)
(* (limiter.go, allow).                                                    *)
THEOREM BurstsAreBounded == LimiterSpec => []BurstBounded
<1>1. ASSUME LimiterInv PROVE BurstBounded
  <2>1. now \in Nat
    BY <1>1, LimiterConstants DEF LimiterInv
  <2>2. \A ip \in IPs : Logged(recent[ip], seen[ip], now)
    BY <1>1 DEF LimiterInv
  <2>. QED
    BY <2>1, <2>2, LoggedBound, Zenon DEF BurstBounded, Admitted
<1>. QED
  BY <1>1, LimiterInvariant, PTL

(* An address in the table is refused only for max admitted attempts of    *)
(* its own within the last window (limiter.go, allow: w.count >= a.max).   *)
THEOREM RefusalsAreEarned == LimiterSpec => []RefusalEarned
<1>1. ASSUME LimiterInv, ReplyInv PROVE RefusalEarned
  <2>. SUFFICES ASSUME reply.ip # None, ~reply.ok, reply.known
                PROVE  Admitted(reply.ip) >= max
    BY DEF RefusalEarned
  <2>. DEFINE w == seen[reply.ip]
  <2>1. reply.ip \in IPs /\ w # None /\ now - w.start <= window /\ w.count >= max
    BY <1>1, Zenon DEF ReplyInv, Current, Spent
  <2>2. now \in Nat
    BY <1>1, LimiterConstants DEF LimiterInv
  <2>3. Logged(recent[reply.ip], w, now)
    BY <1>1, <2>1 DEF LimiterInv
  <2>. HIDE DEF w
  <2>4. Cardinality(recent[reply.ip]) >= w.count
    BY <2>1, <2>2, <2>3, LoggedEarned, Zenon
  <2>5. w.count = max
    BY <2>1, <2>3, LimiterConstants DEF Logged
  <2>. QED
    BY <2>4, <2>5 DEF Admitted
<1>. QED
  BY <1>1, LimiterInvariant, PTL

(* An unknown address is refused at the cap only because of addresses      *)
(* whose windows ended less than a cleanup interval ago, if at all         *)
(* (limiter.go, maybeCleanup and the guard on len(a.seen)).                *)
THEOREM CapRefusalsAreRecent == LimiterSpec => []CapRefusalRecent
<1>1. ASSUME LimiterInv, ReplyInv PROVE CapRefusalRecent
  <2>. SUFFICES ASSUME reply.ip # None, ~reply.ok, ~reply.known, NEW ip \in Entries(seen)
                PROVE  now - seen[ip].start < window + CleanupInterval
    BY DEF CapRefusalRecent
  <2>1. now - lastCleanup < CleanupInterval
    BY <1>1, Zenon DEF ReplyInv
  <2>2. /\ now \in Nat /\ lastCleanup \in Int
        /\ lastCleanup - seen[ip].start <= window
    BY <1>1, LimiterConstants DEF LimiterInv
  <2>3. seen[ip].start \in Nat
    BY <1>1 DEF LimiterInv, Entries, Counter
  <2>. QED
    BY <2>1, <2>2, <2>3, LimiterConstants
<1>. QED
  BY <1>1, LimiterInvariant, PTL

(* An attempt to be counted is not in the history yet. *)
LEMMA LoggedFresh ==
  ASSUME NEW R, NEW w, NEW t \in Nat, Logged(R, w, t)
  PROVE  /\ w # None => [start |-> w.start, nth |-> w.count + 1, at |-> t] \notin R
         /\ w = None => [start |-> t, nth |-> 1, at |-> t] \notin R
<1>1. ASSUME w # None, NEW e \in R, e.start = w.start PROVE e.nth # w.count + 1
  <2>1. w.start \in Nat /\ w.count \in Nat
    BY <1>1, LimiterConstants DEF Logged
  <2>2. e.nth \in Nat
    BY DEF Logged, Attempt
  <2>3. e.nth <= w.count
    BY <1>1, <2>1, LimiterConstants DEF Logged
  <2>. QED
    BY <2>1, <2>2, <2>3
<1>2. ASSUME w = None, NEW e \in R PROVE e.start # t
  BY <1>2, LimiterConstants DEF Logged, Attempt
<1>. QED
  BY <1>1, <1>2

(* The history is exact: every call that admits an attempt adds one to it, *)
(* so the bounds above count handshakes (limiter.go, the two branches of   *)
(* allow that return true).                                                *)
THEOREM AdmissionsAreCounted ==
  LimiterSpec =>
    [][\A ip \in IPs : allow(ip) /\ reply'.ok => Admitted(ip)' = Admitted(ip) + 1]_limiterVars
<1>. DEFINE Counted == \A ip \in IPs : allow(ip) /\ reply'.ok =>
                         Admitted(ip)' = Admitted(ip) + 1
<1>1. LimiterInv /\ ReplyInv /\ [LimiterNext]_limiterVars => [Counted]_limiterVars
  <2>. SUFFICES ASSUME LimiterInv, NEW ip \in IPs, allow(ip), reply'.ok
                PROVE  Admitted(ip)' = Admitted(ip) + 1
    OBVIOUS
  <2>. DEFINE w == maybeCleanup[ip]
              e == [start |-> seen'[ip].start, nth |-> seen'[ip].count, at |-> now]
  <2>1. /\ maybeCleanup \in [IPs -> Counter \cup {None}] /\ now \in Nat
        /\ Logged(recent[ip], w, now)
    BY CleanupFacts, Zenon
  <2>2. recent \in [IPs -> SUBSET Attempt]
    BY DEF LimiterInv
  <2>3. /\ recent' = [recent EXCEPT ![ip] = @ \cup {e}]
        /\ \/ /\ w # None
              /\ seen' = [maybeCleanup EXCEPT ![ip].count = @ + 1]
           \/ /\ ~InWindow(maybeCleanup, ip)
              /\ seen' = [maybeCleanup EXCEPT ![ip] = [count |-> 1, start |-> now]]
    BY DEF allow, Told, Admit, InWindow
  <2>4. e \notin recent[ip]
    <3>1. CASE w # None /\ seen' = [maybeCleanup EXCEPT ![ip].count = @ + 1]
      <4>1. seen'[ip].start = w.start /\ seen'[ip].count = w.count + 1
        BY <2>1, <3>1 DEF Counter
      <4>. QED
        BY <2>1, <3>1, <4>1, LoggedFresh, Zenon
    <3>2. CASE /\ ~InWindow(maybeCleanup, ip)
               /\ seen' = [maybeCleanup EXCEPT ![ip] = [count |-> 1, start |-> now]]
      <4>1. seen'[ip].start = now /\ seen'[ip].count = 1
        BY <2>1, <3>2
      <4>2. w # None => now - w.start > window
        BY <2>1, <3>2, LimiterConstants DEF InWindow, Current, Counter
      <4>3. Logged(recent[ip], None, now)
        BY <2>1, <4>2, LoggedCleanup
      <4>. QED
        BY <2>1, <4>1, <4>3, LoggedFresh, Zenon
    <3>. QED
      BY <2>3, <3>1, <3>2
  <2>5. IsFiniteSet(recent[ip])
    BY <2>1, LoggedBound
  <2>. HIDE DEF e
  <2>6. recent'[ip] = recent[ip] \cup {e}
    BY <2>2, <2>3
  <2>. QED
    BY <2>4, <2>5, <2>6, FS_AddElement, Zenon DEF Admitted
<1>. QED
  BY <1>1, LimiterInvariant, PTL DEF LimiterSpec
=============================================================================
