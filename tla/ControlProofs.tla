---------------------------- MODULE ControlProofs ----------------------------
(***************************************************************************)
(* Proof that the control API keeps its word (PromiseKept of ControlAPI),  *)
(* for any number of concurrent requests, leases, ports and restarts.      *)
(***************************************************************************)
EXTENDS ControlAPI, TLAPS

(* What was once seen of a lease still holds of the store, as long as its  *)
(* expiry is to come and it was not dropped: the same token on the same    *)
(* port, with no earlier expiry.                                           *)
Backed(id, token, port, expires) ==
  (now < expires /\ token \notin dropped) =>
    /\ leases[id] # None
    /\ leases[id].token = token /\ leases[id].port = port
    /\ leases[id].expires >= expires

BackedLease(id, l) ==
  id \in LeaseIds /\ l \in Lease /\ Backed(id, l.token, l.port, l.expires)

(* It holds of the copies the handlers have on the way to their answers as *)
(* well as of what the cloud was told: an answer may be delivered long     *)
(* after the lease was read.                                               *)
CallInv == \A h \in Calls : call[h].seen # None => BackedLease(call[h].id, call[h].seen)

ToldInv ==
  \A t \in Tokens : told[t] # None =>
    /\ told[t].id \in LeaseIds /\ told[t].expires \in Nat
    /\ Backed(told[t].id, t, told[t].port, told[t].expires)

AnswerInv == TypeOK /\ CallInv /\ ToldInv

(* Whatever was backed stays backed: a lease keeps its token and port, its *)
(* expiry only grows, and it goes unexpired only with its token dropped.   *)
Steadfast ==
  \A id \in LeaseIds, expires \in Nat : \A token, port :
    Backed(id, token, port, expires) => Backed(id, token, port, expires)'

(* A handler's copy is an old one, or the lease as it now is in the store. *)
Copied ==
  \A h \in Calls :
    \/ call'[h].seen = None
    \/ call'[h].id = call[h].id /\ call'[h].seen = call[h].seen
    \/ /\ call'[h].id \in LeaseIds /\ call'[h].seen \in Lease
       /\ leases'[call'[h].id] = call'[h].seen

LEMMA Clamped == ASSUME NEW s \in Seconds PROVE clampDuration(s) \in Nat
BY ControlAssumption DEF clampDuration

LEMMA FreeInRange == ASSUME range \in Ranges PROVE FreePorts \subseteq Ports
BY RangesAssumption DEF FreePorts

LEMMA CopiesBacked ==
  ASSUME AnswerInv, Steadfast, Copied
  PROVE  CallInv' /\ (told' = told => ToldInv')
<1>1. ASSUME NEW h \in Calls, call'[h].seen # None
      PROVE  BackedLease(call[h].id, call[h].seen)'
  <2>1. CASE call'[h].id = call[h].id /\ call'[h].seen = call[h].seen
    BY <1>1, <2>1 DEF AnswerInv, CallInv, Steadfast, BackedLease, Lease
  <2>2. CASE /\ call'[h].id \in LeaseIds /\ call'[h].seen \in Lease
             /\ leases'[call'[h].id] = call'[h].seen
    BY <1>1, <2>2 DEF BackedLease, Backed, Lease
  <2> QED
    BY <1>1, <2>1, <2>2 DEF Copied
<1>2. told' = told => ToldInv'
  BY DEF AnswerInv, ToldInv, Steadfast
<1> QED
  BY <1>1, <1>2 DEF CallInv

LEMMA AskStep ==
  ASSUME AnswerInv, NEW h \in Calls, Ask(h)
  PROVE  TypeOK' /\ Steadfast /\ Copied /\ told' = told
<1> DEFINE Goal == TypeOK' /\ Steadfast /\ Copied /\ told' = told
<1> USE NoneAssumption, BoundsAssumption DEF AnswerInv, TypeOK, regVars
<1>0. ASSUME NEW status, Fail(h, status), UNCHANGED <<sweep, range, told>> PROVE Goal
  BY <1>0 DEF Fail, Idle, Steadfast, Backed, Copied
<1>1. CASE Refuse(h)
  BY <1>0, <1>1 DEF Refuse, Unauthorized, Malformed
<1>2. ASSUME NEW id \in LeaseIds, NEW s \in Seconds, NEW cidrs \in BOOLEAN,
             handleCreate(h, id, s, cidrs)
      PROVE  Goal
  <2>1. CASE \E status : Fail(h, status)
    BY <1>0, <1>2, <2>1 DEF handleCreate
  <2>2. CASE Proceed(h, "refresh", id, leases[id], 200) /\ UNCHANGED <<regVars, dropped>>
             /\ leases[id] # None
    BY <1>2, <2>2 DEF handleCreate, Proceed, Steadfast, Backed, Copied
  <2>3. ASSUME NEW p \in FreePorts, Grant(id, clampDuration(s), p),
               Proceed(h, "refresh", id, leases'[id], 200), UNCHANGED dropped
        PROVE  Goal
    BY <1>2, <2>3, Clamped, FreeInRange
       DEF handleCreate, Grant, Proceed, Steadfast, Backed, Copied, Lease, Tokens
  <2> QED
    BY <1>2, <2>1, <2>2, <2>3 DEF handleCreate
<1>3. ASSUME NEW id \in LeaseIds, NEW s \in Seconds, handleExtend(h, id, s)
      PROVE  Goal
  <2>1. CASE \E status : Fail(h, status)
    BY <1>0, <1>3, <2>1 DEF handleExtend
  <2>2. CASE /\ Renew(id, clampDuration(s)) /\ UNCHANGED dropped
             /\ Proceed(h, "reply", id, leases'[id], 200)
    BY <1>3, <2>2, Clamped
       DEF handleExtend, Renew, Prolonged, Proceed, Steadfast, Backed, Copied, Lease
  <2> QED
    BY <1>3, <2>1, <2>2 DEF handleExtend
<1>4. ASSUME NEW id \in LeaseIds, handleRevoke(h, id) PROVE Goal
  <2>1. CASE \E status : Fail(h, status)
    BY <1>0, <1>4, <2>1 DEF handleRevoke
  <2>2. CASE /\ Revoke(id) /\ dropped' = dropped \cup {leases[id].token}
             /\ Proceed(h, "refresh", id, None, 204)
    BY <1>4, <2>2 DEF handleRevoke, Revoke, Proceed, Steadfast, Backed, Copied
  <2> QED
    BY <1>4, <2>1, <2>2 DEF handleRevoke
<1>5. ASSUME NEW id \in LeaseIds, handleGet(h, id) PROVE Goal
  <2>1. CASE \E status : Fail(h, status)
    BY <1>0, <1>5, <2>1 DEF handleGet
  <2>2. CASE /\ Proceed(h, "reply", id, leases[id], 200) /\ leases[id] # None
             /\ UNCHANGED <<regVars, dropped>>
    BY <1>5, <2>2 DEF handleGet, Proceed, Steadfast, Backed, Copied
  <2> QED
    BY <1>5, <2>1, <2>2 DEF handleGet
<1> HIDE DEF AnswerInv, TypeOK, regVars
<1> QED
  BY <1>1, <1>2, <1>3, <1>4, <1>5, Zenon DEF Ask

LEMMA DeliverStep ==
  ASSUME AnswerInv, NEW h \in Calls, Deliver(h)
  PROVE  AnswerInv'
<1>1. TypeOK' /\ Steadfast /\ Copied
  BY NoneAssumption
     DEF Deliver, AnswerInv, TypeOK, regVars, Idle, Steadfast, Backed, Copied
<1>2. CallInv' /\ (told' = told => ToldInv')
  BY <1>1, CopiesBacked
<1>3. ToldInv'
  <2>1. CASE call[h].seen = None
    BY <1>2, <2>1 DEF Deliver
  <2>2. CASE call[h].seen # None
    <3> DEFINE l == call[h].seen
    <3>1. BackedLease(call[h].id, l)
      BY <2>2 DEF AnswerInv, CallInv
    <3>2. l.token \in Tokens /\ l.expires \in Nat
      BY <3>1 DEF BackedLease, Lease
    <3>3. told' = [told EXCEPT ![l.token] = Later(call[h].id, l)] /\ DOMAIN told = Tokens
      BY <2>2 DEF Deliver, AnswerInv, TypeOK
    <3>4. UNCHANGED <<leases, now, dropped>>
      BY DEF Deliver, regVars
    <3> HIDE DEF l
    <3>5. ASSUME NEW t \in Tokens, t # l.token, told'[t] # None
          PROVE  /\ told'[t].id \in LeaseIds /\ told'[t].expires \in Nat
                 /\ Backed(told'[t].id, t, told'[t].port, told'[t].expires)
      <4>1. told'[t] = told[t]
        BY <3>3, <3>5
      <4> QED
        BY <3>5, <4>1 DEF AnswerInv, ToldInv
    <3>6. /\ told'[l.token].id \in LeaseIds /\ told'[l.token].expires \in Nat
          /\ Backed(told'[l.token].id, l.token, told'[l.token].port, told'[l.token].expires)
      <4>1. told'[l.token] = Later(call[h].id, l)
        BY <3>2, <3>3
      <4>2. CASE Later(call[h].id, l) = told[l.token] /\ told[l.token] # None
        BY <3>2, <4>1, <4>2 DEF AnswerInv, ToldInv
      <4>3. CASE Later(call[h].id, l) = [id |-> call[h].id, port |-> l.port,
                                         expires |-> l.expires]
        BY <3>1, <3>2, <4>1, <4>3 DEF BackedLease
      <4> QED
        BY <4>2, <4>3 DEF Later
    <3> QED
      BY <3>2, <3>4, <3>5, <3>6 DEF ToldInv, Backed
  <2> QED
    BY <2>1, <2>2
<1> QED
  BY <1>1, <1>2, <1>3, Zenon DEF AnswerInv

LEMMA OtherStep ==
  ASSUME AnswerInv,
         \/ \E h \in Calls : Readyz(h) \/ Lose(h)
         \/ \E t \in Tasks : Refresh(t)
         \/ Sweeping \/ Clock \/ UNCHANGED vars
         \/ \E r \in Ranges : Restart(r)
  PROVE  TypeOK' /\ Steadfast /\ Copied /\ told' = told
<1> DEFINE Goal == TypeOK' /\ Steadfast /\ Copied /\ told' = told
<1> USE NoneAssumption DEF AnswerInv, TypeOK, regVars, Steadfast, Backed, Copied
<1>1. ASSUME NEW h \in Calls, Readyz(h) \/ Lose(h) PROVE Goal
  BY <1>1 DEF Readyz, Lose, Proceed, Idle
<1>2. ASSUME NEW t \in Tasks, Refresh(t) PROVE Goal
  <2>1. CASE ReadStats(t) \/ SetActive(t)
    BY <2>1 DEF ReadStats, SetActive
  <2>2. CASE SetFree(t)
    BY <2>2 DEF SetFree, NoSweep, Tasks
  <2> QED
    BY <1>2, <2>1, <2>2 DEF Refresh
<1>3. CASE SweepStart \/ SweepDone
  BY <1>3 DEF SweepStart, SweepDone, NoSweep
<1>4. ASSUME NEW id \in LeaseIds, SweepOne(id) PROVE Goal
  <2>1. CASE UNCHANGED regVars
    BY <1>4, <2>1 DEF SweepOne
  <2>2. CASE StillExpired(id) /\ Revoke(id)
    <3>1. /\ leases[id].expires <= now /\ UNCHANGED <<minted, now>>
          /\ leases' = [leases EXCEPT ![id] = None]
      BY <1>4, <2>2 DEF SweepOne, StillExpired, Expired, Revoke, Lease
    <3>2. TypeOK' /\ Copied /\ told' = told
      BY <1>4, <3>1 DEF SweepOne
    <3>3. Steadfast
      BY <1>4, <3>1 DEF SweepOne, Lease
    <3> QED
      BY <3>2, <3>3
  <2> QED
    BY <1>4, <2>1, <2>2 DEF SweepOne
<1>5. ASSUME NEW r \in Ranges, Restart(r) PROVE Goal
  <2>1. TypeOK' /\ Copied /\ told' = told
    BY <1>5 DEF Restart, Reopen, Idle, NoSweep
  <2>2. ASSUME NEW id \in LeaseIds, leases[id] # None, now < leases[id].expires,
               leases[id].token \notin dropped'
        PROVE  leases'[id] = leases[id]
    BY <1>5, <2>2 DEF Restart, Reopen, Kept, Expired, Active, Lease
  <2>3. Steadfast
    BY <1>5, <2>2 DEF Restart, Reopen, Lease
  <2> QED
    BY <2>1, <2>3
<1>6. CASE Clock \/ UNCHANGED vars
  BY <1>6 DEF Clock, Tick, taskVars, vars
<1> HIDE DEF AnswerInv, TypeOK, regVars, Steadfast, Backed, Copied
<1> QED
  BY <1>1, <1>2, <1>3, <1>4, <1>5, <1>6, Zenon DEF Sweeping

LEMMA AnswerInit == Init => AnswerInv
BY NoneAssumption DEF Init, RegInit, AnswerInv, TypeOK, CallInv, ToldInv, Idle, NoSweep

LEMMA AnswerStep == AnswerInv /\ [Next]_vars => AnswerInv'
<1> SUFFICES ASSUME AnswerInv, [Next]_vars PROVE AnswerInv'
  OBVIOUS
<1>1. ASSUME TypeOK', Steadfast, Copied, told' = told PROVE AnswerInv'
  BY <1>1, CopiesBacked DEF AnswerInv
<1>2. ASSUME NEW h \in Calls, Ask(h) PROVE AnswerInv'
  BY <1>1, <1>2, AskStep
<1> QED
  BY <1>1, <1>2, DeliverStep, OtherStep DEF Next

(* Whatever the cloud was told of a lease holds until the expiry it was    *)
(* told, whatever requests, lost answers, sweeps and restarts come between *)
(* (api.go, coordinator.go): a lease goes early only when it is revoked or *)
(* a restart narrows the range.                                            *)
THEOREM PromisesKept == Spec => []PromiseKept
<1>1. AnswerInv => PromiseKept
  BY DEF AnswerInv, ToldInv, Backed, PromiseKept
<1> QED
  BY <1>1, AnswerInit, AnswerStep, PTL DEF Spec

(* The store, the handlers' records, the sweep and what the cloud was told *)
(* keep their types (api.go, coordinator.go).                              *)
THEOREM ControlTypes == Spec => []TypeOK
<1>1. AnswerInv => TypeOK
  BY Zenon DEF AnswerInv
<1> QED
  BY <1>1, AnswerInit, AnswerStep, PTL DEF Spec
(* The handlers, the sweeper and a restart take the store through steps of *)
(* LeaseRegistry alone, with no duration outside the clamp and no port     *)
(* outside the range of the running daemon (api.go, coordinator.go).       *)
THEOREM HandlersUseRegistry ==
  ASSUME MinLeaseSeconds .. MaxLeaseSeconds \subseteq Durations
  PROVE  Spec => RegSpec
<1>1. Init => RegInit
  BY DEF Init
<1>2. TypeOK /\ [Next]_vars => [RegNext]_regVars
  <2> SUFFICES ASSUME TypeOK, [Next]_vars PROVE RegNext \/ UNCHANGED regVars
    BY Zenon
  <2>1. \A s \in Seconds : clampDuration(s) \in Durations
    BY ControlAssumption DEF clampDuration
  <2>2. FreePorts \subseteq Ports
    BY FreeInRange DEF TypeOK
  <2>3. ASSUME NEW h \in Calls, Ask(h) PROVE RegNext \/ UNCHANGED regVars
    <3>1. CASE Refuse(h)
      BY <3>1, Zenon DEF Refuse, Unauthorized, Malformed, Fail
    <3>2. ASSUME NEW id \in LeaseIds, NEW s \in Seconds, NEW cidrs \in BOOLEAN,
                 handleCreate(h, id, s, cidrs)
          PROVE  RegNext \/ UNCHANGED regVars
      <4>1. \/ UNCHANGED regVars
            \/ \E p \in FreePorts : Grant(id, clampDuration(s), p)
        BY <3>2, Zenon DEF handleCreate, Fail
      <4> QED
        BY <2>1, <2>2, <4>1, Zenon DEF RegNext
    <3>3. ASSUME NEW id \in LeaseIds, NEW s \in Seconds, handleExtend(h, id, s)
          PROVE  RegNext \/ UNCHANGED regVars
      BY <2>1, <3>3, Zenon DEF handleExtend, Fail, RegNext
    <3>4. ASSUME NEW id \in LeaseIds, handleRevoke(h, id) \/ handleGet(h, id)
          PROVE  RegNext \/ UNCHANGED regVars
      BY <3>4, Zenon DEF handleRevoke, handleGet, Fail, RegNext
    <3> QED
      BY <2>3, <3>1, <3>2, <3>3, <3>4, Zenon DEF Ask
  <2>4. ASSUME NEW h \in Calls, Readyz(h) \/ Deliver(h) \/ Lose(h) PROVE UNCHANGED regVars
    BY <2>4, Zenon DEF Readyz, Deliver, Lose
  <2>5. ASSUME NEW t \in Tasks, Refresh(t) PROVE UNCHANGED regVars
    BY <2>5, Zenon DEF Refresh, ReadStats, SetActive, SetFree
  <2>6. CASE Sweeping
    BY <2>6, Zenon DEF Sweeping, SweepStart, SweepOne, SweepDone, RegNext
  <2>7. ASSUME NEW r \in Ranges, Restart(r) PROVE RegNext
    BY <2>7, Zenon DEF Restart, RegNext
  <2>8. CASE Clock \/ UNCHANGED vars
    BY <2>8, Zenon DEF Clock, RegNext, vars
  <2> QED
    BY <2>3, <2>4, <2>5, <2>6, <2>7, <2>8, Zenon DEF Next
<1> QED
  BY <1>1, <1>2, ControlTypes, PTL DEF Spec, RegSpec
=============================================================================
