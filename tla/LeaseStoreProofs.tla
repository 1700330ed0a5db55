-------------------------- MODULE LeaseStoreProofs --------------------------
(***************************************************************************)
(* Proofs about LeaseStore, for every instance of its constants: its       *)
(* inductive invariant StoreInv, the safety properties that follow from    *)
(* it, and the refinement of LeaseRegistry.                                *)
(***************************************************************************)
EXTENDS LeaseStore, FiniteSetTheorems, WellFoundedInduction, TLAPS

(* What allocate returns is a free port of the range, and the cursor it    *)
(* leaves behind is in the range (allocator.go, allocate).                 *)
LEMMA AllocateFacts ==
  ASSUME TypeOK, NEW busy, NEW p \in allocate(busy)
  PROVE  /\ p \in Ports
         /\ p \in portRange.min .. portRange.max
         /\ p \notin used
         /\ After(p) \in portRange.min .. portRange.max
<1>1. /\ portRange.min \in Nat /\ portRange.max \in Nat
      /\ portRange.min <= portRange.max
      /\ portRange.min .. portRange.max \subseteq Ports
      /\ next \in portRange.min .. portRange.max
  BY RangesAssumption DEF TypeOK
<1>2. PICK i \in 0 .. Span - 1 : p = Candidate(i) /\ Free(Candidate(i), busy)
  BY DEF allocate
<1>3. p \in portRange.min .. portRange.max
  BY <1>1, <1>2 DEF Candidate, Span
<1>4. p \notin used
  BY <1>2 DEF Free
<1>5. After(p) \in portRange.min .. portRange.max
  BY <1>1, <1>3 DEF After
<1>. QED
  BY <1>1, <1>3, <1>4, <1>5

(* Before the first Open nothing is persisted or indexed (store.go, Store). *)
LEMMA InitStoreInv == Init => StoreInv
<1>. SUFFICES ASSUME Init PROVE StoreInv
  OBVIOUS
<1>1. TypeOK
  <2>1. next \in portRange.min .. portRange.max
    BY RangesAssumption DEF Init
  <2>2. minted \in 0 .. MaxMints /\ now \in 0 .. MaxTime
    BY BoundsAssumption DEF Init
  <2>3. /\ NoLeases \in [LeaseIds -> Lease \cup {None}]
        /\ NoTokens \in [Tokens -> LeaseIds \cup {None}]
    BY DEF NoLeases, NoTokens
  <2>. QED
    BY <2>1, <2>2, <2>3, Zenon DEF Init, TypeOK
<1>2. \A id \in LeaseIds : byID[id] = None /\ db[id] = None
  BY Zenon DEF Init, NoLeases
<1>3. \A t \in Tokens : byToken[t] = None
  BY DEF Init, NoTokens
<1>. QED
  BY <1>1, <1>2, <1>3, NoneAssumption
  DEF Init, StoreInv, MidCall, Exclusive, Idle, NoLeases

(* A call that only answers its caller. *)
LEMMA AnswerOnly ==
  ASSUME StoreInv, reply' \in Replies \cup {None}, now' \in 0 .. MaxTime,
         UNCHANGED <<memVars, db, crit, minted>>
  PROVE  StoreInv'
<1>1. TypeOK'
  BY DEF StoreInv, TypeOK, memVars
<1>. QED
  BY <1>1 DEF StoreInv, MidCall, Exclusive, Idle, PortsOf, memVars

(* Create that fails after allocate gives its port back (store.go, Create). *)
LEMMA CreateAbortedStep ==
  ASSUME StoreInv, NEW id \in LeaseIds, NEW busy, CreateAborted(id, busy)
  PROVE  StoreInv'
<1>1. PICK p \in allocate(busy) : used' = (used \cup {p}) \ {p} /\ next' = After(p)
  BY DEF CreateAborted
<1>2. p \notin used /\ next' \in portRange.min .. portRange.max
  BY <1>1, AllocateFacts DEF StoreInv
<1>3. used' = used
  BY <1>1, <1>2
<1>4. TypeOK'
  BY <1>2, <1>3, Zenon DEF StoreInv, TypeOK, CreateAborted, Answer, Replies, Results
<1>. QED
  BY <1>3, <1>4 DEF StoreInv, MidCall, Exclusive, Idle, PortsOf, CreateAborted

(* Create writes the row of a fresh lease on a free port (store.go, Create). *)
LEMMA CreateCommitStep ==
  ASSUME StoreInv, NEW id \in LeaseIds, NEW d \in Durations, NEW busy,
         CreateCommit(id, d, busy)
  PROVE  StoreInv'
<1>1. PICK p \in allocate(busy) :
        LET l == [token |-> minted + 1, port |-> p, expires |-> now + d]
        IN  /\ used' = used \cup {p}
            /\ next' = After(p)
            /\ db' = [db EXCEPT ![id] = l]
            /\ crit' = [op |-> "create", id |-> id, lease |-> l]
  BY Zenon DEF CreateCommit
<1>. DEFINE l == [token |-> minted + 1, port |-> p, expires |-> now + d]
<1>2. /\ p \in Ports /\ p \in portRange.min .. portRange.max /\ p \notin used
      /\ next' \in portRange.min .. portRange.max
  BY <1>1, AllocateFacts DEF StoreInv
<1>3. l \in Lease /\ l # None /\ l.port = p /\ l.token = minted + 1
  BY <1>2, BoundsAssumption, NoneAssumption
  DEF StoreInv, TypeOK, CreateCommit, Lease, Tokens
<1>4. /\ db' = [db EXCEPT ![id] = l]
      /\ crit' = [op |-> "create", id |-> id, lease |-> l]
  BY <1>1
<1>. HIDE DEF l
<1>5. /\ up /\ crit = None /\ byID = db /\ byID[id] = None
      /\ UNCHANGED <<up, portRange, byID, byToken, reply, now>>
      /\ minted' = minted + 1 /\ minted < MaxMints
  BY DEF StoreInv, Idle, CreateCommit
<1>6. crit' \in Critical /\ crit' # None
  BY <1>3, <1>4, StoreNoneAssumption DEF Critical
<1>7. TypeOK'
  BY <1>1, <1>2, <1>3, <1>4, <1>5, <1>6, BoundsAssumption DEF StoreInv, TypeOK
<1>8. /\ \A i \in LeaseIds : i # id => db'[i] = db[i]
      /\ db'[id] = l
  BY <1>4 DEF StoreInv, TypeOK
<1>9. MidCall'
  BY <1>4, <1>5, <1>8 DEF MidCall
<1>10. used = PortsOf(db)
  BY <1>5, Zenon DEF StoreInv
<1>11. used' = PortsOf(byID)' \cup PortsOf(db)'
  BY <1>1, <1>3, <1>5, <1>8, <1>10 DEF PortsOf
<1>12. \A i \in LeaseIds : db[i] # None => db[i].port # p /\ db[i].token < l.token
  BY <1>2, <1>3, <1>10, BoundsAssumption DEF PortsOf, StoreInv, TypeOK, Lease, Tokens
<1>13. Exclusive(db)'
  BY <1>3, <1>8, <1>12, BoundsAssumption DEF Exclusive, StoreInv, TypeOK, Lease, Tokens
<1>14. \A i \in LeaseIds : db'[i] # None => db'[i].token <= minted'
  BY <1>3, <1>5, <1>8, <1>12, BoundsAssumption DEF StoreInv, TypeOK, Lease, Tokens
<1>. QED
  BY <1>5, <1>6, <1>7, <1>9, <1>11, <1>13, <1>14 DEF StoreInv, Idle, Exclusive

(* Create publishes the lease it has persisted in both indexes (store.go). *)
LEMMA CreateApplyStep == StoreInv /\ CreateApply => StoreInv'
<1>. SUFFICES ASSUME StoreInv, CreateApply PROVE StoreInv'
  OBVIOUS
<1>. DEFINE id == crit.id
            l == crit.lease
<1>1. /\ up /\ id \in LeaseIds /\ l \in Lease /\ l # None /\ l.token \in Tokens
      /\ byID[id] = None /\ db[id] = l
      /\ \A i \in LeaseIds : i # id => byID[i] = db[i]
  BY NoneAssumption DEF StoreInv, TypeOK, MidCall, CreateApply, Critical, Lease
<1>2. /\ byID' = [byID EXCEPT ![id] = l] /\ byToken' = [byToken EXCEPT ![l.token] = id]
      /\ crit' = None /\ reply' = Answer(id, "ok", l)
      /\ UNCHANGED <<up, portRange, used, next, db, minted, now>>
  BY DEF CreateApply
<1>. HIDE DEF id, l
<1>3. TypeOK'
  BY <1>1, <1>2 DEF StoreInv, TypeOK, Answer, Replies, Results
<1>4. byID' = db'
  BY <1>1, <1>2 DEF StoreInv, TypeOK
<1>5. used' = PortsOf(byID)' \cup PortsOf(db)'
  BY <1>1, <1>2, <1>4 DEF StoreInv, PortsOf, TypeOK
<1>6. ASSUME NEW t \in Tokens, NEW i \in LeaseIds
      PROVE  byToken'[t] = i <=> byID'[i] # None /\ byID'[i].token = t
  <2>1. \A j \in LeaseIds : byID[j] # None => byID[j].token # l.token
    BY <1>1 DEF StoreInv, Exclusive
  <2>2. CASE i = id
    BY <1>1, <1>2, <2>1, <2>2 DEF StoreInv, TypeOK
  <2>3. CASE i # id
    BY <1>1, <1>2, <2>1, <2>3 DEF StoreInv, TypeOK
  <2>. QED
    BY <2>2, <2>3
<1>7. MidCall' /\ Exclusive(byID)' /\ Exclusive(db)'
  <2>1. MidCall'
    BY <1>2 DEF MidCall
  <2>2. db' = db /\ byID' = db
    BY <1>2, <1>4
  <2>. QED
    BY <2>1, <2>2 DEF StoreInv, Exclusive
<1>8. \A i \in LeaseIds : db'[i] # None => db'[i].token <= minted'
  BY <1>2 DEF StoreInv
<1>. QED
  BY <1>1, <1>2, <1>3, <1>4, <1>5, <1>6, <1>7, <1>8, Zenon DEF StoreInv

(* Extend writes the row with the later expiry (store.go, Extend). *)
LEMMA ExtendCommitStep ==
  ASSUME StoreInv, NEW id \in LeaseIds, NEW d \in Durations, ExtendCommit(id, d)
  PROVE  StoreInv'
<1>. DEFINE l == Prolonged(byID[id], d)
<1>1. /\ up /\ crit = None /\ byID = db /\ byID[id] # None /\ byID[id] \in Lease
      /\ db' = [db EXCEPT ![id] = l]
      /\ crit' = [op |-> "extend", id |-> id, lease |-> l]
      /\ UNCHANGED <<memVars, reply, minted, now>>
  BY DEF StoreInv, TypeOK, Idle, ExtendCommit
<1>2. /\ l \in Lease /\ l # None /\ l.token = byID[id].token /\ l.port = byID[id].port
      /\ l.expires >= byID[id].expires
  BY <1>1, BoundsAssumption, NoneAssumption DEF Lease, Prolonged
<1>. HIDE DEF l
<1>3. crit' \in Critical /\ crit' # None
  BY <1>1, <1>2, StoreNoneAssumption DEF Critical
<1>4. TypeOK'
  BY <1>1, <1>2, <1>3 DEF StoreInv, TypeOK, memVars
<1>5. /\ \A i \in LeaseIds : i # id => db'[i] = db[i]
      /\ db'[id] = l
  BY <1>1 DEF StoreInv, TypeOK
<1>6. MidCall'
  BY <1>1, <1>2, <1>5 DEF MidCall, memVars
<1>7. used' = PortsOf(byID)' \cup PortsOf(db)'
  BY <1>1, <1>2, <1>5 DEF StoreInv, PortsOf, memVars
<1>8. Exclusive(byID)' /\ Exclusive(db)'
  BY <1>1, <1>2, <1>5 DEF StoreInv, Exclusive, memVars
<1>9. \A i \in LeaseIds : db'[i] # None => db'[i].token <= minted'
  BY <1>1, <1>2, <1>5 DEF StoreInv
<1>10. \A t \in Tokens, i \in LeaseIds :
         byToken'[t] = i <=> byID'[i] # None /\ byID'[i].token = t
  BY <1>1 DEF StoreInv, memVars
<1>11. up' /\ ~Idle'
  BY <1>1, <1>3 DEF Idle, memVars
<1>. QED
  BY <1>4, <1>6, <1>7, <1>8, <1>9, <1>10, <1>11 DEF StoreInv

(* Extend lets memory follow the row (store.go, Extend). *)
LEMMA ExtendApplyStep == StoreInv /\ ExtendApply => StoreInv'
<1>. SUFFICES ASSUME StoreInv, ExtendApply PROVE StoreInv'
  OBVIOUS
<1>. DEFINE id == crit.id
            l == crit.lease
<1>1. /\ up /\ id \in LeaseIds /\ l \in Lease /\ l # None
      /\ byID[id] # None /\ byID[id] \in Lease /\ db[id] = l
      /\ l.token = byID[id].token /\ l.port = byID[id].port
      /\ \A i \in LeaseIds : i # id => byID[i] = db[i]
  BY NoneAssumption DEF StoreInv, TypeOK, MidCall, ExtendApply, Critical
<1>2. /\ byID' = [byID EXCEPT ![id] = [@ EXCEPT !.expires = l.expires]]
      /\ crit' = None /\ reply' = Answer(id, "ok", byID'[id])
      /\ UNCHANGED <<up, portRange, byToken, used, next, db, minted, now>>
  BY DEF ExtendApply
<1>. HIDE DEF id, l
<1>3. [byID[id] EXCEPT !.expires = l.expires] = l
  BY <1>1 DEF Lease
<1>4. byID' = db'
  BY <1>1, <1>2, <1>3 DEF StoreInv, TypeOK
<1>5. TypeOK'
  BY <1>1, <1>2, <1>4 DEF StoreInv, TypeOK, Answer, Replies, Results
<1>6. \A i \in LeaseIds : /\ byID'[i] # None <=> byID[i] # None
                          /\ byID[i] # None => byID'[i].token = byID[i].token
  BY <1>1, <1>2, <1>4
<1>7. used' = PortsOf(byID)' \cup PortsOf(db)'
  BY <1>1, <1>2, <1>4 DEF StoreInv, PortsOf
<1>8. MidCall' /\ Exclusive(byID)' /\ Exclusive(db)'
  <2>1. MidCall'
    BY <1>2 DEF MidCall
  <2>2. db' = db /\ byID' = db
    BY <1>2, <1>4
  <2>. QED
    BY <2>1, <2>2 DEF StoreInv, Exclusive
<1>9. \A i \in LeaseIds : db'[i] # None => db'[i].token <= minted'
  BY <1>2 DEF StoreInv
<1>10. \A t \in Tokens, i \in LeaseIds :
         byToken'[t] = i <=> byID'[i] # None /\ byID'[i].token = t
  BY <1>2, <1>6 DEF StoreInv
<1>. QED
  BY <1>1, <1>2, <1>4, <1>5, <1>7, <1>8, <1>9, <1>10, Zenon DEF StoreInv

(* remove deletes the row while indexes and port stay (store.go, remove). *)
LEMMA RemoveCommitStep ==
  ASSUME StoreInv, NEW id \in LeaseIds, RemoveCommit(id)
  PROVE  StoreInv'
<1>1. /\ up /\ crit = None /\ byID = db /\ byID[id] # None /\ byID[id] \in Lease
      /\ db' = [db EXCEPT ![id] = None]
      /\ crit' = [op |-> "remove", id |-> id, lease |-> byID[id]]
      /\ UNCHANGED <<memVars, reply, minted, now>>
  BY DEF StoreInv, TypeOK, Idle, RemoveCommit
<1>2. crit' \in Critical /\ crit' # None
  BY <1>1, StoreNoneAssumption DEF Critical
<1>3. TypeOK'
  BY <1>1, <1>2 DEF StoreInv, TypeOK, memVars
<1>4. /\ \A i \in LeaseIds : i # id => db'[i] = db[i]
      /\ db'[id] = None
  BY <1>1 DEF StoreInv, TypeOK
<1>5. MidCall'
  BY <1>1, <1>4 DEF MidCall, memVars
<1>6. used' = PortsOf(byID)' \cup PortsOf(db)'
  BY <1>1, <1>4 DEF StoreInv, PortsOf, memVars
<1>7. Exclusive(byID)' /\ Exclusive(db)'
  BY <1>1, <1>4 DEF StoreInv, Exclusive, memVars
<1>8. \A i \in LeaseIds : db'[i] # None => db'[i].token <= minted'
  BY <1>1, <1>4 DEF StoreInv
<1>9. \A t \in Tokens, i \in LeaseIds :
        byToken'[t] = i <=> byID'[i] # None /\ byID'[i].token = t
  BY <1>1 DEF StoreInv, memVars
<1>10. up' /\ ~Idle'
  BY <1>1, <1>2 DEF Idle, memVars
<1>. QED
  BY <1>3, <1>5, <1>6, <1>7, <1>8, <1>9, <1>10 DEF StoreInv

(* remove drops the indexes and releases the port (store.go, remove). *)
LEMMA RemoveApplyStep == StoreInv /\ RemoveApply => StoreInv'
<1>. SUFFICES ASSUME StoreInv, RemoveApply PROVE StoreInv'
  OBVIOUS
<1>. DEFINE id == crit.id
            l == crit.lease
<1>1. /\ up /\ id \in LeaseIds /\ l \in Lease /\ l # None /\ l.token \in Tokens
      /\ byID[id] = l /\ db[id] = None
      /\ \A i \in LeaseIds : i # id => byID[i] = db[i]
  BY NoneAssumption DEF StoreInv, TypeOK, MidCall, RemoveApply, Critical, Lease
<1>2. /\ byID' = [byID EXCEPT ![id] = None] /\ byToken' = [byToken EXCEPT ![l.token] = None]
      /\ used' = used \ {l.port}
      /\ crit' = None /\ reply' = Answer(id, "ok", None)
      /\ UNCHANGED <<up, portRange, next, db, minted, now>>
  BY DEF RemoveApply
<1>. HIDE DEF id, l
<1>3. TypeOK'
  BY <1>1, <1>2, Zenon DEF StoreInv, TypeOK, Answer, Replies, Results
<1>4. byID' = db'
  BY <1>1, <1>2 DEF StoreInv, TypeOK
<1>5. used' = PortsOf(byID)' \cup PortsOf(db)'
  <2>1. used = PortsOf(byID) \cup PortsOf(db)
    BY <1>1 DEF StoreInv
  <2>2. l.port \notin PortsOf(db)
    BY <1>1 DEF StoreInv, Exclusive, PortsOf
  <2>3. PortsOf(byID) \cup PortsOf(db) = PortsOf(db) \cup {l.port}
    BY <1>1 DEF PortsOf
  <2>4. used' = PortsOf(db)
    BY <1>2, <2>1, <2>2, <2>3
  <2>. QED
    BY <1>2, <1>4, <2>4, Zenon DEF PortsOf
<1>6. \A t \in Tokens, i \in LeaseIds :
        byToken'[t] = i <=> byID'[i] # None /\ byID'[i].token = t
  <2>1. \A j \in LeaseIds : j # id /\ byID[j] # None => byID[j].token # l.token
    BY <1>1 DEF StoreInv, Exclusive
  <2>. QED
    BY <1>1, <1>2, <2>1, NoneAssumption DEF StoreInv, TypeOK
<1>7. MidCall' /\ Exclusive(byID)' /\ Exclusive(db)'
  <2>1. MidCall'
    BY <1>2 DEF MidCall
  <2>2. db' = db /\ byID' = db
    BY <1>2, <1>4
  <2>. QED
    BY <2>1, <2>2 DEF StoreInv, Exclusive
<1>8. \A i \in LeaseIds : db'[i] # None => db'[i].token <= minted'
  BY <1>2 DEF StoreInv
<1>. QED
  BY <1>1, <1>2, <1>3, <1>4, <1>5, <1>6, <1>7, <1>8, Zenon DEF StoreInv

(* A crash loses memory only, whatever call was half done (store.go). *)
LEMMA CrashStep == StoreInv /\ Crash => StoreInv'
<1>. SUFFICES ASSUME StoreInv, Crash PROVE StoreInv'
  OBVIOUS
<1>1. /\ NoLeases \in [LeaseIds -> Lease \cup {None}]
      /\ NoTokens \in [Tokens -> LeaseIds \cup {None}]
      /\ \A i \in LeaseIds : NoLeases[i] = None
      /\ \A t \in Tokens : NoTokens[t] = None
  BY DEF NoLeases, NoTokens
<1>2. TypeOK'
  BY <1>1, Zenon DEF StoreInv, TypeOK, Crash
<1>. QED
  BY <1>1, <1>2, NoneAssumption DEF StoreInv, MidCall, Exclusive, Idle, Crash

(* Open rebuilds indexes and allocator from the rows it keeps (store.go). *)
LEMMA OpenStep ==
  ASSUME StoreInv, NEW r \in Ranges, Open(r)
  PROVE  StoreInv'
<1>1. /\ up' /\ portRange' = r /\ next' = r.min /\ byID' = db'
      /\ crit = None /\ UNCHANGED <<crit, reply, minted, now>>
  BY DEF StoreInv, Open
<1>2. \A i \in LeaseIds : db'[i] = IF Loadable(i, r) THEN db[i] ELSE None
  BY DEF Open
<1>3. /\ db' \in [LeaseIds -> Lease \cup {None}]
      /\ byToken' \in [Tokens -> LeaseIds \cup {None}]
  BY DEF Open, StoreInv, TypeOK
<1>4. used' = PortsOf(db')
  BY <1>2 DEF Open, PortsOf, Loadable
<1>5. PortsOf(db') \subseteq r.min .. r.max
  BY <1>2 DEF PortsOf, Loadable, InRange
<1>6. TypeOK'
  BY <1>1, <1>3, <1>4, <1>5, RangesAssumption DEF StoreInv, TypeOK
<1>7. Exclusive(db)' /\ Exclusive(byID)'
  BY <1>1, <1>2 DEF StoreInv, Exclusive
<1>8. \A i \in LeaseIds : db'[i] # None => db'[i].token <= minted'
  BY <1>1, <1>2 DEF StoreInv
<1>9. ASSUME NEW t \in Tokens, NEW i \in LeaseIds
      PROVE  byToken'[t] = i <=> byID'[i] # None /\ byID'[i].token = t
  <2>. DEFINE P(j) == Loadable(j, r) /\ db[j].token = t
  <2>1. byToken'[t] = IF \E j \in LeaseIds : P(j) THEN CHOOSE j \in LeaseIds : P(j) ELSE None
    BY DEF Open
  <2>2. P(i) <=> byID'[i] # None /\ byID'[i].token = t
    BY <1>1, <1>2 DEF Loadable
  <2>3. \A j, k \in LeaseIds : P(j) /\ P(k) => j = k
    BY DEF StoreInv, Exclusive, Loadable
  <2>4. CASE \E j \in LeaseIds : P(j)
    <3>1. byToken'[t] \in LeaseIds /\ P(byToken'[t])
      BY <2>1, <2>4
    <3>. QED
      BY <2>2, <2>3, <3>1
  <2>5. CASE ~ \E j \in LeaseIds : P(j)
    BY <2>1, <2>2, <2>5, NoneAssumption
  <2>. QED
    BY <2>4, <2>5
<1>. QED
  BY <1>1, <1>4, <1>6, <1>7, <1>8, <1>9 DEF StoreInv, MidCall
(* StoreInv is inductive: one case per action of the store. *)
LEMMA NextStoreInv == StoreInv /\ [Next]_vars => StoreInv'
<1>. SUFFICES ASSUME StoreInv, [Next]_vars PROVE StoreInv'
  OBVIOUS
<1>. USE DEF Answer, Replies, Results
<1>0. now \in 0 .. MaxTime
  BY DEF StoreInv, TypeOK
<1>1. ASSUME NEW id \in LeaseIds, CreateExisting(id) PROVE StoreInv'
  <2>1. byID[id] \in Lease
    BY <1>1 DEF StoreInv, TypeOK, CreateExisting
  <2>. QED
    BY <1>0, <1>1, <2>1, AnswerOnly DEF CreateExisting
<1>2. ASSUME NEW id \in LeaseIds, CreateInvalid(id) PROVE StoreInv'
  BY <1>0, <1>2, AnswerOnly DEF CreateInvalid
<1>3. ASSUME NEW id \in LeaseIds, NEW busy, CreateExhausted(id, busy) PROVE StoreInv'
  BY <1>0, <1>3, AnswerOnly DEF CreateExhausted
<1>4. ASSUME NEW id \in LeaseIds, ExtendMissing(id) PROVE StoreInv'
  BY <1>0, <1>4, AnswerOnly DEF ExtendMissing
<1>5. ASSUME NEW id \in LeaseIds, ExtendAborted(id) PROVE StoreInv'
  BY <1>0, <1>5, AnswerOnly DEF ExtendAborted
<1>6. ASSUME NEW id \in LeaseIds, RemoveMissing(id) PROVE StoreInv'
  BY <1>0, <1>6, AnswerOnly DEF RemoveMissing
<1>7. ASSUME NEW id \in LeaseIds, RemoveAborted(id) PROVE StoreInv'
  BY <1>0, <1>7, AnswerOnly DEF RemoveAborted
<1>8. ASSUME NEW id \in LeaseIds, Revoke(id) PROVE StoreInv'
  BY <1>6, <1>7, <1>8, RemoveCommitStep DEF Revoke
<1>9. ASSUME NEW id \in LeaseIds, NEW cutoff, MarkExpiredIfBefore(id, cutoff)
      PROVE  StoreInv'
  <2>1. CASE reply' = Answer(id, "kept", None) /\ UNCHANGED <<memVars, db, crit, minted, now>>
    BY <1>0, <2>1, AnswerOnly
  <2>. QED
    BY <1>7, <1>9, <2>1, RemoveCommitStep DEF MarkExpiredIfBefore
<1>10. ASSUME Tick PROVE StoreInv'
  <2>1. now' \in 0 .. MaxTime /\ reply' \in Replies \cup {None}
    BY <1>0, <1>10, BoundsAssumption DEF Tick, StoreInv, TypeOK
  <2>. QED
    BY <1>10, <2>1, AnswerOnly DEF Tick
<1>11. CASE UNCHANGED vars
  <2>1. reply' \in Replies \cup {None}
    BY <1>11 DEF vars, StoreInv, TypeOK
  <2>. QED
    BY <1>0, <1>11, <2>1, AnswerOnly DEF vars
<1>. QED
  BY <1>1, <1>2, <1>3, <1>4, <1>5, <1>8, <1>9, <1>10, <1>11,
     CreateAbortedStep, CreateCommitStep, CreateApplyStep,
     ExtendCommitStep, ExtendApplyStep, RemoveApplyStep, CrashStep, OpenStep
  DEF Next

(* Every reachable state of the store satisfies the inductive invariant:   *)
(* rows, indexes and allocator agree at every step, crashes included       *)
(* (store.go, allocator.go).                                               *)
THEOREM StoreInvariant == Spec => []StoreInv
BY InitStoreInv, NextStoreInv, PTL DEF Spec

(* Types; the allocator's cursor stays in the configured range             *)
(* (allocator.go, allocate).                                               *)
THEOREM TypeCorrect == Spec => []TypeOK
<1>1. StoreInv => TypeOK
  BY DEF StoreInv
<1>. QED
  BY <1>1, StoreInvariant, PTL

(* No two persisted leases share a port, at any instant a crash may strike *)
(* (store.go, Create and remove).                                          *)
THEOREM PortsAreExclusive == Spec => []PortsExclusive
<1>1. StoreInv => PortsExclusive
  BY DEF StoreInv, Exclusive, PortsExclusive
<1>. QED
  BY <1>1, StoreInvariant, PTL

(* Memory never promises more than the file holds (store.go: Extend        *)
(* persists first, remove deletes the row first, Create publishes last).   *)
THEOREM MemoryIsBacked == Spec => []DiskBacksMemory
<1>1. ASSUME StoreInv PROVE DiskBacksMemory
  <2>1. ASSUME NEW id \in LeaseIds, byID[id] # None
        PROVE  \/ /\ db[id] # None
                  /\ db[id].token = byID[id].token /\ db[id].port = byID[id].port
                  /\ byID[id].expires <= db[id].expires
               \/ crit # None /\ crit.op = "remove" /\ crit.id = id
    <3>1. byID[id] \in Lease
      BY <1>1, <2>1 DEF StoreInv, TypeOK
    <3>2. CASE byID[id] = db[id]
      BY <2>1, <3>1, <3>2 DEF Lease
    <3>3. CASE byID[id] # db[id]
      <4>1. crit # None /\ crit.id = id /\ crit.op \in {"create", "extend", "remove"}
        BY <1>1, <2>1, <3>3 DEF StoreInv, TypeOK, MidCall, Idle, NoLeases, Critical
      <4>2. crit.op # "create"
        BY <1>1, <2>1, <4>1 DEF StoreInv, MidCall
      <4>3. CASE crit.op = "extend"
        <5>1. db[id] = crit.lease /\ crit.lease \in Lease /\ crit.lease # None
          BY <1>1, <4>1, <4>3, NoneAssumption DEF StoreInv, MidCall, TypeOK, Critical
        <5>. QED
          BY <1>1, <3>1, <4>1, <4>3, <5>1 DEF StoreInv, MidCall, Lease
      <4>. QED
        BY <4>1, <4>2, <4>3
    <3>. QED
      BY <3>2, <3>3
  <2>. QED
    BY <1>1, <2>1 DEF DiskBacksMemory, StoreInv
<1>. QED
  BY <1>1, StoreInvariant, PTL
(* A live token finds its lease and the token of a removed lease finds     *)
(* nothing (store.go, ByToken against Create, remove and Open).            *)
THEOREM TokensResolve == Spec => []TokenIndex
<1>1. ASSUME StoreInv PROVE TokenIndex
  <2>1. \A id \in LeaseIds : byID[id] # None =>
          byID[id].token \in Tokens /\ byToken[byID[id].token] = id
    BY <1>1 DEF StoreInv, TypeOK, Lease
  <2>2. \A t \in Tokens : byToken[t] # None =>
          byToken[t] \in LeaseIds /\ byID[byToken[t]] # None /\ byID[byToken[t]].token = t
    BY <1>1 DEF StoreInv, TypeOK
  <2>. QED
    BY <2>1, <2>2, NoneAssumption DEF TokenIndex, ByToken, Get
<1>. QED
  BY <1>1, StoreInvariant, PTL

(* A set of naturals that is not empty has a least element. *)
LEMMA LeastElement ==
  ASSUME NEW S \in SUBSET Nat, S # {}
  PROVE  \E m \in S : \A k \in S : m <= k
<1>1. PICK m \in S : \A k \in S : ~(<<k, m>> \in OpToRel(<, Nat))
  BY WFMin, NatLessThanWellFounded, Zenon
<1>2. \A k \in S : ~(k < m)
  BY <1>1, Zenon DEF OpToRel
<1>. QED
  BY <1>2

(* The scan of allocate meets every port of the range within one round of  *)
(* the cursor, wherever the cursor stands (allocator.go, allocate).        *)
LEMMA ScanMeetsEveryPort ==
  ASSUME TypeOK, NEW p \in portRange.min .. portRange.max
  PROVE  \E i \in 0 .. Span - 1 : Candidate(i) = p
<1>1. /\ portRange.min \in Nat /\ portRange.max \in Nat
      /\ next \in portRange.min .. portRange.max
  BY RangesAssumption DEF TypeOK
<1>2. CASE next <= p
  <2>1. p - next \in 0 .. Span - 1 /\ Candidate(p - next) = p
    BY <1>1, <1>2 DEF Span, Candidate
  <2>. QED
    BY <2>1
<1>3. CASE p < next
  <2>1. p - next + Span \in 0 .. Span - 1 /\ Candidate(p - next + Span) = p
    BY <1>1, <1>3 DEF Span, Candidate
  <2>. QED
    BY <2>1
<1>. QED
  BY <1>1, <1>2, <1>3

(* allocate refuses only when no port of the range is free, and what it    *)
(* returns is free, for every range and every place of the cursor          *)
(* (allocator.go, allocate).  The port it returns is the free candidate of *)
(* the least index, which exists as soon as some candidate is free.        *)
THEOREM AllocationIsComplete == Spec => []AllocateComplete
<1>1. ASSUME StoreInv PROVE AllocateComplete
  <2>. SUFFICES ASSUME NEW busy \in SUBSET Ports
                PROVE  LET open == {p \in portRange.min .. portRange.max : Free(p, busy)}
                       IN  /\ allocate(busy) \subseteq open
                           /\ allocate(busy) = {} <=> open = {}
    BY DEF AllocateComplete
  <2>. DEFINE open == {p \in portRange.min .. portRange.max : Free(p, busy)}
              hits == {i \in 0 .. Span - 1 : Free(Candidate(i), busy)}
  <2>1. TypeOK
    BY <1>1 DEF StoreInv
  <2>2. allocate(busy) \subseteq open
    <3>1. ASSUME NEW p \in allocate(busy) PROVE p \in open
      <4>1. p \in portRange.min .. portRange.max
        BY <2>1, AllocateFacts
      <4>2. Free(p, busy)
        BY DEF allocate
      <4>. QED
        BY <4>1, <4>2
    <3>. QED
      BY <3>1
  <2>3. ASSUME NEW p \in open PROVE allocate(busy) # {}
    <3>1. PICK i \in 0 .. Span - 1 : Candidate(i) = p
      BY <2>1, ScanMeetsEveryPort
    <3>2. hits # {} /\ hits \in SUBSET Nat
      BY <3>1
    <3>3. PICK m \in hits : \A k \in hits : m <= k
      BY <3>2, LeastElement, Zenon
    <3>4. \A k \in 0 .. m - 1 : ~Free(Candidate(k), busy)
      <4>1. Span \in Int /\ m \in 0 .. Span - 1
        BY <2>1, RangesAssumption DEF TypeOK, Span
      <4>2. ASSUME NEW k \in 0 .. m - 1 PROVE k \notin hits /\ k \in 0 .. Span - 1
        BY <3>2, <3>3, <4>1
      <4>. QED
        BY <4>2
    <3>5. Candidate(m) \in allocate(busy)
      BY <3>4 DEF allocate
    <3>. QED
      BY <3>5
  <2>. QED
    BY <2>2, <2>3
<1>. QED
  BY <1>1, StoreInvariant, PTL

(* Between calls the reserved ports are those of the live leases, and the  *)
(* free count of Stats is exact (store.go, Stats; allocator.go, free): the *)
(* leases are as many as their ports because no two share one.             *)
THEOREM PortsAreAccounted == Spec => []PortAccounting
<1>1. ASSUME StoreInv, Idle PROVE used = PortsOf(byID)
  BY <1>1 DEF StoreInv, Idle
<1>2. ASSUME StoreInv, Idle PROVE Stats.active + Stats.freePorts = Span
  <2>. DEFINE holder == [p \in used |-> CHOOSE l \in List : l.port = p]
  <2>1. /\ portRange.min \in Nat /\ portRange.max \in Nat
        /\ used \subseteq portRange.min .. portRange.max
    BY <1>2, RangesAssumption DEF StoreInv, TypeOK
  <2>2. IsFiniteSet(used)
    <3>1. IsFiniteSet(portRange.min .. portRange.max)
      BY <2>1, FS_Interval
    <3>. QED
      BY <2>1, <3>1, FS_Subset, Zenon
  <2>3. used = {l.port : l \in List}
    BY <1>1, <1>2 DEF PortsOf, List
  <2>4. \A l, k \in List : l.port = k.port => l = k
    BY <1>2 DEF StoreInv, Exclusive, List
  <2>5. \A p \in used : holder[p] \in List /\ holder[p].port = p
    BY <2>3
  <2>6. ExistsBijection(used, List)
    <3>1. holder \in [used -> List]
      BY <2>5
    <3>2. \A p, q \in used : holder[p] = holder[q] => p = q
      BY <2>5
    <3>3. \A l \in List : l.port \in used /\ holder[l.port] = l
      BY <2>3, <2>4, <2>5
    <3>. HIDE DEF holder
    <3>4. holder \in Bijection(used, List)
      BY <3>1, <3>2, <3>3, Zenon DEF Bijection, Injection, Surjection, IsInjective
    <3>. QED
      BY <3>4 DEF ExistsBijection
  <2>7. Cardinality(List) = Cardinality(used)
    BY <2>2, <2>6, FS_Bijection
  <2>8. Cardinality(used) \in Nat
    BY <2>2, FS_CardinalityType
  <2>. QED
    BY <2>1, <2>7, <2>8 DEF Stats, free, Span
<1>. QED
  BY <1>1, <1>2, StoreInvariant, PTL DEF PortAccounting

(* How one step of the store changes its rows: it grants, renews or        *)
(* removes one lease, prunes at Open, or leaves the rows alone.            *)
LEMMA StepIsRegistryStep ==
  StoreInv /\ [Next]_vars => [Registry!RegNext]_<<db, minted, now>>
<1>. SUFFICES ASSUME StoreInv, [Next]_vars
              PROVE  Registry!RegNext \/ UNCHANGED <<db, minted, now>>
  BY DEF Registry!regVars
<1>1. ASSUME NEW id \in LeaseIds, NEW d \in Durations, NEW busy, CreateCommit(id, d, busy)
      PROVE  Registry!RegNext
  <2>1. PICK p \in allocate(busy) :
          db' = [db EXCEPT ![id] = [token |-> minted + 1, port |-> p, expires |-> now + d]]
    BY <1>1, Zenon DEF CreateCommit
  <2>2. p \in Ports /\ p \notin used
    BY AllocateFacts DEF StoreInv
  <2>3. byID = db /\ used = PortsOf(db)
    BY <1>1, Zenon DEF StoreInv, CreateCommit, Idle
  <2>4. p \notin Registry!PortsOf(db)
    BY <2>2, <2>3 DEF PortsOf, Registry!PortsOf
  <2>5. Registry!Grant(id, d, p)
    BY <1>1, <2>1, <2>3, <2>4, Zenon DEF CreateCommit, Registry!Grant
  <2>. QED
    BY <2>2, <2>5 DEF Registry!RegNext
<1>2. ASSUME NEW id \in LeaseIds, NEW d \in Durations, ExtendCommit(id, d)
      PROVE  Registry!RegNext
  <2>1. byID = db
    BY <1>2 DEF StoreInv, ExtendCommit, Idle
  <2>2. Registry!Renew(id, d)
    BY <1>2, <2>1 DEF ExtendCommit, Prolonged, Registry!Renew, Registry!Prolonged
  <2>. QED
    BY <2>2 DEF Registry!RegNext
<1>3. ASSUME NEW id \in LeaseIds, RemoveCommit(id)
      PROVE  Registry!RegNext
  <2>1. byID = db
    BY <1>3 DEF StoreInv, RemoveCommit, Idle
  <2>2. Registry!Revoke(id)
    BY <1>3, <2>1 DEF RemoveCommit, Registry!Revoke
  <2>. QED
    BY <2>2 DEF Registry!RegNext
<1>4. ASSUME NEW r \in Ranges, Open(r)
      PROVE  Registry!RegNext
  <2>1. Registry!Reopen(r)
    BY <1>4 DEF Open, Loadable, InRange, Expired,
                Registry!Reopen, Registry!Kept, Registry!Expired
  <2>. QED
    BY <2>1 DEF Registry!RegNext
<1>5. ASSUME Tick PROVE Registry!RegNext
  BY <1>5 DEF Tick, Registry!Tick, Registry!RegNext
<1>6. ASSUME NEW id \in LeaseIds, Revoke(id)
      PROVE  Registry!RegNext \/ UNCHANGED <<db, minted, now>>
  BY <1>3, <1>6 DEF Revoke, RemoveMissing, RemoveAborted
<1>7. ASSUME NEW id \in LeaseIds, NEW cutoff, MarkExpiredIfBefore(id, cutoff)
      PROVE  Registry!RegNext \/ UNCHANGED <<db, minted, now>>
  BY <1>3, <1>7 DEF MarkExpiredIfBefore, RemoveAborted
<1>8. ASSUME \/ CreateApply \/ ExtendApply \/ RemoveApply \/ Crash
             \/ \E id \in LeaseIds : \/ CreateExisting(id) \/ CreateInvalid(id)
                                     \/ ExtendMissing(id) \/ ExtendAborted(id)
             \/ \E id \in LeaseIds, busy \in SUBSET Ports :
                  CreateExhausted(id, busy) \/ CreateAborted(id, busy)
      PROVE  UNCHANGED <<db, minted, now>>
  BY <1>8 DEF CreateApply, ExtendApply, RemoveApply, Crash, CreateExisting,
              CreateInvalid, ExtendMissing, ExtendAborted, CreateExhausted, CreateAborted
<1>9. CASE UNCHANGED vars
  BY <1>9 DEF vars
<1>. QED
  BY <1>1, <1>2, <1>4, <1>5, <1>6, <1>7, <1>8, <1>9 DEF Next

(* The store implements the registry: seen through the rows of its file it *)
(* grants, renews, removes and prunes whole leases atomically, whatever    *)
(* crashes, failed transactions and retries happen (store.go).             *)
THEOREM StoreImplementsRegistry == Spec => Implements
<1>1. Init => Registry!RegInit
  BY DEF Init, NoLeases, Registry!RegInit
<1>. QED
  BY <1>1, StepIsRegistryStep, StoreInvariant, PTL
  DEF Spec, Implements, Registry!RegSpec, Registry!regVars

(* A lease keeps its token and port for life and its expiry never moves    *)
(* back (store.go: Create is idempotent, Extend only adds).                *)
THEOREM LeasesAreStable == Spec => LeaseStable
<1>. DEFINE Stable ==
       \A id \in LeaseIds : db[id] # None /\ db'[id] # None =>
         /\ db'[id].token = db[id].token /\ db'[id].port = db[id].port
         /\ db'[id].expires >= db[id].expires
<1>1. StoreInv /\ [Next]_vars => [Stable]_vars
  <2>. SUFFICES ASSUME StoreInv, [Next]_vars PROVE Stable
    OBVIOUS
  <2>1. \A id \in LeaseIds : db[id] # None =>
          db[id] \in Lease /\ db[id].expires \in Nat
    BY DEF StoreInv, TypeOK, Lease
  <2>2. Registry!RegNext \/ db' = db
    BY StepIsRegistryStep
  <2>3. CASE db' = db
    BY <2>1, <2>3
  <2>4. ASSUME NEW id \in LeaseIds, NEW d \in Durations, Registry!Renew(id, d)
        PROVE  Stable
    <3>1. /\ db[id] # None
          /\ db' = [db EXCEPT ![id] = Prolonged(db[id], d)]
      BY <2>4 DEF Registry!Renew, Prolonged, Registry!Prolonged
    <3>2. LET l == Prolonged(db[id], d)
          IN  /\ l.token = db[id].token /\ l.port = db[id].port
              /\ l.expires >= db[id].expires
      BY <2>1, <3>1, BoundsAssumption DEF Lease, Prolonged
    <3>. QED
      BY <2>1, <3>1, <3>2 DEF StoreInv, TypeOK
  <2>5. ASSUME NEW id \in LeaseIds, NEW d, NEW p, Registry!Grant(id, d, p) PROVE Stable
    BY <2>1, <2>5 DEF Registry!Grant, StoreInv, TypeOK
  <2>6. ASSUME NEW id \in LeaseIds, Registry!Revoke(id) PROVE Stable
    BY <2>1, <2>6 DEF Registry!Revoke, StoreInv, TypeOK
  <2>7. ASSUME NEW r, Registry!Reopen(r) PROVE Stable
    BY <2>1, <2>7 DEF Registry!Reopen
  <2>8. ASSUME Registry!Tick PROVE Stable
    BY <2>1, <2>8 DEF Registry!Tick
  <2>. QED
    BY <2>2, <2>3, <2>4, <2>5, <2>6, <2>7, <2>8 DEF Registry!RegNext
<1>. QED
  BY <1>1, StoreInvariant, PTL DEF Spec, LeaseStable
(* What the cloud is told about a lease is on disk when it is told         *)
(* (store.go, the replies of Create and Extend).                           *)
THEOREM RepliesAreDurable == Spec => RepliesDurable
<1>. DEFINE Durable ==
       reply' # reply /\ reply' # None /\ reply'.lease # None
         => db'[reply'.id] = reply'.lease
<1>1. StoreInv /\ [Next]_vars => [Durable]_vars
  <2>. SUFFICES ASSUME StoreInv, [Next]_vars PROVE Durable
    OBVIOUS
  <2>. USE DEF Answer
  <2>1. ASSUME NEW id \in LeaseIds, CreateExisting(id) PROVE Durable
    BY <2>1 DEF CreateExisting, StoreInv
  <2>2. ASSUME CreateApply PROVE Durable
    BY <2>2 DEF CreateApply, StoreInv, MidCall
  <2>3. ASSUME ExtendApply PROVE Durable
    <3>1. /\ crit.id \in LeaseIds /\ byID[crit.id] \in Lease /\ db[crit.id] = crit.lease
          /\ crit.lease \in Lease
          /\ crit.lease.token = byID[crit.id].token /\ crit.lease.port = byID[crit.id].port
      BY <2>3 DEF ExtendApply, StoreInv, TypeOK, MidCall, Critical
    <3>2. [byID[crit.id] EXCEPT !.expires = crit.lease.expires] = crit.lease
      BY <3>1 DEF Lease
    <3>3. byID'[crit.id] = crit.lease
      BY <2>3, <3>1, <3>2 DEF ExtendApply, StoreInv, TypeOK
    <3>. QED
      BY <2>3, <3>1, <3>3 DEF ExtendApply
  <2>4. ASSUME RemoveApply PROVE Durable
    BY <2>4 DEF RemoveApply
  <2>5. ASSUME NEW id \in LeaseIds,
               \/ CreateInvalid(id) \/ ExtendMissing(id) \/ ExtendAborted(id) \/ Revoke(id)
               \/ \E cutoff \in 0 .. now : MarkExpiredIfBefore(id, cutoff)
        PROVE  Durable
    BY <2>5 DEF CreateInvalid, ExtendMissing, ExtendAborted, Revoke, RemoveMissing,
                RemoveAborted, RemoveCommit, MarkExpiredIfBefore
  <2>6. ASSUME NEW id \in LeaseIds, NEW busy,
               CreateExhausted(id, busy) \/ CreateAborted(id, busy)
        PROVE  Durable
    <3>1. CASE CreateExhausted(id, busy)
      <4>1. reply' = Answer(id, "exhausted", None)
        BY <3>1 DEF CreateExhausted
      <4>. QED
        BY <4>1
    <3>2. CASE CreateAborted(id, busy)
      <4>1. reply' = Answer(id, "failed", None)
        BY <3>2 DEF CreateAborted
      <4>. QED
        BY <4>1
    <3>. QED
      BY <2>6, <3>1, <3>2
  <2>7. ASSUME NEW id \in LeaseIds, NEW d, NEW busy, CreateCommit(id, d, busy) PROVE Durable
    BY <2>7 DEF CreateCommit
  <2>8. ASSUME NEW id \in LeaseIds, NEW d, ExtendCommit(id, d) PROVE Durable
    BY <2>8 DEF ExtendCommit
  <2>9. ASSUME Crash \/ Tick \/ (\E r \in Ranges : Open(r)) \/ UNCHANGED vars PROVE Durable
    BY <2>9 DEF Crash, Tick, Open, vars
  <2>. QED
    BY <2>1, <2>2, <2>3, <2>4, <2>5, <2>6, <2>7, <2>8, <2>9 DEF Next
<1>. QED
  BY <1>1, StoreInvariant, PTL DEF Spec, RepliesDurable
=============================================================================
