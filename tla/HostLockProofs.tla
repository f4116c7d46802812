--------------------------- MODULE HostLockProofs ---------------------------
(***************************************************************************)
(* The monitor of HostLock is correct for every finite set of threads.     *)
(* The inductive invariant IInv adds to the checked properties who may be  *)
(* inside the monitor, why a decision taken there still stands when it is  *)
(* carried out, and that a live token always knows whom to wake.           *)
(***************************************************************************)
EXTENDS HostLock, FiniteSetTheorems, TLAPS

\* Exactly the holder of the mutex is inside the monitor.
MonitorHeld == \A r \in Requests : (owner = r) <=> (pc[r] \in Inside)

\* A request that passed the predicate can be granted: the mutex was not
\* released since, and only a cancellation may still change its mind.
DecisionStands ==
  \A r \in Requests :
    (pc[r] = "decide" /\ ~Cancelled(r)) => Grantable(kind[r])

\* Whoever waits with a token that is not cancelled is registered with it: the
\* callbacks are taken only from a cancelled token, which calls a late one itself.
WakeArranged ==
  \A r \in Requests :
    /\ (token[r] = "live" /\ pc[r] \in {"enter"} \cup Queued) => r \in callbacks
    /\ pc[r] = "callnow" => Cancelled(r)
    /\ canceller[r] # "idle" => token[r] # "live"

IInv ==
  /\ TypeOK /\ MonitorHeld /\ DecisionStands /\ WakeArranged
  /\ CountersMatch /\ Exclusion /\ NoLostWakeup

Step(r) ==
  \/ Begin(r) \/ Register(r) \/ CallNow(r) \/ Enter(r) \/ Test(r) \/ Resume(r)
  \/ Refuse(r) \/ Grant(r) \/ Leave(r) \/ Release(r)
  \/ CancelSet(r) \/ CancelSwap(r) \/ CancelCall(r)

LEMMA NextIsStep == Next => \E r \in Requests : Step(r)
  BY DEF Next, Step, Acquire, Cancel

LEMMA InitIInv == Init => IInv
<1> SUFFICES ASSUME Init PROVE IInv
  OBVIOUS
<1> USE DEF Init
<1>1. TypeOK
  BY DEF TypeOK, LockClass, Places
<1>2. MonitorHeld /\ DecisionStands /\ WakeArranged /\ Exclusion /\ NoLostWakeup
  BY RequestsAssumption DEF MonitorHeld, DecisionStands, WakeArranged, Exclusion,
     NoLostWakeup, Inside, Queued, Holding
<1>3. CountersMatch
  <2>1. ReadHolders = {} /\ QueuedWriters = {}
    BY DEF ReadHolders, QueuedWriters, Queued, Holding
  <2>2. QED
    BY <2>1, FS_EmptySet DEF CountersMatch, Holding
<1>4. QED
  BY <1>1, <1>2, <1>3 DEF IInv

LEMMA TypeStep ==
  ASSUME TypeOK, CountersMatch, NEW r \in Requests, Step(r)
  PROVE  TypeOK'
<1> USE DEF TypeOK
<1>1. CASE Begin(r)
  BY <1>1 DEF Begin, Move, Places, LockClass, monitor
<1>2. CASE Register(r)
  BY <1>2 DEF Register, Move, Places, monitor
<1>3. CASE CallNow(r)
  BY <1>3 DEF CallNow, NotifyAll, Places, Queued, monitor
<1>4. CASE Enter(r)
  BY <1>4 DEF Enter, Move, Places, Inside
<1>5. CASE Test(r)
  BY <1>5 DEF Test, Move, Places, Queued, monitor
<1>6. CASE Resume(r)
  BY <1>6 DEF Resume, Move, Places, Queued, monitor
<1>7. CASE Refuse(r)
  <2>1. kind[r] = "WRITE" => waiting_writers - 1 \in Nat
    <3> SUFFICES ASSUME kind[r] = "WRITE" PROVE waiting_writers # 0
      OBVIOUS
    <3>1. r \in QueuedWriters
      BY <1>7 DEF Refuse, QueuedWriters, Queued
    <3>2. IsFiniteSet(QueuedWriters)
      BY RequestsAssumption, FS_Subset DEF QueuedWriters
    <3>3. QED
      BY <3>1, <3>2, FS_EmptySet DEF CountersMatch
  <2>2. QED
    BY <1>7, <2>1 DEF Refuse, NotifyAll, Move, Places, Inside, Queued
<1>8. CASE Grant(r)
  <2>1. kind[r] = "WRITE" => waiting_writers - 1 \in Nat
    <3> SUFFICES ASSUME kind[r] = "WRITE" PROVE waiting_writers # 0
      OBVIOUS
    <3>1. r \in QueuedWriters
      BY <1>8 DEF Grant, QueuedWriters, Queued
    <3>2. IsFiniteSet(QueuedWriters)
      BY RequestsAssumption, FS_Subset DEF QueuedWriters
    <3>3. QED
      BY <3>1, <3>2, FS_EmptySet DEF CountersMatch
  <2>2. heavy' \in BOOLEAN
    BY <1>8 DEF Grant
  <2>3. CASE kind[r] = "WRITE"
    BY <1>8, <2>1, <2>2, <2>3 DEF Grant, NotifyAll, Places, Holding, Queued
  <2>4. CASE kind[r] # "WRITE"
    <3>1. /\ readers' \in Nat /\ waiting_writers' \in Nat /\ writer' \in BOOLEAN
          /\ owner' \in Requests \cup {Nobody} /\ pc' \in [Requests -> Places]
      BY <1>8, <2>4 DEF Grant, Move, Places, Holding
    <3>2. QED
      BY <1>8, <2>2, <3>1 DEF Grant
  <2>5. QED
    BY <2>3, <2>4
<1>9. CASE Leave(r)
  BY <1>9 DEF Leave, Move, Forget, Places, Holding, LockClass, monitor
<1>10. CASE Release(r)
  <2>1. kind[r] # "WRITE" => readers - 1 \in Nat
    <3> SUFFICES ASSUME kind[r] # "WRITE" PROVE readers # 0
      OBVIOUS
    <3>1. r \in ReadHolders
      BY <1>10 DEF Release, ReadHolders, Holding
    <3>2. IsFiniteSet(ReadHolders)
      BY RequestsAssumption, FS_Subset DEF ReadHolders
    <3>3. QED
      BY <3>1, <3>2, FS_EmptySet DEF CountersMatch
  <2>2. QED
    BY <1>10, <2>1 DEF Release, NotifyAll, Forget, Places, Queued, LockClass
<1>11. CASE CancelSet(r)
  BY <1>11 DEF CancelSet, monitor
<1>12. CASE CancelSwap(r)
  BY <1>12 DEF CancelSwap, monitor
<1>13. CASE CancelCall(r)
  BY <1>13 DEF CancelCall, Places, Queued, monitor
<1>14. QED
  BY <1>1, <1>2, <1>3, <1>4, <1>5, <1>6, <1>7, <1>8, <1>9, <1>10, <1>11, <1>12,
     <1>13 DEF Step
-----------------------------------------------------------------------------
LEMMA MonitorStep ==
  ASSUME TypeOK, MonitorHeld, NEW r \in Requests, Step(r)
  PROVE  MonitorHeld'
<1> USE RequestsAssumption DEF TypeOK, MonitorHeld, Inside
<1>1. CASE Begin(r)
  BY <1>1 DEF Begin, Move
<1>2. CASE Register(r)
  BY <1>2 DEF Register, Move
<1>3. CASE CallNow(r)
  BY <1>3 DEF CallNow, NotifyAll
<1>4. CASE Enter(r)
  BY <1>4 DEF Enter, Move
<1>5. CASE Test(r)
  BY <1>5 DEF Test, Move
<1>6. CASE Resume(r)
  BY <1>6 DEF Resume, Move
<1>7. CASE Refuse(r)
  BY <1>7 DEF Refuse, Move, NotifyAll
<1>8. CASE Grant(r)
  BY <1>8 DEF Grant, Move, NotifyAll
<1>9. CASE Leave(r)
  BY <1>9 DEF Leave, Move
<1>10. CASE Release(r)
  BY <1>10 DEF Release, NotifyAll
<1>11. CASE CancelSet(r)
  BY <1>11 DEF CancelSet
<1>12. CASE CancelSwap(r)
  BY <1>12 DEF CancelSwap
<1>13. CASE CancelCall(r)
  BY <1>13 DEF CancelCall
<1>14. QED
  BY <1>1, <1>2, <1>3, <1>4, <1>5, <1>6, <1>7, <1>8, <1>9, <1>10, <1>11, <1>12,
     <1>13 DEF Step

LEMMA WakeArrangedStep ==
  ASSUME TypeOK, WakeArranged, NEW r \in Requests, Step(r)
  PROVE  WakeArranged'
<1> USE DEF TypeOK, WakeArranged, Queued, Cancelled
<1>1. CASE Begin(r)
  BY <1>1 DEF Begin, Move, Forget
<1>2. CASE Register(r)
  BY <1>2 DEF Register, Move, Forget
<1>3. CASE CallNow(r)
  BY <1>3 DEF CallNow, NotifyAll, Forget
<1>4. CASE Enter(r)
  BY <1>4 DEF Enter, Move, Forget
<1>5. CASE Test(r)
  BY <1>5 DEF Test, Move, Forget
<1>6. CASE Resume(r)
  BY <1>6 DEF Resume, Move, Forget
<1>7. CASE Refuse(r)
  BY <1>7 DEF Refuse, Move, NotifyAll, Forget
<1>8. CASE Grant(r)
  BY <1>8 DEF Grant, Move, NotifyAll, Forget
<1>9. CASE Leave(r)
  BY <1>9 DEF Leave, Move, Forget
<1>10. CASE Release(r)
  BY <1>10 DEF Release, NotifyAll, Forget
<1>11. CASE CancelSet(r)
  BY <1>11 DEF CancelSet, Forget
<1>12. CASE CancelSwap(r)
  BY <1>12 DEF CancelSwap, Forget
<1>13. CASE CancelCall(r)
  BY <1>13 DEF CancelCall, Forget
<1>14. QED
  BY <1>1, <1>2, <1>3, <1>4, <1>5, <1>6, <1>7, <1>8, <1>9, <1>10, <1>11, <1>12,
     <1>13 DEF Step

LEMMA DecisionStep ==
  ASSUME TypeOK, MonitorHeld, DecisionStands, NEW r \in Requests, Step(r)
  PROVE  DecisionStands'
<1> USE RequestsAssumption
    DEF TypeOK, MonitorHeld, DecisionStands, Inside, Cancelled, Grantable
<1>1. CASE Begin(r)
  BY <1>1 DEF Begin, Move, Forget, monitor
<1>2. CASE Register(r)
  BY <1>2 DEF Register, Move, Forget, monitor
<1>3. CASE CallNow(r)
  BY <1>3 DEF CallNow, NotifyAll, Forget, monitor
<1>4. CASE Enter(r)
  BY <1>4 DEF Enter, Move, Forget, monitor
<1>5. CASE Test(r)
  BY <1>5 DEF Test, Move, Forget, monitor
<1>6. CASE Resume(r)
  BY <1>6 DEF Resume, Move, Forget, monitor
<1>7. CASE Refuse(r)
  BY <1>7 DEF Refuse, Move, NotifyAll, Forget, monitor
<1>8. CASE Grant(r)
  BY <1>8 DEF Grant, Move, NotifyAll, Forget, monitor
<1>9. CASE Leave(r)
  BY <1>9 DEF Leave, Move, Forget, monitor
<1>10. CASE Release(r)
  BY <1>10 DEF Release, NotifyAll, Forget, monitor
<1>11. CASE CancelSet(r)
  BY <1>11 DEF CancelSet, Forget, monitor
<1>12. CASE CancelSwap(r)
  BY <1>12 DEF CancelSwap, Forget, monitor
<1>13. CASE CancelCall(r)
  BY <1>13 DEF CancelCall, Forget, monitor
<1>14. QED
  BY <1>1, <1>2, <1>3, <1>4, <1>5, <1>6, <1>7, <1>8, <1>9, <1>10, <1>11, <1>12,
     <1>13 DEF Step

LEMMA ExclusionStep ==
  ASSUME TypeOK, CountersMatch, DecisionStands, Exclusion, NEW r \in Requests, Step(r)
  PROVE  Exclusion'
<1> USE DEF TypeOK, Exclusion, Holding
<1>1. CASE Begin(r)
  BY <1>1 DEF Begin, Move, Forget
<1>2. CASE Register(r)
  BY <1>2 DEF Register, Move, Forget
<1>3. CASE CallNow(r)
  BY <1>3 DEF CallNow, NotifyAll, Forget
<1>4. CASE Enter(r)
  BY <1>4 DEF Enter, Move, Forget
<1>5. CASE Test(r)
  BY <1>5 DEF Test, Move, Forget
<1>6. CASE Resume(r)
  BY <1>6 DEF Resume, Move, Forget
<1>7. CASE Refuse(r)
  BY <1>7 DEF Refuse, Move, NotifyAll, Forget
<1>8. CASE Grant(r)
  <2>1. Grantable(kind[r])
    BY <1>8 DEF Grant, DecisionStands
  <2>2. ASSUME NEW x \in Requests, pc[x] \in Holding
        PROVE  /\ kind[x] # "WRITE"
               /\ kind[r] # "WRITE"
               /\ ~(kind[r] = "HEAVY_READ" /\ kind[x] = "HEAVY_READ")
    <3>1. kind[x] # "WRITE"
      BY <2>1, <2>2 DEF Grantable, CountersMatch
    <3>2. kind[r] = "HEAVY_READ" => kind[x] # "HEAVY_READ"
      BY <2>1, <2>2 DEF Grantable, CountersMatch
    <3>3. kind[r] # "WRITE"
      <4>1. x \in ReadHolders /\ IsFiniteSet(ReadHolders)
        BY <2>2, <3>1, RequestsAssumption, FS_Subset DEF ReadHolders
      <4>2. readers # 0
        BY <4>1, FS_EmptySet DEF CountersMatch
      <4>3. QED
        BY <2>1, <4>2 DEF Grantable
    <3>4. QED
      BY <3>1, <3>2, <3>3
  <2>3. \A x \in Requests : pc'[x] \in Holding => x = r \/ pc[x] \in Holding
    BY <1>8 DEF Grant, Move, NotifyAll
  <2>4. kind' = kind
    BY <1>8 DEF Grant
  <2>5. QED
    BY <2>2, <2>3, <2>4
<1>9. CASE Leave(r)
  BY <1>9 DEF Leave, Move, Forget
<1>10. CASE Release(r)
  BY <1>10 DEF Release, NotifyAll, Forget
<1>11. CASE CancelSet(r)
  BY <1>11 DEF CancelSet, Forget
<1>12. CASE CancelSwap(r)
  BY <1>12 DEF CancelSwap, Forget
<1>13. CASE CancelCall(r)
  BY <1>13 DEF CancelCall, Forget
<1>14. QED
  BY <1>1, <1>2, <1>3, <1>4, <1>5, <1>6, <1>7, <1>8, <1>9, <1>10, <1>11, <1>12,
     <1>13 DEF Step

LEMMA NoLostWakeupStep ==
  ASSUME TypeOK, MonitorHeld, WakeArranged, NoLostWakeup, NEW r \in Requests, Step(r)
  PROVE  NoLostWakeup'
<1> USE DEF TypeOK, NoLostWakeup, WakeArranged, Queued, Cancelled, Grantable
<1>1. CASE Begin(r)
  BY <1>1 DEF Begin, Move, Forget, monitor
<1>2. CASE Register(r)
  BY <1>2 DEF Register, Move, Forget, monitor
<1>3. CASE CallNow(r)
  BY <1>3 DEF CallNow, NotifyAll, Forget, monitor
<1>4. CASE Enter(r)
  BY <1>4 DEF Enter, Move, Forget, monitor
<1>5. CASE Test(r)
  BY <1>5 DEF Test, Move, Forget, monitor
<1>6. CASE Resume(r)
  BY <1>6 DEF Resume, Move, Forget, monitor
<1>7. CASE Refuse(r)
  BY <1>7 DEF Refuse, Move, NotifyAll, Forget, monitor
<1>8. CASE Grant(r)
  BY <1>8 DEF Grant, Move, NotifyAll, Forget, monitor
<1>9. CASE Leave(r)
  BY <1>9 DEF Leave, Move, Forget, monitor
<1>10. CASE Release(r)
  BY <1>10 DEF Release, NotifyAll, Forget, monitor
<1>11. CASE CancelSet(r)
  BY <1>11 DEF CancelSet, Forget, monitor
<1>12. CASE CancelSwap(r)
  BY <1>12 DEF CancelSwap, Forget, monitor
<1>13. CASE CancelCall(r)
  BY <1>13 DEF CancelCall, Forget, monitor
<1>14. QED
  BY <1>1, <1>2, <1>3, <1>4, <1>5, <1>6, <1>7, <1>8, <1>9, <1>10, <1>11, <1>12,
     <1>13 DEF Step
-----------------------------------------------------------------------------
\* Most steps leave every request in its role; the counters then still match.
SameRoles ==
  \A x \in Requests :
    /\ pc'[x] \in Holding <=> pc[x] \in Holding
    /\ pc'[x] \in Queued <=> pc[x] \in Queued
    /\ pc[x] \in Holding \cup Queued => kind'[x] = kind[x]

LEMMA SameRolesCount ==
  ASSUME TypeOK, CountersMatch, SameRoles, UNCHANGED monitor
  PROVE  CountersMatch'
<1>1. ReadHolders' = ReadHolders /\ QueuedWriters' = QueuedWriters
  BY DEF SameRoles, ReadHolders, QueuedWriters
<1>2. QED
  BY <1>1 DEF SameRoles, CountersMatch, monitor

LEMMA FiniteRoles == IsFiniteSet(ReadHolders) /\ IsFiniteSet(QueuedWriters)
  BY RequestsAssumption, FS_Subset DEF ReadHolders, QueuedWriters

LEMMA CountersStep ==
  ASSUME TypeOK, TypeOK', CountersMatch, Exclusion, NEW r \in Requests, Step(r)
  PROVE  CountersMatch'
<1> USE DEF TypeOK
<1>1. CASE Begin(r)
  <2>1. SameRoles
    BY <1>1 DEF Begin, Move, Forget, SameRoles, Holding, Queued
  <2>2. QED
    BY <1>1, <2>1, SameRolesCount DEF Begin, monitor
<1>2. CASE Register(r)
  <2>1. SameRoles
    BY <1>2 DEF Register, Move, Forget, SameRoles, Holding, Queued
  <2>2. QED
    BY <1>2, <2>1, SameRolesCount DEF Register, monitor
<1>3. CASE CallNow(r)
  <2>1. SameRoles
    BY <1>3 DEF CallNow, NotifyAll, Forget, SameRoles, Holding, Queued
  <2>2. QED
    BY <1>3, <2>1, SameRolesCount DEF CallNow, monitor
<1>4. CASE Enter(r)
  <2>1. /\ ReadHolders' = ReadHolders
        /\ QueuedWriters' = IF kind[r] = "WRITE" THEN QueuedWriters \cup {r}
                                                 ELSE QueuedWriters
        /\ r \notin QueuedWriters
    BY <1>4 DEF Enter, Move, ReadHolders, QueuedWriters, Holding, Queued
  <2>2. waiting_writers' = Cardinality(QueuedWriters')
    <3>1. Cardinality(QueuedWriters \cup {r}) = Cardinality(QueuedWriters) + 1
      BY <2>1, FiniteRoles, FS_AddElement
    <3>2. QED
      BY <1>4, <2>1, <3>1 DEF Enter, CountersMatch
  <2>3. QED
    BY <1>4, <2>1, <2>2 DEF Enter, Move, CountersMatch, Holding
<1>5. CASE Test(r)
  <2>1. SameRoles
    BY <1>5 DEF Test, Move, Forget, SameRoles, Holding, Queued
  <2>2. QED
    BY <1>5, <2>1, SameRolesCount DEF Test, monitor
<1>6. CASE Resume(r)
  <2>1. SameRoles
    BY <1>6 DEF Resume, Move, Forget, SameRoles, Holding, Queued
  <2>2. QED
    BY <1>6, <2>1, SameRolesCount DEF Resume, monitor
<1>7. CASE Refuse(r)
  <2>1. /\ ReadHolders' = ReadHolders
        /\ QueuedWriters' = IF kind[r] = "WRITE" THEN QueuedWriters \ {r}
                                                 ELSE QueuedWriters
        /\ kind[r] = "WRITE" => r \in QueuedWriters
    BY <1>7 DEF Refuse, Move, NotifyAll, ReadHolders, QueuedWriters, Holding, Queued
  <2>2. waiting_writers' = Cardinality(QueuedWriters')
    BY <1>7, <2>1, FiniteRoles, FS_RemoveElement DEF Refuse, CountersMatch
  <2>3. \A x \in Requests : pc'[x] \in Holding <=> pc[x] \in Holding
    BY <1>7 DEF Refuse, Move, NotifyAll, Holding
  <2>4. QED
    BY <1>7, <2>1, <2>2, <2>3 DEF Refuse, CountersMatch
<1>8. CASE Grant(r)
  <2>1. CASE kind[r] = "WRITE"
    <3>1. /\ ReadHolders' = ReadHolders
          /\ QueuedWriters' = QueuedWriters \ {r}
          /\ r \in QueuedWriters
      BY <1>8, <2>1 DEF Grant, NotifyAll, ReadHolders, QueuedWriters, Holding, Queued
    <3>2. waiting_writers' = Cardinality(QueuedWriters')
      BY <1>8, <2>1, <3>1, FiniteRoles, FS_RemoveElement DEF Grant, CountersMatch
    <3>3. \A x \in Requests : pc'[x] \in Holding <=> (x = r \/ pc[x] \in Holding)
      BY <1>8, <2>1 DEF Grant, NotifyAll, Holding
    <3>4. QED
      BY <1>8, <2>1, <3>1, <3>2, <3>3 DEF Grant, CountersMatch
  <2>2. CASE kind[r] # "WRITE"
    <3>1. /\ ReadHolders' = ReadHolders \cup {r}
          /\ QueuedWriters' = QueuedWriters
          /\ r \notin ReadHolders
      BY <1>8, <2>2 DEF Grant, Move, ReadHolders, QueuedWriters, Holding, Queued
    <3>2. readers' = Cardinality(ReadHolders')
      BY <1>8, <2>2, <3>1, FiniteRoles, FS_AddElement DEF Grant, CountersMatch
    <3>3. \A x \in Requests : pc'[x] \in Holding <=> (x = r \/ pc[x] \in Holding)
      BY <1>8, <2>2 DEF Grant, Move, Holding
    <3>4. QED
      BY <1>8, <2>2, <3>1, <3>2, <3>3 DEF Grant, CountersMatch
  <2>3. QED
    BY <2>1, <2>2
<1>9. CASE Leave(r)
  <2>1. SameRoles
    BY <1>9 DEF Leave, Move, Forget, SameRoles, Holding, Queued
  <2>2. QED
    BY <1>9, <2>1, SameRolesCount DEF Leave, monitor
<1>10. CASE Release(r)
  <2>1. /\ ReadHolders' = IF kind[r] = "WRITE" THEN ReadHolders ELSE ReadHolders \ {r}
        /\ QueuedWriters' = QueuedWriters
        /\ kind[r] # "WRITE" => r \in ReadHolders
    BY <1>10 DEF Release, NotifyAll, Forget, ReadHolders, QueuedWriters, Holding, Queued
  <2>2. readers' = Cardinality(ReadHolders')
    BY <1>10, <2>1, FiniteRoles, FS_RemoveElement DEF Release, CountersMatch
  <2>3. \A x \in Requests :
          /\ pc'[x] \in Holding <=> (x # r /\ pc[x] \in Holding)
          /\ x # r => kind'[x] = kind[x]
    BY <1>10 DEF Release, NotifyAll, Forget, Holding
  <2>4. pc[r] \in Holding
    BY <1>10 DEF Release, Holding
  <2>5. writer' = (\E x \in Requests : pc'[x] \in Holding /\ kind'[x] = "WRITE")
    BY <1>10, <2>3, <2>4 DEF Release, CountersMatch, Exclusion
  <2>6. heavy' = (\E x \in Requests : pc'[x] \in Holding /\ kind'[x] = "HEAVY_READ")
    BY <1>10, <2>3, <2>4 DEF Release, CountersMatch, Exclusion
  <2>7. QED
    BY <1>10, <2>1, <2>2, <2>5, <2>6 DEF Release, CountersMatch
<1>11. CASE CancelSet(r)
  <2>1. SameRoles
    BY <1>11 DEF CancelSet, Forget, SameRoles, Holding, Queued
  <2>2. QED
    BY <1>11, <2>1, SameRolesCount DEF CancelSet, monitor
<1>12. CASE CancelSwap(r)
  <2>1. SameRoles
    BY <1>12 DEF CancelSwap, Forget, SameRoles, Holding, Queued
  <2>2. QED
    BY <1>12, <2>1, SameRolesCount DEF CancelSwap, monitor
<1>13. CASE CancelCall(r)
  <2>1. SameRoles
    BY <1>13 DEF CancelCall, Forget, SameRoles, Holding, Queued
  <2>2. QED
    BY <1>13, <2>1, SameRolesCount DEF CancelCall, monitor
<1>14. QED
  BY <1>1, <1>2, <1>3, <1>4, <1>5, <1>6, <1>7, <1>8, <1>9, <1>10, <1>11, <1>12,
     <1>13 DEF Step
-----------------------------------------------------------------------------
LEMMA StutterIInv == IInv /\ UNCHANGED vars => IInv'
<1> SUFFICES ASSUME IInv, UNCHANGED vars PROVE IInv'
  OBVIOUS
<1> USE DEF IInv, vars, monitor
<1>1. TypeOK' /\ MonitorHeld' /\ Exclusion'
  BY DEF TypeOK, MonitorHeld, Exclusion
<1>2. DecisionStands' /\ WakeArranged' /\ NoLostWakeup'
  BY DEF DecisionStands, WakeArranged, NoLostWakeup, Cancelled, Grantable
<1>3. CountersMatch'
  <2>1. SameRoles
    BY DEF SameRoles
  <2>2. QED
    BY <2>1, SameRolesCount
<1>4. QED
  BY <1>1, <1>2, <1>3

LEMMA NextIInv == IInv /\ [Next]_vars => IInv'
<1>1. ASSUME IInv, Next PROVE IInv'
  <2>1. PICK r \in Requests : Step(r)
    BY <1>1, NextIsStep
  <2>2. TypeOK'
    BY <1>1, <2>1, TypeStep DEF IInv
  <2>3. QED
    BY <1>1, <2>1, <2>2, MonitorStep, WakeArrangedStep, DecisionStep, ExclusionStep,
       NoLostWakeupStep, CountersStep DEF IInv
<1>2. QED
  BY <1>1, StutterIInv

\* The inductive invariant holds in every reachable state.
THEOREM Invariance == Spec => []IInv
  BY InitIInv, NextIInv, PTL DEF Spec

\* The fields of _HostState always have their types; in particular the two
\* counters never go below zero.
THEOREM TypeCorrect == Spec => []TypeOK
<1>1. IInv => TypeOK
  BY DEF IInv
<1>2. QED
  BY <1>1, Invariance, PTL

\* A WRITE is alone on its host, and HEAVY_READs exclude each other, for any
\* number of threads and any use of cancellation.
THEOREM MutualExclusion == Spec => []Exclusion
<1>1. IInv => Exclusion
  BY DEF IInv
<1>2. QED
  BY <1>1, Invariance, PTL

\* No sequence of grants, cancellations and releases leaks a count.
THEOREM CountersExact == Spec => []CountersMatch
<1>1. IInv => CountersMatch
  BY DEF IInv
<1>2. QED
  BY <1>1, Invariance, PTL

\* Nobody sleeps in wait_for with a reason to be awake.
THEOREM WakeupsArrive == Spec => []NoLostWakeup
<1>1. IInv => NoLostWakeup
  BY DEF IInv
<1>2. QED
  BY <1>1, Invariance, PTL

\* A count above zero stands for somebody.
LEMMA CountedOnes ==
  ASSUME CountersMatch
  PROVE  /\ readers # 0 => ReadHolders # {}
         /\ waiting_writers # 0 => QueuedWriters # {}
  BY FS_EmptySet DEF CountersMatch

\* What keeps a sleeping WRITE waiting is a holder.
LEMMA WriteAwaitsHolder ==
  ASSUME TypeOK, CountersMatch, ~Grantable("WRITE")
  PROVE  \E s \in Requests : pc[s] \in Holding
<1>1. CASE writer \/ heavy
  BY <1>1 DEF CountersMatch
<1>2. CASE readers # 0
  BY <1>2, CountedOnes DEF ReadHolders
<1>3. QED
  BY <1>1, <1>2 DEF Grantable, TypeOK

\* The threads of one lock never all sleep: whoever is asleep in wait_for has
\* somebody who will notify it again, a holder or a WRITE that is up and
\* about in the queue, also after any cancellation of a WRITE ahead of it.
SleepersHaveHope ==
  \A r \in Requests : pc[r] = "asleep" =>
    \E s \in Requests : \/ pc[s] \in Holding
                        \/ pc[s] \in Queued \ {"asleep"} /\ kind[s] = "WRITE"

LEMMA HopeFollows == IInv => SleepersHaveHope
<1> SUFFICES ASSUME IInv, NEW r \in Requests, pc[r] = "asleep"
             PROVE  \E s \in Requests :
                      \/ pc[s] \in Holding
                      \/ pc[s] \in Queued \ {"asleep"} /\ kind[s] = "WRITE"
  BY DEF SleepersHaveHope
<1>1. TypeOK /\ CountersMatch /\ ~Grantable(kind[r]) /\ kind[r] \in LockClass
  BY DEF IInv, NoLostWakeup, TypeOK
<1>2. CASE kind[r] = "WRITE"
  BY <1>1, <1>2, WriteAwaitsHolder
<1>3. CASE kind[r] # "WRITE"
  <2>1. CASE writer \/ heavy
    BY <1>1, <2>1 DEF CountersMatch
  <2>2. CASE waiting_writers # 0
    <3>1. PICK s \in Requests : pc[s] \in Queued /\ kind[s] = "WRITE"
      BY <1>1, <2>2, CountedOnes DEF QueuedWriters
    <3>2. CASE pc[s] = "asleep"
      <4>1. ~Grantable("WRITE")
        BY <3>1, <3>2 DEF IInv, NoLostWakeup
      <4>2. QED
        BY <1>1, <4>1, WriteAwaitsHolder
    <3>3. QED
      BY <3>1, <3>2
  <2>3. QED
    BY <1>1, <1>3, <2>1, <2>2 DEF Grantable, LockClass
<1>4. QED
  BY <1>2, <1>3

\* The lock does not deadlock within itself: no set of its threads can all
\* be asleep, whatever was cancelled.
THEOREM NobodyStranded == Spec => []SleepersHaveHope
  BY HopeFollows, Invariance, PTL
-----------------------------------------------------------------------------
\* The monitor implements the contract: every step is a step of RWLock or
\* changes nothing RWLock can see.
LEMMA InitContract == Init => Contract!Init
  BY DEF Init, Contract!Init, Contract!Free, heldBar, wantsBar, Holding, Queued

LEMMA HiddenStep ==
  ASSUME TypeOK, SameRoles
  PROVE  UNCHANGED Contract!vars
  BY DEF SameRoles, Contract!vars, heldBar, wantsBar

LEMMA GrantAdmissible ==
  ASSUME TypeOK, CountersMatch, NEW k \in LockClass, Grantable(k)
  PROVE  Contract!Admissible(k)
<1>1. k # "WRITE" => ~Contract!WriterWaits
  <2> SUFFICES ASSUME k # "WRITE" PROVE ~Contract!WriterWaits
    OBVIOUS
  <2>1. QueuedWriters = {}
    BY FiniteRoles, FS_EmptySet DEF Grantable, CountersMatch
  <2>2. QED
    BY <2>1 DEF Contract!WriterWaits, wantsBar, QueuedWriters
<1>2. ~Contract!Writing
  BY DEF Grantable, LockClass, CountersMatch, Contract!Writing, heldBar
<1>3. k = "HEAVY_READ" => ~Contract!HeavyReading
  BY DEF Grantable, CountersMatch, Contract!HeavyReading, heldBar
<1>4. k = "WRITE" => Contract!Holders = {}
  <2> SUFFICES ASSUME k = "WRITE" PROVE Contract!Holders = {}
    OBVIOUS
  <2>1. ReadHolders = {}
    BY FiniteRoles, FS_EmptySet DEF Grantable, CountersMatch
  <2>2. ~\E x \in Requests : pc[x] \in Holding
    BY <2>1 DEF Grantable, CountersMatch, ReadHolders
  <2>3. QED
    BY <2>2 DEF Contract!Holders, Contract!Free, heldBar
<1>5. QED
  BY <1>1, <1>2, <1>3, <1>4 DEF Contract!Admissible, LockClass

LEMMA StepContract ==
  ASSUME IInv, NEW r \in Requests, Step(r)
  PROVE  [Contract!Next]_(Contract!vars)
<1> USE DEF TypeOK
<1>0. TypeOK /\ CountersMatch /\ DecisionStands
  BY DEF IInv
<1>1. CASE Begin(r)
  BY <1>0, <1>1, HiddenStep DEF Begin, Move, Forget, SameRoles, Holding, Queued
<1>2. CASE Register(r)
  BY <1>0, <1>2, HiddenStep DEF Register, Move, Forget, SameRoles, Holding, Queued
<1>3. CASE CallNow(r)
  BY <1>0, <1>3, HiddenStep DEF CallNow, NotifyAll, Forget, SameRoles, Holding, Queued
<1>4. CASE Enter(r)
  <2>1. /\ heldBar' = heldBar
        /\ wantsBar' = [wantsBar EXCEPT ![r] = kind[r]]
        /\ heldBar[r] = "FREE" /\ wantsBar[r] = "FREE" /\ kind[r] \in LockClass
    BY <1>0, <1>4 DEF Enter, Move, heldBar, wantsBar, Holding, Queued
  <2>2. Contract!Ask(r)
    BY <2>1 DEF Contract!Ask, Contract!Free, Contract!LockClass, LockClass
  <2>3. QED
    BY <2>2 DEF Contract!Next
<1>5. CASE Test(r)
  BY <1>0, <1>5, HiddenStep DEF Test, Move, Forget, SameRoles, Holding, Queued
<1>6. CASE Resume(r)
  BY <1>0, <1>6, HiddenStep DEF Resume, Move, Forget, SameRoles, Holding, Queued
<1>7. CASE Refuse(r)
  <2>1. /\ heldBar' = heldBar
        /\ wantsBar' = [wantsBar EXCEPT ![r] = "FREE"]
        /\ wantsBar[r] # "FREE"
    BY <1>0, <1>7 DEF Refuse, Move, NotifyAll, heldBar, wantsBar, Holding, Queued, LockClass
  <2>2. Contract!Withdraw(r)
    BY <2>1 DEF Contract!Withdraw, Contract!Free
  <2>3. QED
    BY <2>2 DEF Contract!Next
<1>8. CASE Grant(r)
  <2>1. /\ heldBar' = [heldBar EXCEPT ![r] = kind[r]]
        /\ wantsBar' = [wantsBar EXCEPT ![r] = "FREE"]
        /\ wantsBar[r] = kind[r] /\ kind[r] # "FREE"
    BY <1>0, <1>8 DEF Grant, Move, NotifyAll, heldBar, wantsBar, Holding, Queued, LockClass
  <2>2. Contract!Admissible(kind[r])
    BY <1>0, <1>8, GrantAdmissible DEF Grant, DecisionStands
  <2>3. Contract!Admit(r)
    BY <2>1, <2>2 DEF Contract!Admit, Contract!Free
  <2>4. QED
    BY <2>3 DEF Contract!Next
<1>9. CASE Leave(r)
  BY <1>0, <1>9, HiddenStep DEF Leave, Move, Forget, SameRoles, Holding, Queued
<1>10. CASE Release(r)
  <2>1. /\ heldBar' = [heldBar EXCEPT ![r] = "FREE"]
        /\ wantsBar' = wantsBar
        /\ heldBar[r] # "FREE"
    BY <1>0, <1>10 DEF Release, NotifyAll, Forget, heldBar, wantsBar, Holding, Queued, LockClass
  <2>2. Contract!Release(r)
    BY <2>1 DEF Contract!Release, Contract!Free
  <2>3. QED
    BY <2>2 DEF Contract!Next
<1>11. CASE CancelSet(r)
  BY <1>0, <1>11, HiddenStep DEF CancelSet, Forget, SameRoles, Holding, Queued
<1>12. CASE CancelSwap(r)
  BY <1>0, <1>12, HiddenStep DEF CancelSwap, Forget, SameRoles, Holding, Queued
<1>13. CASE CancelCall(r)
  BY <1>0, <1>13, HiddenStep DEF CancelCall, Forget, SameRoles, Holding, Queued
<1>14. QED
  BY <1>1, <1>2, <1>3, <1>4, <1>5, <1>6, <1>7, <1>8, <1>9, <1>10, <1>11, <1>12,
     <1>13 DEF Step

LEMMA NextContract == IInv /\ [Next]_vars => [Contract!Next]_(Contract!vars)
<1>1. ASSUME IInv, Next PROVE [Contract!Next]_(Contract!vars)
  BY <1>1, NextIsStep, StepContract
<1>2. UNCHANGED vars => UNCHANGED Contract!vars
  BY DEF vars, Contract!vars, heldBar, wantsBar
<1>3. QED
  BY <1>1, <1>2

\* The lock of a host, as coded, is the lock its docstring describes: shared
\* reads, serialized heavy reads, exclusive and preferred writes.
THEOREM Refinement == Spec => ImplementsRWLock
<1>1. Spec => Contract!Spec
  BY Invariance, InitContract, NextContract, PTL DEF Spec, Contract!Spec
<1>2. QED
  BY <1>1 DEF ImplementsRWLock
=============================================================================
