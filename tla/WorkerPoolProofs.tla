-------------------------- MODULE WorkerPoolProofs --------------------------
(***************************************************************************)
(* WorkerPool, for any requests, hosts, threads and slots: calls, threads, *)
(* slots and host locks never wait for each other in a circle.             *)
(***************************************************************************)
EXTENDS WorkerPool, FiniteSetTheorems, SequenceTheorems, TLAPS

LEMMA InitTypes == Init => TypeOK
BY PoolAssumption DEF Init, TypeOK, Places, Pending, InThread

\* A call goes to a place that is not the queue; the queue loses nothing.
LEMMA Moves ==
  ASSUME TypeOK, NEW r \in Requests, NEW h \in Hosts, NEW p \in Places \ {"queued"},
         Move(r, h, p), place[r][h] # "queued", UNCHANGED <<kind, backlog, cancelled>>
  PROVE  TypeOK'
BY DEF TypeOK, Move

\* A call is put at the end of the queue.
LEMMA Queued ==
  ASSUME TypeOK, NEW r \in Requests, NEW h \in Hosts, Move(r, h, "queued"),
         place[r][h] # "queued", backlog' = Append(backlog, <<r, h>>),
         kind' \in [Requests -> Kinds \cup {None}], UNCHANGED cancelled
  PROVE  TypeOK'
<1>1. <<r, h>> \in Calls /\ \A i \in DOMAIN backlog : backlog[i] # <<r, h>>
  BY DEF TypeOK, Calls
<1>2. /\ backlog' \in Seq(Calls) /\ DOMAIN backlog' = 1 .. Len(backlog) + 1
      /\ DOMAIN backlog = 1 .. Len(backlog)
      /\ \A i \in DOMAIN backlog : backlog'[i] = backlog[i]
      /\ backlog'[Len(backlog) + 1] = <<r, h>>
  BY <1>1 DEF TypeOK
<1>3. place' \in [Requests -> [Hosts -> Places]]
  BY DEF TypeOK, Move, Places, Pending
<1>4. \A s \in Requests, g \in Hosts :
        place'[s][g] = "queued" <=> (place[s][g] = "queued" \/ <<s, g>> = <<r, h>>)
  BY DEF TypeOK, Move
<1>5. \A s \in Requests, g \in Hosts :
        place'[s][g] = "queued" <=> \E i \in DOMAIN backlog' : backlog'[i] = <<s, g>>
  <2> TAKE s \in Requests, g \in Hosts
  <2>1. (\E i \in DOMAIN backlog : backlog[i] = <<s, g>>) <=> place[s][g] = "queued"
    BY DEF TypeOK
  <2>2. (\E i \in DOMAIN backlog' : backlog'[i] = <<s, g>>)
          <=> (\E i \in DOMAIN backlog : backlog[i] = <<s, g>>) \/ <<s, g>> = <<r, h>>
    BY <1>2
  <2>3. QED
    BY <1>4, <2>1, <2>2
<1>6. \A i, j \in DOMAIN backlog' : backlog'[i] = backlog'[j] => i = j
  BY <1>1, <1>2 DEF TypeOK
<1>7. QED
  BY <1>2, <1>3, <1>5, <1>6 DEF TypeOK

\* The call at the head of the queue leaves it.
LEMMA Taken ==
  ASSUME TypeOK, Take
  PROVE  TypeOK'
<1>1. PICK r \in Requests, h \in Hosts : Head(backlog) = <<r, h>> /\ backlog[1] = <<r, h>>
  BY DEF Take, TypeOK, Calls
<1>2. PICK p \in InThread : Move(r, h, p)
  BY <1>1 DEF Take, InThread
<1>3. /\ backlog' \in Seq(Calls)
      /\ DOMAIN backlog = 1 .. Len(backlog) /\ DOMAIN backlog' = 1 .. Len(backlog) - 1
      /\ Len(backlog) \in Nat \ {0}
      /\ \A i \in DOMAIN backlog' : backlog'[i] = backlog[i + 1]
  BY DEF Take, TypeOK
<1>4. place' \in [Requests -> [Hosts -> Places]]
  BY <1>2 DEF TypeOK, Move, Places, Pending
<1>5. \A s \in Requests, g \in Hosts :
        place'[s][g] = "queued" <=> (place[s][g] = "queued" /\ <<s, g>> # <<r, h>>)
  BY <1>2 DEF TypeOK, Move, InThread
<1>6. \A s \in Requests, g \in Hosts :
        place'[s][g] = "queued" <=> \E i \in DOMAIN backlog' : backlog'[i] = <<s, g>>
  <2> TAKE s \in Requests, g \in Hosts
  <2>1. ASSUME place'[s][g] = "queued"  PROVE \E i \in DOMAIN backlog' : backlog'[i] = <<s, g>>
    <3>1. PICK k \in DOMAIN backlog : backlog[k] = <<s, g>> /\ k # 1
      BY <1>1, <1>5, <2>1 DEF TypeOK
    <3>2. k - 1 \in DOMAIN backlog' /\ backlog'[k - 1] = <<s, g>>
      BY <1>3, <3>1
    <3>3. QED
      BY <3>2
  <2>2. ASSUME NEW i \in DOMAIN backlog', backlog'[i] = <<s, g>>  PROVE place'[s][g] = "queued"
    <3>1. i + 1 \in DOMAIN backlog /\ backlog[i + 1] = <<s, g>> /\ i + 1 # 1 /\ 1 \in DOMAIN backlog
      BY <1>3, <2>2
    <3>2. place[s][g] = "queued" /\ <<s, g>> # <<r, h>>
      BY <1>1, <3>1 DEF TypeOK
    <3>3. QED
      BY <1>5, <3>2
  <2>3. QED
    BY <2>1, <2>2
<1>7. \A i, j \in DOMAIN backlog' : backlog'[i] = backlog'[j] => i = j
  <2> TAKE i, j \in DOMAIN backlog'
  <2>1. i + 1 \in DOMAIN backlog /\ j + 1 \in DOMAIN backlog /\ i \in Nat /\ j \in Nat
    BY <1>3
  <2>2. backlog'[i] = backlog'[j] => i + 1 = j + 1
    BY <1>3, <2>1 DEF TypeOK
  <2>3. QED
    BY <2>1, <2>2
<1>8. kind' = kind /\ cancelled' = cancelled
  BY DEF Take
<1>9. QED
  BY <1>3, <1>4, <1>6, <1>7, <1>8 DEF TypeOK

\* A request that was not made has no call in the queue.
Unasked == \A r \in Requests : kind[r] = None => \A h \in Hosts : place[r][h] = "none"

LEMMA AskTypes ==
  ASSUME TypeOK, Unasked, NEW r \in Requests, NEW k \in Kinds, Ask(r, k)
  PROVE  TypeOK' /\ Unasked'
<1>1. /\ kind' = [kind EXCEPT ![r] = k] /\ kind' \in [Requests -> Kinds \cup {None}]
      /\ cancelled' = cancelled /\ kind'[r] # None
  BY PoolAssumption DEF Ask, TypeOK
<1>2. \A h \in Hosts : place[r][h] = "none"
  BY DEF Ask, Unasked
<1>3. CASE place' = [place EXCEPT ![r] = [h \in Hosts |-> "slot"]] /\ backlog' = backlog
  <2>1. place' \in [Requests -> [Hosts -> Places]]
    BY <1>3 DEF TypeOK, Places, Pending
  <2>2. \A s \in Requests, g \in Hosts : place'[s][g] = "queued" <=> place[s][g] = "queued"
    BY <1>2, <1>3 DEF TypeOK
  <2>3. QED
    BY <1>1, <1>3, <2>1, <2>2 DEF TypeOK, Unasked
<1>4. CASE \E h \in Hosts : Move(r, h, "queued") /\ backlog' = Append(backlog, <<r, h>>)
  <2>1. TypeOK'
    BY <1>1, <1>2, <1>4, Queued
  <2>2. Unasked'
    BY <1>1, <1>4 DEF Move, TypeOK, Unasked
  <2>3. QED
    BY <2>1, <2>2
<1>5. QED
  BY <1>3, <1>4 DEF Ask

LEMMA StepTypes ==
  ASSUME TypeOK, NEW r \in Requests, NEW h \in Hosts, Step(r, h)
  PROVE  TypeOK'
<1>1. CASE Admit(r, h)
  BY <1>1, Moves, Queued DEF Admit, Places, TypeOK
<1>2. CASE Acquire(r, h) \/ Withdraw(r, h) \/ Return(r, h)
  BY <1>2, Moves DEF Acquire, Withdraw, Return, Places, Pending, InThread
<1>3. QED
  BY <1>1, <1>2 DEF Step

LEMMA Invariance == Spec => [](TypeOK /\ Unasked)
<1>1. Init => Unasked
  BY DEF Init, Unasked
<1>2. ASSUME TypeOK, Unasked, [Next]_vars  PROVE TypeOK' /\ Unasked'
  <2>1. CASE \E r \in Requests, k \in Kinds : Ask(r, k)
    BY <1>2, <2>1, AskTypes
  <2>2. CASE \E r \in Requests, h \in Hosts : Step(r, h)
    <3>1. PICK r \in Requests, h \in Hosts : Step(r, h)
      BY <2>2
    <3>2. kind' = kind /\ kind[r] # None /\ \E p : Move(r, h, p)
      BY <1>2, <3>1 DEF Step, Admit, Acquire, Withdraw, Return, Unasked
    <3>3. QED
      BY <1>2, <3>1, <3>2, StepTypes DEF Move, TypeOK, Unasked
  <2>3. CASE Take
    <3>1. PICK r \in Requests, h \in Hosts : Head(backlog) = <<r, h>> /\ place[r][h] = "queued"
      BY <1>2, <2>3 DEF Take, TypeOK, Calls
    <3>2. kind' = kind /\ kind[r] # None /\ \E p : Move(r, h, p)
      BY <1>2, <2>3, <3>1 DEF Take, Unasked
    <3>3. QED
      BY <1>2, <2>3, <3>2, Taken DEF Move, TypeOK, Unasked
  <2>4. CASE \E r \in Requests : Cancel(r)
    BY <1>2, <2>4 DEF Cancel, TypeOK, Unasked
  <2>5. CASE UNCHANGED vars
    BY <1>2, <2>5 DEF vars, TypeOK, Unasked
  <2>6. QED
    BY <1>2, <2>1, <2>2, <2>3, <2>4, <2>5 DEF Next
<1>3. QED
  BY <1>1, <1>2, InitTypes, PTL DEF Spec

\* Every variable keeps its type, and the queue of the executor holds each
\* call that waits for a thread exactly once, however many there are.
THEOREM TypeCorrect == Spec => []TypeOK
BY Invariance, PTL
-----------------------------------------------------------------------------
\* Only a call that needs a lock blocks in one.
Blocked == \A r \in Requests, h \in Hosts : place[r][h] = "blocked" => NeedsLock(r)

\* Who blocks in the lock of a host does so for a call that can go on: one
\* that has the lock, or a WRITE that may take it now.
LEMMA LockIsServed ==
  ASSUME TypeOK, Blocked, NEW h \in Hosts, NEW r \in Requests, place[r][h] = "blocked"
  PROVE  \E s \in Requests : place[s][h] \in InThread /\ CanGo(s, h)
<1>1. CASE \E s \in Requests : Holds(s, h)
  BY <1>1 DEF Holds, CanGo, InThread
<1>2. CASE \A s \in Requests : ~Holds(s, h)
  <2>1. Lock(h)!Holders = {} /\ ~Lock(h)!Writing /\ ~Lock(h)!HeavyReading
    BY <1>2 DEF Lock!Holders, Lock!Writing, Lock!HeavyReading, Lock!Free
  <2>2. CASE \E s \in Requests : place[s][h] = "blocked" /\ Class(s) = "WRITE"
    BY <2>1, <2>2 DEF CanGo, InThread, Lock!Admissible
  <2>3. CASE ~\E s \in Requests : place[s][h] = "blocked" /\ Class(s) = "WRITE"
    <3>1. ~Lock(h)!WriterWaits
      BY <2>3 DEF Lock!WriterWaits
    <3>2. Class(r) \in {"READ", "HEAVY_READ"}
      BY <2>3 DEF Blocked, NeedsLock, Class
    <3>3. QED
      BY <2>1, <3>1, <3>2 DEF CanGo, InThread, Lock!Admissible
  <2>4. QED
    BY <2>2, <2>3
<1>3. QED
  BY <1>1, <1>2

LEMMA BlockedInvariant == Spec => []Blocked
<1>1. Init => Blocked
  BY DEF Init, Blocked
<1>2. ASSUME TypeOK, Unasked, Blocked, [Next]_vars  PROVE Blocked'
  <2>1. CASE \E r \in Requests, k \in Kinds : Ask(r, k)
    <3>1. PICK r \in Requests, k \in Kinds : Ask(r, k)
      BY <2>1
    <3>2. \A h \in Hosts : place'[r][h] # "blocked"
      BY <1>2, <3>1 DEF Ask, Move, TypeOK, Unasked
    <3>3. \A s \in Requests \ {r} : place'[s] = place[s] /\ Class(s)' = Class(s)
      BY <1>2, <3>1 DEF Ask, Move, TypeOK, Class
    <3>4. QED
      BY <1>2, <3>2, <3>3 DEF Blocked, NeedsLock
  <2>2. CASE \E r \in Requests, h \in Hosts : Step(r, h)
    <3>1. PICK r \in Requests, h \in Hosts, p \in {"done", "queued", "running"} :
            Move(r, h, p) /\ kind' = kind
      BY <2>2 DEF Step, Admit, Acquire, Withdraw, Return
    <3>2. \A s \in Requests, g \in Hosts : place'[s][g] = "blocked" => place[s][g] = "blocked"
      BY <1>2, <3>1 DEF Move, TypeOK
    <3>3. QED
      BY <1>2, <3>1, <3>2 DEF Blocked, NeedsLock, Class
  <2>3. CASE Take
    <3>1. PICK r \in Requests, h \in Hosts : Head(backlog) = <<r, h>>
      BY <1>2, <2>3 DEF Take, TypeOK, Calls
    <3>2. Move(r, h, IF NeedsLock(r) THEN "blocked" ELSE "running") /\ kind' = kind
      BY <2>3, <3>1 DEF Take
    <3>3. \A s \in Requests : NeedsLock(s)' <=> NeedsLock(s)
      BY <3>2 DEF NeedsLock, Class
    <3>4. QED
      BY <1>2, <3>2, <3>3 DEF Blocked, Move, TypeOK
  <2>4. CASE UNCHANGED <<kind, place>>
    BY <1>2, <2>4 DEF Blocked, NeedsLock, Class
  <2>5. QED
    BY <1>2, <2>1, <2>2, <2>3, <2>4 DEF Next, Cancel, vars
<1>3. QED
  BY <1>1, <1>2, Invariance, PTL DEF Spec

\* If no call runs and none blocks, every thread and every slot that is not
\* taken by a queued call is free.
LEMMA NothingTaken ==
  ASSUME TypeOK, \A r \in Requests, h \in Hosts : place[r][h] \notin InThread
  PROVE  /\ Busy < Workers
         /\ \A r \in Requests :
              (\A h \in Hosts : place[r][h] # "queued") => Slots(r) < Parallel
<1>1. {c \in Calls : place[c[1]][c[2]] \in InThread} = {}
  BY DEF Calls
<1>2. Busy = 0
  BY <1>1, FS_EmptySet DEF Busy
<1>3. ASSUME NEW r \in Requests, \A h \in Hosts : place[r][h] # "queued"
      PROVE  Slots(r) = 0
  <2>1. {h \in Hosts : place[r][h] \in {"queued"} \cup InThread} = {}
    BY <1>3
  <2>2. QED
    BY <2>1, FS_EmptySet DEF Slots
<1>4. QED
  BY <1>2, <1>3, PoolAssumption

\* Slots, threads and host locks are never all waited for in a circle: while
\* a call is pending some call can go on, and whoever blocks in a lock does
\* so for a call on that host that can.  It is this that allows the executor
\* to be as small as one thread.
THEOREM DeadlockFree == Spec => []NeverWedged
<1>1. ASSUME TypeOK, Blocked  PROVE NeverWedged
  <2>1. ASSUME NEW r \in Requests, NEW h \in Hosts, place[r][h] \in Pending
        PROVE  \E s \in Requests, g \in Hosts : CanGo(s, g)
    <3>1. CASE \E s \in Requests, g \in Hosts : place[s][g] = "running"
      BY <3>1 DEF CanGo
    <3>2. CASE \E s \in Requests, g \in Hosts : place[s][g] = "blocked"
      BY <1>1, <3>2, LockIsServed
    <3>3. CASE \A s \in Requests, g \in Hosts : place[s][g] \notin InThread
      <4>1. CASE \E s \in Requests, g \in Hosts : place[s][g] = "queued"
        BY <1>1, <3>3, <4>1, NothingTaken DEF CanGo
      <4>2. CASE \A s \in Requests, g \in Hosts : place[s][g] # "queued"
        BY <1>1, <2>1, <3>3, <4>2, NothingTaken DEF CanGo, Pending
      <4>3. QED
        BY <4>1, <4>2
    <3>4. QED
      BY <3>1, <3>2, <3>3 DEF InThread
  <2>2. QED
    BY <1>1, <2>1, LockIsServed DEF NeverWedged
<1>2. QED
  BY <1>1, Invariance, BlockedInvariant, PTL
=============================================================================
