------------------------------ MODULE HostLock ------------------------------
(***************************************************************************)
(* jobs/locks.py and jobs/cancellation.py: the monitor that guards one     *)
(* host (_HostState) and the CancellationToken that can abort a queued     *)
(* request.                                                                *)
(*                                                                         *)
(* A request is one thread inside HostLockManager.acquire.  `owner' is the *)
(* thread that holds the Condition's mutex.  The code between two reads of *)
(* the token is one step, because cancel() takes the mutex only to notify  *)
(* and can set the event at any moment, also while a waiter is inside the  *)
(* monitor.  The token's own lock is a leaf (nothing is acquired under     *)
(* it), so register, unregister and the swap in cancel are each one step.  *)
(***************************************************************************)
EXTENDS Naturals, FiniteSets

CONSTANTS Requests,    \* threads that take the lock, each again and again
          MayWrite,    \* those that may ask for WRITE
          MayCancel,   \* those that may pass a cancellation token
          Nobody       \* the mutex is free

ASSUME RequestsAssumption ==
  /\ IsFiniteSet(Requests)
  /\ MayWrite \subseteq Requests
  /\ MayCancel \subseteq Requests
  /\ Nobody \notin Requests

VARIABLES
  readers, heavy, writer, waiting_writers,  \* the fields of _HostState
  owner,      \* who holds the Condition's mutex
  pc,         \* where each request is
  kind,       \* the lock_class it passed
  token,      \* its CancellationToken: absent, live or cancelled
  callbacks,  \* requests whose wake_waiter is registered with their token
  canceller   \* the thread inside token.cancel(), per token

monitor == <<readers, heavy, writer, waiting_writers>>
vars == <<readers, heavy, writer, waiting_writers, owner, pc, kind, token,
          callbacks, canceller>>

LockClass == {"READ", "HEAVY_READ", "WRITE"}

\* Places of a request.  "test" evaluates the wait_for predicate, "decide"
\* looks at the token again, "granted" and "refused" run the last finally.
Inside  == {"test", "decide", "granted", "refused"}   \* holds the mutex
Queued  == {"test", "asleep", "woken", "decide"}
Holding == {"granted", "held"}
Places  == {"idle", "register", "callnow", "enter"} \cup Inside \cup Queued \cup Holding

Cancelled(r) == token[r] = "cancelled"

\* Seeded faults: each stands for one definition below, broken the way the
\* code could plausibly be broken, to show which property notices.

\* the writer's predicate forgets the readers
GrantableDespiteReaders(k) ==
  \/ k = "WRITE"      /\ ~writer /\ ~heavy
  \/ k = "HEAVY_READ" /\ ~writer /\ ~heavy /\ waiting_writers = 0
  \/ k = "READ"       /\ ~writer /\ waiting_writers = 0

\* readers look only at the active writer
GrantablePastWriters(k) ==
  \/ k = "WRITE"      /\ ~writer /\ ~heavy /\ readers = 0
  \/ k = "HEAVY_READ" /\ ~writer /\ ~heavy
  \/ k = "READ"       /\ ~writer

\* The predicates of the three wait_for calls, without cancelled().
Grantable(k) ==
  \/ k = "WRITE"      /\ ~writer /\ ~heavy /\ readers = 0
  \/ k = "HEAVY_READ" /\ ~writer /\ ~heavy /\ waiting_writers = 0
  \/ k = "READ"       /\ ~writer /\ waiting_writers = 0

Move(r, place) == pc' = [pc EXCEPT ![r] = place]

\* The arguments of acquire end with the call.
Forget(r) ==
  /\ kind'  = [kind EXCEPT ![r] = "READ"]
  /\ token' = [token EXCEPT ![r] = "absent"]

\* condition.notify_all() by r, which itself goes to `place'.
NotifyAll(r, place) ==
  pc' = [x \in Requests |-> IF x = r THEN place
                            ELSE IF pc[x] = "asleep" THEN "woken" ELSE pc[x]]
-----------------------------------------------------------------------------
Init ==
  /\ readers = 0 /\ heavy = FALSE /\ writer = FALSE /\ waiting_writers = 0
  /\ owner = Nobody
  /\ pc = [r \in Requests |-> "idle"]
  /\ kind = [r \in Requests |-> "READ"]
  /\ token = [r \in Requests |-> "absent"]
  /\ callbacks = {}
  /\ canceller = [r \in Requests |-> "idle"]

\* acquire(host, lock_class, cancellation): a job passes its token, the
\* action coordinator passes none.
Begin(r) ==
  /\ pc[r] = "idle" /\ canceller[r] = "idle"
  /\ \E k \in IF r \in MayWrite THEN LockClass ELSE LockClass \ {"WRITE"},
        t \in IF r \in MayCancel THEN {"absent", "live"} ELSE {"absent"} :
       /\ kind'  = [kind EXCEPT ![r] = k]
       /\ token' = [token EXCEPT ![r] = t]
       /\ Move(r, IF t = "live" THEN "register" ELSE "enter")
  /\ UNCHANGED <<monitor, owner, callbacks, canceller>>

\* CancellationToken.register(wake_waiter): a token that is already
\* cancelled does not keep the callback, it is called at once.
Register(r) ==
  /\ pc[r] = "register"
  /\ IF Cancelled(r)
     THEN Move(r, "callnow") /\ UNCHANGED callbacks
     ELSE Move(r, "enter") /\ callbacks' = callbacks \cup {r}
  /\ UNCHANGED <<monitor, owner, kind, token, canceller>>

CallNow(r) ==
  /\ pc[r] = "callnow" /\ owner = Nobody
  /\ NotifyAll(r, "enter")
  /\ UNCHANGED <<monitor, owner, kind, token, callbacks, canceller>>

\* "with self.condition:", and for WRITE the announcement of the writer.
Enter(r) ==
  /\ pc[r] = "enter" /\ owner = Nobody
  /\ owner' = r
  /\ Move(r, "test")
  /\ waiting_writers' = waiting_writers + IF kind[r] = "WRITE" THEN 1 ELSE 0
  /\ UNCHANGED <<readers, heavy, writer, kind, token, callbacks, canceller>>

\* seeded fault: the predicate does not ask cancelled()
TestDeaf(r) ==
  /\ pc[r] = "test"
  /\ IF Grantable(kind[r])
     THEN Move(r, "decide") /\ UNCHANGED owner
     ELSE Move(r, "asleep") /\ owner' = Nobody
  /\ UNCHANGED <<monitor, kind, token, callbacks, canceller>>

\* One evaluation of the wait_for predicate; wait() gives the mutex back.
Test(r) ==
  /\ pc[r] = "test"
  /\ IF Cancelled(r) \/ Grantable(kind[r])
     THEN Move(r, "decide") /\ UNCHANGED owner
     ELSE Move(r, "asleep") /\ owner' = Nobody
  /\ UNCHANGED <<monitor, kind, token, callbacks, canceller>>

\* wait() returns after a notify: the mutex is taken again.
Resume(r) ==
  /\ pc[r] = "woken" /\ owner = Nobody
  /\ owner' = r
  /\ Move(r, "test")
  /\ UNCHANGED <<monitor, kind, token, callbacks, canceller>>

\* seeded fault: a cancelled writer goes without notify_all
RefuseSilently(r) ==
  /\ pc[r] = "decide" /\ Cancelled(r)
  /\ Move(r, "refused")
  /\ waiting_writers' = waiting_writers - IF kind[r] = "WRITE" THEN 1 ELSE 0
  /\ UNCHANGED <<readers, heavy, writer, owner, kind, token, callbacks, canceller>>

\* "if cancelled(): raise"; for WRITE the finally that withdraws the
\* announcement notifies everyone, for a reader nothing is announced.
Refuse(r) ==
  /\ pc[r] = "decide" /\ Cancelled(r)
  /\ IF kind[r] = "WRITE"
     THEN waiting_writers' = waiting_writers - 1 /\ NotifyAll(r, "refused")
     ELSE UNCHANGED waiting_writers /\ Move(r, "refused")
  /\ UNCHANGED <<readers, heavy, writer, owner, kind, token, callbacks, canceller>>

Grant(r) ==
  /\ pc[r] = "decide" /\ ~Cancelled(r)
  /\ IF kind[r] = "WRITE"
     THEN /\ writer' = TRUE
          /\ waiting_writers' = waiting_writers - 1
          /\ NotifyAll(r, "granted")
          /\ UNCHANGED <<readers, heavy>>
     ELSE /\ readers' = readers + 1
          /\ heavy' = (heavy \/ kind[r] = "HEAVY_READ")
          /\ Move(r, "granted")
          /\ UNCHANGED <<writer, waiting_writers>>
  /\ UNCHANGED <<owner, kind, token, callbacks, canceller>>

\* The outer finally: unregister, then leave the monitor.
Leave(r) ==
  /\ pc[r] \in {"granted", "refused"}
  /\ IF pc[r] = "granted"
     THEN Move(r, "held") /\ UNCHANGED <<kind, token>>
     ELSE Move(r, "idle") /\ Forget(r)
  /\ callbacks' = callbacks \ {r}
  /\ owner' = Nobody
  /\ UNCHANGED <<monitor, canceller>>

\* seeded fault: release forgets the heavy flag
ReleaseKeepsHeavy(r) ==
  /\ pc[r] = "held" /\ owner = Nobody
  /\ IF kind[r] = "WRITE"
     THEN writer' = FALSE /\ UNCHANGED readers
     ELSE readers' = readers - 1 /\ UNCHANGED writer
  /\ NotifyAll(r, "idle")
  /\ Forget(r)
  /\ UNCHANGED <<heavy, waiting_writers, owner, callbacks, canceller>>

\* release(lock_class), from the finally of the context manager.
Release(r) ==
  /\ pc[r] = "held" /\ owner = Nobody
  /\ IF kind[r] = "WRITE"
     THEN writer' = FALSE /\ UNCHANGED <<readers, heavy>>
     ELSE /\ readers' = readers - 1
          /\ heavy' = (heavy /\ kind[r] # "HEAVY_READ")
          /\ UNCHANGED writer
  /\ NotifyAll(r, "idle")
  /\ Forget(r)
  /\ UNCHANGED <<waiting_writers, owner, callbacks, canceller>>

\* CancellationToken.cancel() by another thread, in its three moments: set
\* the event, take the callbacks, call them outside the token's lock.
CancelSet(r) ==
  /\ token[r] = "live"
  /\ token' = [token EXCEPT ![r] = "cancelled"]
  /\ canceller' = [canceller EXCEPT ![r] = "swap"]
  /\ UNCHANGED <<monitor, owner, pc, kind, callbacks>>

CancelSwap(r) ==
  /\ canceller[r] = "swap"
  /\ canceller' = [canceller EXCEPT ![r] = IF r \in callbacks THEN "call" ELSE "idle"]
  /\ callbacks' = callbacks \ {r}
  /\ UNCHANGED <<monitor, owner, pc, kind, token>>

\* wake_waiter: notify_all under the mutex, whatever its waiter now does.
CancelCall(r) ==
  /\ canceller[r] = "call" /\ owner = Nobody
  /\ canceller' = [canceller EXCEPT ![r] = "idle"]
  /\ pc' = [x \in Requests |-> IF pc[x] = "asleep" THEN "woken" ELSE pc[x]]
  /\ UNCHANGED <<monitor, owner, kind, token, callbacks>>

Acquire(r) == Register(r) \/ CallNow(r) \/ Enter(r) \/ Test(r) \/ Resume(r)
              \/ Refuse(r) \/ Grant(r) \/ Leave(r)
Cancel(r)  == CancelSwap(r) \/ CancelCall(r)

Next == \E r \in Requests :
  \/ Begin(r) \/ Acquire(r) \/ Release(r) \/ CancelSet(r) \/ Cancel(r)

Spec == Init /\ [][Next]_vars

\* Every job ends (commands carry a timeout), so a holder releases; a thread
\* that competes for the Condition's mutex gets it at last.  Nobody has to
\* ask for the lock or to cancel.
Fairness == \A r \in Requests :
  /\ WF_vars(Register(r) \/ Test(r) \/ Refuse(r) \/ Grant(r) \/ Leave(r))
  /\ SF_vars(CallNow(r) \/ Enter(r) \/ Resume(r))
  /\ SF_vars(Release(r))
  /\ WF_vars(CancelSwap(r)) /\ SF_vars(CancelCall(r))

FairSpec == Spec /\ Fairness
-----------------------------------------------------------------------------
TypeOK ==
  /\ readers \in Nat /\ waiting_writers \in Nat
  /\ heavy \in BOOLEAN /\ writer \in BOOLEAN
  /\ owner \in Requests \cup {Nobody}
  /\ pc \in [Requests -> Places]
  /\ kind \in [Requests -> LockClass]
  /\ token \in [Requests -> {"absent", "live", "cancelled"}]
  /\ callbacks \subseteq Requests
  /\ canceller \in [Requests -> {"idle", "swap", "call"}]

ReadHolders   == {r \in Requests : pc[r] \in Holding /\ kind[r] # "WRITE"}
QueuedWriters == {r \in Requests : pc[r] \in Queued /\ kind[r] = "WRITE"}

\* While a WRITE holds the host nobody else does, and two HEAVY_READs never
\* hold it together (_HostState.acquire and release).
Exclusion ==
  \A r, s \in Requests :
    (r # s /\ pc[r] \in Holding /\ pc[s] \in Holding) =>
      /\ kind[r] # "WRITE"
      /\ ~(kind[r] = "HEAVY_READ" /\ kind[s] = "HEAVY_READ")

\* The four fields of _HostState count exactly the threads they stand for,
\* whatever mix of grants, cancellations and releases led here: a leaked
\* count would block the host until the process ends.
CountersMatch ==
  /\ readers = Cardinality(ReadHolders)
  /\ waiting_writers = Cardinality(QueuedWriters)
  /\ writer = (\E r \in Requests : pc[r] \in Holding /\ kind[r] = "WRITE")
  /\ heavy = (\E r \in Requests : pc[r] \in Holding /\ kind[r] = "HEAVY_READ")

\* A thread asleep in wait_for has nothing it could be woken for: its class
\* is not grantable, and if its token is cancelled the cancelling thread has
\* still to notify it.
NoLostWakeup ==
  \A r \in Requests : pc[r] = "asleep" =>
    /\ ~Grantable(kind[r])
    /\ Cancelled(r) => \/ canceller[r] = "call"
                       \/ canceller[r] = "swap" /\ r \in callbacks

\* A queued request whose job is cancelled leaves the queue, also a reader
\* that one WRITE after the other would pass for ever.
CancelledLeaves ==
  \A r \in Requests : (pc[r] \in Queued /\ Cancelled(r)) ~> (pc[r] \notin Queued)

\* Readers alone cannot keep a WRITE waiting, however many keep coming.
WriterServed ==
  \A r \in MayWrite :
    (pc[r] \in Queued /\ kind[r] = "WRITE") ~>
      \/ pc[r] \notin Queued
      \/ \E s \in MayWrite \ {r} : pc[s] \in Holding /\ kind[s] = "WRITE"

\* The monitor keeps the promise of RWLock.
heldBar  == [r \in Requests |-> IF pc[r] \in Holding THEN kind[r] ELSE "FREE"]
wantsBar == [r \in Requests |-> IF pc[r] \in Queued THEN kind[r] ELSE "FREE"]
Contract == INSTANCE RWLock WITH held <- heldBar, wants <- wantsBar

\* Grants respect the classes and no reader passes a queued WRITE; a request
\* leaves the queue only by a grant or by its own cancellation.
ImplementsRWLock == Contract!Spec
=============================================================================
