------------------------------- MODULE RWLock -------------------------------
(***************************************************************************)
(* What jobs/locks.py promises of the lock of one host, without saying how *)
(* the promise is kept: READ holders share, a HEAVY_READ shares with READs *)
(* but not with another HEAVY_READ, a WRITE is alone, and no reader passes *)
(* a waiting WRITE.  The monitor that keeps the promise is HostLock.       *)
(***************************************************************************)
CONSTANT Requests  \* the calls of HostLockManager.acquire on this host

VARIABLES held,    \* the class in which a request holds the lock, or Free
          wants    \* the class in which a request is queued, or Free

vars == <<held, wants>>

LockClass == {"READ", "HEAVY_READ", "WRITE"}
Free == "FREE"

Holders      == {r \in Requests : held[r] # Free}
Writing      == \E r \in Requests : held[r] = "WRITE"
HeavyReading == \E r \in Requests : held[r] = "HEAVY_READ"
WriterWaits  == \E r \in Requests : wants[r] = "WRITE"

Admissible(k) ==
  \/ k = "WRITE"      /\ Holders = {}
  \/ k = "HEAVY_READ" /\ ~Writing /\ ~WriterWaits /\ ~HeavyReading
  \/ k = "READ"       /\ ~Writing /\ ~WriterWaits
-----------------------------------------------------------------------------
Init ==
  /\ held  = [r \in Requests |-> Free]
  /\ wants = [r \in Requests |-> Free]

Ask(r) ==
  /\ held[r] = Free /\ wants[r] = Free
  /\ \E k \in LockClass : wants' = [wants EXCEPT ![r] = k]
  /\ UNCHANGED held

Admit(r) ==
  /\ wants[r] # Free
  /\ Admissible(wants[r])
  /\ held'  = [held EXCEPT ![r] = wants[r]]
  /\ wants' = [wants EXCEPT ![r] = Free]

\* LockAcquisitionCancelled: a queued request gives up.
Withdraw(r) ==
  /\ wants[r] # Free
  /\ wants' = [wants EXCEPT ![r] = Free]
  /\ UNCHANGED held

Release(r) ==
  /\ held[r] # Free
  /\ held' = [held EXCEPT ![r] = Free]
  /\ UNCHANGED wants

Next == \E r \in Requests : Ask(r) \/ Admit(r) \/ Withdraw(r) \/ Release(r)

Spec == Init /\ [][Next]_vars
=============================================================================
