----------------------------- MODULE WorkerPool -----------------------------
(***************************************************************************)
(* Who waits for whom: what the coroutines of services/agent_service.py    *)
(* and discord_app/approval_logic.py hand to asyncio.to_thread.            *)
(*                                                                         *)
(* All of it goes to the one default executor of the event loop, which has *)
(* a fixed number of threads and a queue.  A fleet READ takes a slot of    *)
(* its semaphore first; a thread that needs the lock of its host blocks in *)
(* it, and keeps its place in the pool meanwhile.  So slots, threads and   *)
(* host locks are waited for by the same calls.                            *)
(*                                                                         *)
(* A call is a request on a host.  The lock is RWLock, which HostLock      *)
(* implements; what the calls find and save is in AgentService.            *)
(***************************************************************************)
EXTENDS Naturals, Sequences, FiniteSets

CONSTANTS Requests, Hosts,
          Kinds,      \* the kinds of request that are made
          Workers,    \* threads of the executor: min(32, processors + 4)
          Parallel,   \* max_parallel_hosts
          None

\* A READ of one host by inspection or by the agent, of the fleet by either,
\* of the traffic history, an approved command, and what takes no lock: a
\* plan, a proposal, a rejection, a general answer.
RequestKinds == {"inspect", "investigate", "fleet", "traffic", "write", "bare"}
OfFleet == {"fleet", "traffic"}
HasToken == {"inspect", "investigate", "fleet", "traffic"}

ASSUME PoolAssumption ==
  /\ Kinds \subseteq RequestKinds
  /\ Workers \in Nat \ {0}
  /\ Parallel \in Nat \ {0}
  /\ None \notin Kinds

VARIABLES kind,       \* what a request is, or None
          place,      \* where its call on a host is
          backlog,    \* the queue of the executor, first come first served
          cancelled   \* requests whose token is cancelled

vars == <<kind, place, backlog, cancelled>>

Calls    == Requests \X Hosts
InThread == {"blocked", "running"}
Pending  == {"slot", "queued"} \cup InThread
Places   == {"none", "done"} \cup Pending

Class(r) == CASE kind[r] = "inspect" -> "READ"
              [] kind[r] \in {"investigate", "fleet"} -> "HEAVY_READ"
              [] kind[r] = "write" -> "WRITE"
              [] OTHER -> "FREE"
NeedsLock(r) == Class(r) # "FREE"

\* seeded fault: the lock is taken before the call is handed to the executor
HoldsBeforehand(r, h) == NeedsLock(r) /\ place[r][h] \in {"queued", "running"}

\* Who has the lock of a host: a thread, as long as the call runs in it.
Holds(r, h) == NeedsLock(r) /\ place[r][h] = "running"

Lock(h) == INSTANCE RWLock WITH
  held  <- [r \in Requests |-> IF Holds(r, h) THEN Class(r) ELSE "FREE"],
  wants <- [r \in Requests |-> IF place[r][h] = "blocked" THEN Class(r) ELSE "FREE"]

Slots(r) == Cardinality({h \in Hosts : place[r][h] \in {"queued"} \cup InThread})

\* seeded fault: a thread whose call ended is not given back
ThreadsLost == Cardinality({c \in Calls : place[c[1]][c[2]] \in InThread \cup {"done"}})

Busy == Cardinality({c \in Calls : place[c[1]][c[2]] \in InThread})

Move(r, h, p) == place' = [place EXCEPT ![r][h] = p]
-----------------------------------------------------------------------------
Init ==
  /\ kind = [r \in Requests |-> None]
  /\ place = [r \in Requests |-> [h \in Hosts |-> "none"]]
  /\ backlog = <<>>
  /\ cancelled = {}

\* A fleet READ gathers a coroutine for each host; anything else is one call.
Ask(r, k) ==
  /\ kind[r] = None
  /\ kind' = [kind EXCEPT ![r] = k]
  /\ \/ /\ k \in OfFleet
        /\ place' = [place EXCEPT ![r] = [h \in Hosts |-> "slot"]]
        /\ UNCHANGED backlog
     \/ /\ k \notin OfFleet
        /\ \E h \in Hosts : Move(r, h, "queued") /\ backlog' = Append(backlog, <<r, h>>)
  /\ UNCHANGED cancelled

\* async with semaphore; the token is looked at, then the call handed over.
Admit(r, h) ==
  /\ place[r][h] = "slot" /\ Slots(r) < Parallel
  /\ \/ /\ r \in cancelled
        /\ Move(r, h, "done") /\ UNCHANGED backlog
     \/ /\ r \notin cancelled
        /\ Move(r, h, "queued") /\ backlog' = Append(backlog, <<r, h>>)
  /\ UNCHANGED <<kind, cancelled>>

\* A thread of the executor takes the next call.
Take ==
  /\ backlog # <<>> /\ Busy < Workers
  /\ LET c == Head(backlog)
     IN  Move(c[1], c[2], IF NeedsLock(c[1]) THEN "blocked" ELSE "running")
  /\ backlog' = Tail(backlog)
  /\ UNCHANGED <<kind, cancelled>>

\* locks.acquire: granted, or left because the token was cancelled.
Acquire(r, h) ==
  /\ place[r][h] = "blocked" /\ r \notin cancelled
  /\ Lock(h)!Admissible(Class(r))
  /\ Move(r, h, "running")
  /\ UNCHANGED <<kind, backlog, cancelled>>
Withdraw(r, h) ==
  /\ place[r][h] = "blocked" /\ r \in cancelled
  /\ Move(r, h, "done")
  /\ UNCHANGED <<kind, backlog, cancelled>>

\* The call returns or raises; its lock, its thread and its slot are free.
Return(r, h) ==
  /\ place[r][h] = "running"
  /\ Move(r, h, "done")
  /\ UNCHANGED <<kind, backlog, cancelled>>

Cancel(r) ==
  /\ kind[r] \in HasToken /\ r \notin cancelled
  /\ cancelled' = cancelled \cup {r}
  /\ UNCHANGED <<kind, place, backlog>>

Step(r, h) == Admit(r, h) \/ Acquire(r, h) \/ Withdraw(r, h) \/ Return(r, h)

Next == \/ \E r \in Requests : (\E k \in Kinds : Ask(r, k)) \/ Cancel(r)
        \/ \E r \in Requests, h \in Hosts : Step(r, h)
        \/ Take

Spec == Init /\ [][Next]_vars

\* The loop and the threads run; what they run has its timeouts.
Fairness == WF_vars(Take) /\ \A r \in Requests, h \in Hosts : WF_vars(Step(r, h))
FairSpec == Spec /\ Fairness
-----------------------------------------------------------------------------
\* The types; the queue of the executor holds the calls that wait for a
\* thread, each of them once.
TypeOK ==
  /\ kind \in [Requests -> Kinds \cup {None}]
  /\ place \in [Requests -> [Hosts -> Places]]
  /\ backlog \in Seq(Calls)
  /\ cancelled \subseteq Requests
  /\ \A r \in Requests, h \in Hosts :
       place[r][h] = "queued" <=> \E i \in DOMAIN backlog : backlog[i] = <<r, h>>
  /\ \A i, j \in DOMAIN backlog : backlog[i] = backlog[j] => i = j

\* What a call needs to go on is there.
CanGo(r, h) ==
  \/ place[r][h] = "slot" /\ Slots(r) < Parallel
  \/ place[r][h] = "queued" /\ Busy < Workers
  \/ place[r][h] = "blocked" /\ (r \in cancelled \/ Lock(h)!Admissible(Class(r)))
  \/ place[r][h] = "running"

\* to_thread, semaphore and host locks: they are never all waited for in a
\* circle.  As long as a call is pending some call can go on, and a thread
\* that blocks in a lock does so for one on the same host that can.
NeverWedged ==
  /\ (\E r \in Requests, h \in Hosts : place[r][h] \in Pending) =>
       \E r \in Requests, h \in Hosts : CanGo(r, h)
  /\ \A h \in Hosts : (\E r \in Requests : place[r][h] = "blocked") =>
       \E r \in Requests : place[r][h] \in InThread /\ CanGo(r, h)

\* Every call comes to its end, also the approved command that is queued
\* behind as many blocked READs as there are threads.
CallsEnd == \A r \in Requests, h \in Hosts : place[r][h] \in Pending ~> place[r][h] = "done"
=============================================================================
