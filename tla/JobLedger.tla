------------------------------ MODULE JobLedger ------------------------------
(***************************************************************************)
(* What the jobs table promises the owner, without tokens, turns, threads  *)
(* or processes: a job is queued once, begins once, and ends once.  Once   *)
(* "cancellation requested" was said of it, it neither begins nor          *)
(* concludes any more: it ends as cancelled, or as interrupted when the    *)
(* process it belonged to is gone.  JobManager, driven by AgentService,    *)
(* keeps the promise although none of its methods looks at the row.        *)
(***************************************************************************)
CONSTANT Jobs

VARIABLES status,  \* jobs.status, or "ABSENT"
          asked    \* jobs whose cancellation was acknowledged

vars == <<status, asked>>

Live == {"QUEUED", "RUNNING", "CANCELLING"}

Move(j, from, to) ==
  /\ status[j] \in from
  /\ \E s \in to : status' = [status EXCEPT ![j] = s]
-----------------------------------------------------------------------------
Init ==
  /\ status = [j \in Jobs |-> "ABSENT"]
  /\ asked = {}

Create(j) == Move(j, {"ABSENT"}, {"QUEUED"}) /\ UNCHANGED asked

Begin(j) == j \notin asked /\ Move(j, {"QUEUED"}, {"RUNNING"}) /\ UNCHANGED asked

Conclude(j) ==
  /\ j \notin asked
  /\ Move(j, {"RUNNING"}, {"SUCCEEDED", "FAILED"})
  /\ UNCHANGED asked

\* The owner may ask more than once.
Cancel(j) == Move(j, Live, {"CANCELLING"}) /\ asked' = asked \cup {j}

Obey(j) == j \in asked /\ Move(j, {"CANCELLING"}, {"CANCELLED"}) /\ UNCHANGED asked

\* A new process: what was live belonged to the old one.
Interrupt ==
  /\ status' = [j \in Jobs |-> IF status[j] \in Live THEN "INTERRUPTED" ELSE status[j]]
  /\ UNCHANGED asked

Next == \/ \E j \in Jobs : Create(j) \/ Begin(j) \/ Conclude(j) \/ Cancel(j) \/ Obey(j)
        \/ Interrupt

Spec == Init /\ [][Next]_vars
=============================================================================
