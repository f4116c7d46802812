----------------------------- MODULE JobManager -----------------------------
(***************************************************************************)
(* jobs/manager.py over the jobs table: what each method of JobManager     *)
(* does to the row of a job and to its CancellationToken.                  *)
(*                                                                         *)
(* All of them are called by coroutines of one event loop, none of which   *)
(* awaits inside; the module that drives them (AgentService) says when.    *)
(***************************************************************************)
CONSTANT Jobs  \* ids of the rows that can come to exist

VARIABLES row,       \* jobs.status, or "ABSENT"
          tokens,    \* JobManager._tokens: the jobs that have one
          cancelled  \* jobs whose token is cancelled

Active    == {"QUEUED", "RUNNING", "CANCELLING"}
Ended     == {"CANCELLED", "SUCCEEDED", "FAILED", "INTERRUPTED"}
JobStatus == {"ABSENT"} \cup Active \cup Ended
-----------------------------------------------------------------------------
JobsInit ==
  /\ row = [j \in Jobs |-> "ABSENT"]
  /\ tokens = {}
  /\ cancelled = {}

\* create: the row is committed, then the token registered.
CreateJob(j) ==
  /\ row[j] = "ABSENT"
  /\ row' = [row EXCEPT ![j] = "QUEUED"]
  /\ tokens' = tokens \cup {j}
  /\ UNCHANGED cancelled

\* start: whatever the row holds.
StartJob(j) ==
  /\ row' = [row EXCEPT ![j] = "RUNNING"]
  /\ UNCHANGED <<tokens, cancelled>>

\* seeded fault: the token is taken out of _tokens before it is asked
FinishJobPopsFirst(j, failed) ==
  /\ row' = [row EXCEPT ![j] = IF failed THEN "FAILED" ELSE "SUCCEEDED"]
  /\ tokens' = tokens \ {j}
  /\ UNCHANGED cancelled

\* finish: a cancelled token outweighs the result.
FinishJob(j, failed) ==
  /\ row' = [row EXCEPT ![j] = IF j \in tokens /\ j \in cancelled THEN "CANCELLED"
                               ELSE IF failed THEN "FAILED" ELSE "SUCCEEDED"]
  /\ tokens' = tokens \ {j}
  /\ UNCHANGED cancelled

\* cancel: only a job that has a token; the others are "already finished".
CancelJob(j) ==
  /\ j \in tokens
  /\ row' = [row EXCEPT ![j] = "CANCELLING"]
  /\ cancelled' = cancelled \cup {j}
  /\ UNCHANGED tokens

\* The process is gone, and what it held in memory.
LoseTokens ==
  /\ tokens' = {}
  /\ cancelled' = {}
  /\ UNCHANGED row

\* seeded fault: a job that was being cancelled is not looked for
ReconcileJobsSkipsCancelling ==
  /\ row' = [j \in Jobs |-> IF row[j] \in {"QUEUED", "RUNNING"} THEN "INTERRUPTED" ELSE row[j]]
  /\ UNCHANGED <<tokens, cancelled>>

\* reconcile_stale, by the next process.
ReconcileJobs ==
  /\ row' = [j \in Jobs |-> IF row[j] \in Active THEN "INTERRUPTED" ELSE row[j]]
  /\ UNCHANGED <<tokens, cancelled>>
=============================================================================
