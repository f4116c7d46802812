---------------------------- MODULE BotLifecycle ----------------------------
(***************************************************************************)
(* The processes over one database: bots, which start and stop spawn and   *)
(* end (PidFile), and one-off commands like ask beside them.  Each brings  *)
(* the schema up to date (SchemaMigration); a bot then takes what earlier  *)
(* processes left active for interrupted (run-discord of app.py), and      *)
(* serves.  A row stands for the jobs of a process, one for its proposals; *)
(* ActionCoordinator and JobManager model them within one process.         *)
(***************************************************************************)
EXTENDS PidFile, SchemaMigration

ASSUME BotsAssumption == Bots \subseteq Processes

VARIABLES stage,   \* of each bot: how far run-discord has come
          job,     \* the row of the job of each process
          proposal \* and that of the proposal of each bot
rowVars == <<stage, job, proposal>>
vars == <<pidVars, schemaVars, rowVars>>

Asks == Processes \ Bots
Serving(p) == hand[p].at = "migrated" /\ (p \in Bots => stage[p] = "serving")

Init ==
  /\ PidInit /\ SchemaInit
  /\ stage = [b \in Bots |-> "starting"]
  /\ job = [p \in Processes |-> "none"] /\ proposal = [b \in Bots |-> "none"]

Launch(c, b) == Spawn(c, b) /\ Connect(b) /\ UNCHANGED rowVars
Ask(p)       == p \in Asks /\ Connect(p) /\ UNCHANGED <<pidVars, rowVars>>

\* A migration that fails ends the process.
Migrate(p) ==
  /\ MigrationStep(p)
  /\ IF hand'[p].at = "gone" /\ p \in Bots
     THEN BotDies(p) ELSE UNCHANGED pidVars
  /\ UNCHANGED rowVars

Die(p) ==
  /\ Exit(p)
  /\ IF p \in Bots THEN BotDies(p) ELSE UNCHANGED pidVars
  /\ UNCHANGED rowVars

\* seeded fault: the job manager of every process reconciles
ReconcileJobsAlways(p) ==
  /\ hand[p].at = "migrated" /\ (p \in Bots => stage[p] = "starting")
  /\ job' = [q \in Processes |-> IF job[q] = "ACTIVE" THEN "INTERRUPTED" ELSE job[q]]
  /\ IF p \in Bots THEN stage' = [stage EXCEPT ![p] = "jobs"] ELSE UNCHANGED stage
  /\ UNCHANGED <<pidVars, schemaVars, proposal>>

\* "ACTIVE" is QUEUED, RUNNING or CANCELLING.
ReconcileJobs(p) ==
  /\ p \in Bots /\ hand[p].at = "migrated" /\ stage[p] = "starting"
  /\ job' = [q \in Processes |-> IF job[q] = "ACTIVE" THEN "INTERRUPTED" ELSE job[q]]
  /\ stage' = [stage EXCEPT ![p] = "jobs"]
  /\ UNCHANGED <<pidVars, schemaVars, proposal>>

\* "ACTIVE" is APPROVED or a state of execution.
ReconcileActions(b) ==
  /\ hand[b].at = "migrated" /\ stage[b] = "jobs"
  /\ proposal' = [d \in Bots |-> CASE proposal[d] = "PENDING" -> "INTERRUPTED"
                                   [] proposal[d] = "ACTIVE"  -> "INTERRUPTED_UNKNOWN"
                                   [] OTHER                   -> proposal[d]]
  /\ stage' = [stage EXCEPT ![b] = "serving"]
  /\ UNCHANGED <<pidVars, schemaVars, job>>

CreateJob(p) ==
  /\ Serving(p) /\ job[p] = "none"
  /\ job' = [job EXCEPT ![p] = "ACTIVE"]
  /\ UNCHANGED <<pidVars, schemaVars, stage, proposal>>

\* update_job does not ask what the row says meanwhile.
FinishJob(p) ==
  /\ Serving(p) /\ job[p] \in {"ACTIVE", "INTERRUPTED"}
  /\ job' = [job EXCEPT ![p] = "FINISHED"]
  /\ UNCHANGED <<pidVars, schemaVars, stage, proposal>>

Propose(b) ==
  /\ Serving(b) /\ proposal[b] = "none"
  /\ proposal' = [proposal EXCEPT ![b] = "PENDING"]
  /\ UNCHANGED <<pidVars, schemaVars, stage, job>>

\* approve_action_proposal does.
Approve(b) ==
  /\ Serving(b) /\ proposal[b] = "PENDING"
  /\ proposal' = [proposal EXCEPT ![b] = "ACTIVE"]
  /\ UNCHANGED <<pidVars, schemaVars, stage, job>>

Conclude(b) ==
  /\ Serving(b) /\ proposal[b] \in {"ACTIVE", "INTERRUPTED_UNKNOWN"}
  /\ proposal' = [proposal EXCEPT ![b] = "CONCLUDED"]
  /\ UNCHANGED <<pidVars, schemaVars, stage, job>>

Next ==
  \/ \E c \in Commands : CommandStep(c) /\ UNCHANGED <<schemaVars, rowVars>>
  \/ \E c \in Commands, b \in Bots : Launch(c, b)
  \/ (StrangerComes \/ StrangerGoes) /\ UNCHANGED <<schemaVars, rowVars>>
  \/ \E p \in Processes : \/ Ask(p) \/ Migrate(p) \/ Die(p) \/ ReconcileJobs(p)
                          \/ CreateJob(p) \/ FinishJob(p)
  \/ \E b \in Bots : ReconcileActions(b) \/ Propose(b) \/ Approve(b) \/ Conclude(b)

Spec == Init /\ [][Next]_vars
-----------------------------------------------------------------------------
\* Types; and a bot has a pid while, and only while, it is at something.
TypeOK ==
  /\ PidTypeOK /\ SchemaTypeOK
  /\ stage \in [Bots -> {"starting", "jobs", "serving"}]
  /\ job \in [Processes -> {"none", "ACTIVE", "INTERRUPTED", "FINISHED"}]
  /\ proposal \in [Bots -> {"none", "PENDING", "ACTIVE", "INTERRUPTED", "INTERRUPTED_UNKNOWN",
                            "CONCLUDED"}]
  /\ \A b \in Bots : /\ at[b] = "unborn" <=> hand[b].at = "off"
                     /\ at[b] = "gone"   <=> hand[b].at = "gone"

\* A start that takes a row for left behind is right about it: unless the
\* commands disturbed each other, a bot whose job or proposal is interrupted
\* is gone.  (The job of an ask is interrupted when a bot starts beside it.)
OnlyTheDeadInterrupted ==
  calm => \A b \in Bots :
            \/ job[b] = "INTERRUPTED"
            \/ proposal[b] \in {"INTERRUPTED", "INTERRUPTED_UNKNOWN"}
            => at[b] = "gone"
=============================================================================
