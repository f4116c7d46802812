-------------------------- MODULE ActionCoordinator --------------------------
(***************************************************************************)
(* actions/coordinator.py over storage/database.py: a proposal is stored   *)
(* with the snapshot its preflight saw; a click on Approve claims it,      *)
(* takes the WRITE lock of the host, looks at the host again and, if       *)
(* nothing changed, runs the command once and verifies it.                 *)
(*                                                                         *)
(* Several clicks are served at once, each by a thread of asyncio          *)
(* .to_thread.  Every method of Database is one transaction, so one step;  *)
(* between two steps another thread may run, the call may raise and the    *)
(* process may die.  The lock is the one of HostLock, taken here by its    *)
(* contract (RWLock).                                                      *)
(***************************************************************************)
EXTENDS Naturals, FiniteSets

CONSTANTS Proposals, Hosts, Calls,  \* Calls: threads that serve clicks
          HostOf,         \* [Proposals -> Hosts]
          Kind,           \* [Proposals -> Kinds]
          Worlds,         \* what a preflight of a host can show
          Blocked,        \* [Proposals -> SUBSET Worlds], by the policy
          Configurations, \* the settings a process can be started with
          MayRaise,       \* proposals whose calls may raise
          None            \* no proposal, no snapshot

Kinds == {"typed", "operation", "reboot"}

ASSUME ConstantsAssumption ==
  /\ HostOf \in [Proposals -> Hosts]
  /\ Kind \in [Proposals -> Kinds]
  /\ Blocked \in [Proposals -> SUBSET Worlds]
  /\ MayRaise \subseteq Proposals
  /\ Configurations \subseteq [enabled : BOOLEAN, reboot : BOOLEAN]
  /\ None \notin Proposals /\ None \notin Worlds

VARIABLES
  \* the database
  status, run,   \* action_proposals.status, and action_runs.status or "NONE"
  audit,         \* the events recorded in action_events
  snapshot,      \* preflight_fingerprint of the row
  \* the process
  up, config,    \* config: settings.enabled; a RebootCoordinator was given
  reading,       \* hosts on which jobs hold the lock as readers
  pc, target,    \* the calls in flight and the proposal each is about
  late,          \* the moment the call took is past expires_at
  fresh,         \* the snapshot it collected
  verdict,       \* the ProposalStatus it arrived at
  command,       \* the ToolResult of the proposal's command
  \* the world, and facts no code reads
  world,
  expired,       \* PENDING proposals past expires_at
  sent,          \* how often the command of a proposal was dispatched
  seen,          \* the commands that had been dispatched when a call collected
  raised         \* proposals whose call, in this process, ended in an exception

rows  == <<status, run, audit, snapshot>>
local == <<target, late, fresh, seen, verdict>>
process == <<up, config, reading>>
environment == <<command, world, expired, sent, raised>>
vars  == <<rows, process, pc, local, environment>>

InFlight == {"APPROVED", "EXECUTING"}
Finished == {"SUCCEEDED", "SUCCEEDED_UNVERIFIED", "FAILED", "FAILED_VERIFY", "RECOVERY_FAILED"}
Void     == {"BLOCKED", "REJECTED", "EXPIRED", "INVALIDATED", "INTERRUPTED", "INTERRUPTED_UNKNOWN"}
ProposalStatus == {"ABSENT", "PENDING"} \cup InFlight \cup Finished \cup Void
RunStatus == {"NONE", "EXECUTING", "INTERRUPTED_UNKNOWN"} \cup Finished
Events == {"PROPOSED", "APPROVED", "REJECTED", "PREFLIGHT_RECHECK", "INVALIDATED",
           "EXECUTING", "COMMAND_DISPATCHED", "VERIFYING"} \cup Finished
Results == {"none", "running", "ok", "failed", "timeout", "undispatched"}

\* The places of a call; from "collect" on it holds the WRITE lock.
Locked    == {"collect", "recheck", "judge", "invalidated", "begin", "announce", "dispatch",
              "running", "record", "verifying", "verify", "finish", "settle", "report"}
Consuming == {"approved", "queue"} \cup Locked
Places    == {"idle", "proposed", "claim", "reject", "rejected"} \cup Consuming

At(c, p, place)  == up /\ pc[c] = place /\ target[c] = p
Move(c, place)   == pc' = [pc EXCEPT ![c] = place]
SetStatus(p, s)  == status' = [status EXCEPT ![p] = s]
RecordAll(p, events) == audit' = [audit EXCEPT ![p] = @ \cup events]
Record(p, event) == RecordAll(p, {event})

WritesOn(h)  == {q \in Proposals : HostOf[q] = h /\ sent[q] > 0}
Holder(c, h) == pc[c] \in Locked /\ HostOf[target[c]] = h
Waiter(c, h) == pc[c] = "queue" /\ HostOf[target[c]] = h

\* seeded fault: a WRITE waits for the readers, not for other WRITEs
WriteAdmissibleTogether(h) == h \notin reading

\* RWLock!Admissible in terms of the calls and the readers.
WriteAdmissible(h) == h \notin reading /\ \A c \in Calls : ~Holder(c, h)
ReadAdmissible(h)  == \A c \in Calls : ~Holder(c, h) /\ ~Waiter(c, h)

\* The call returns, or is gone: its locals with it.
Forget(c) ==
  /\ target'  = [target EXCEPT ![c] = None]
  /\ late'    = [late EXCEPT ![c] = FALSE]
  /\ fresh'   = [fresh EXCEPT ![c] = None]
  /\ seen'    = [seen EXCEPT ![c] = {}]
  /\ verdict' = [verdict EXCEPT ![c] = "PENDING"]
Return(c) == Move(c, "idle") /\ Forget(c)
ForgetAll ==
  /\ pc'      = [c \in Calls |-> "idle"]
  /\ target'  = [c \in Calls |-> None]
  /\ late'    = [c \in Calls |-> FALSE]
  /\ fresh'   = [c \in Calls |-> None]
  /\ seen'    = [c \in Calls |-> {}]
  /\ verdict' = [c \in Calls |-> "PENDING"]
  /\ reading' = {}
-----------------------------------------------------------------------------
Init ==
  /\ status = [p \in Proposals |-> "ABSENT"]
  /\ run = [p \in Proposals |-> "NONE"]
  /\ audit = [p \in Proposals |-> {}]
  /\ snapshot = [p \in Proposals |-> None]
  /\ up = TRUE /\ config \in Configurations
  /\ reading = {}
  /\ pc = [c \in Calls |-> "idle"]
  /\ target = [c \in Calls |-> None]
  /\ late = [c \in Calls |-> FALSE]
  /\ fresh = [c \in Calls |-> None]
  /\ seen = [c \in Calls |-> {}]
  /\ verdict = [c \in Calls |-> "PENDING"]
  /\ command = [p \in Proposals |-> "none"]
  /\ world \in [Hosts -> Worlds]
  /\ expired = {}
  /\ sent = [p \in Proposals |-> 0]
  /\ raised = {}

\* propose, propose_operation: preflight, then the row.  settings.enabled
\* is not asked here (evaluate with execution=False).
Propose(c, p) ==
  /\ up /\ pc[c] = "idle" /\ status[p] = "ABSENT"
  /\ LET w == world[HostOf[p]] IN
       /\ snapshot' = [snapshot EXCEPT ![p] = w]
       /\ SetStatus(p, IF w \in Blocked[p] THEN "BLOCKED" ELSE "PENDING")
  /\ Move(c, "proposed")
  /\ target' = [target EXCEPT ![c] = p]
  /\ UNCHANGED <<run, audit, process, late, fresh, seen, verdict, environment>>

\* The PROPOSED event; the buttons are shown when the call has returned.
RecordProposed(c, p) ==
  /\ At(c, p, "proposed")
  /\ Record(p, "PROPOSED")
  /\ Return(c)
  /\ UNCHANGED <<status, run, snapshot, process, environment>>

\* The owner clicks (anyone else is turned away before anything changes);
\* the call takes the moment it will compare with expires_at.
Click(c, p) ==
  /\ up /\ pc[c] = "idle" /\ "PROPOSED" \in audit[p]
  /\ \E place \in {"claim", "reject"} : Move(c, place)
  /\ target' = [target EXCEPT ![c] = p]
  /\ late'   = [late EXCEPT ![c] = p \in expired]
  /\ UNCHANGED <<rows, process, fresh, seen, verdict, environment>>

\* "WHERE status='PENDING' AND expires_at>?"
Open(c, p) == status[p] = "PENDING" /\ ~late[c]

\* seeded fault: the UPDATE has no "AND status='PENDING'"
RejectAnyRow(c, p) ==
  /\ At(c, p, "reject") /\ ~late[c]
  /\ SetStatus(p, "REJECTED")
  /\ expired' = expired \ {p}
  /\ Move(c, "rejected")
  /\ UNCHANGED <<run, audit, snapshot, local, process, command, world, sent, raised>>

\* reject_action_proposal hits the row, or does not: an expired proposal is
\* then left PENDING.
RejectRow(c, p) ==
  /\ At(c, p, "reject") /\ Open(c, p)
  /\ SetStatus(p, "REJECTED")
  /\ expired' = expired \ {p}
  /\ Move(c, "rejected")
  /\ UNCHANGED <<run, audit, snapshot, local, process, command, world, sent, raised>>

RejectNothing(c, p) ==
  /\ At(c, p, "reject") /\ ~Open(c, p)
  /\ Return(c)
  /\ UNCHANGED <<rows, process, environment>>

RecordRejected(c, p) ==
  /\ At(c, p, "rejected")
  /\ Record(p, "REJECTED")
  /\ Return(c)
  /\ UNCHANGED <<status, run, snapshot, process, environment>>

\* seeded fault: the UPDATE has no "AND status='PENDING'"
ClaimAny(c, p) ==
  /\ At(c, p, "claim") /\ ~late[c]
  /\ SetStatus(p, "APPROVED")
  /\ expired' = expired \ {p}
  /\ Move(c, "approved")
  /\ UNCHANGED <<run, audit, snapshot, local, process, command, world, sent, raised>>

\* approve_action_proposal: the UPDATE that lets a single click win.
Claim(c, p) ==
  /\ At(c, p, "claim") /\ Open(c, p)
  /\ SetStatus(p, "APPROVED")
  /\ expired' = expired \ {p}
  /\ Move(c, "approved")
  /\ UNCHANGED <<run, audit, snapshot, local, process, command, world, sent, raised>>

\* It hits no row: a PENDING one has expired, and is marked so.
ClaimNothing(c, p) ==
  /\ At(c, p, "claim") /\ ~Open(c, p)
  /\ SetStatus(p, IF status[p] = "PENDING" THEN "EXPIRED" ELSE status[p])
  /\ expired' = expired \ {p}
  /\ Return(c)
  /\ UNCHANGED <<run, audit, snapshot, process, command, world, sent, raised>>

\* The APPROVED event, and _consume up to the request for the lock: it reads
\* only columns of the row that never change.
RecordApproved(c, p) ==
  /\ At(c, p, "approved")
  /\ Record(p, "APPROVED")
  /\ Move(c, "queue")
  /\ UNCHANGED <<status, run, snapshot, local, process, environment>>

\* locks.acquire(host.name, WRITE), without a token; expires_at is not
\* looked at again however long it takes.
Lock(c, p) ==
  /\ At(c, p, "queue")
  /\ WriteAdmissible(HostOf[p])
  /\ Move(c, "collect")
  /\ UNCHANGED <<rows, local, process, environment>>

\* preflight.collect under the lock.
Collect(c, p) ==
  /\ At(c, p, "collect")
  /\ fresh' = [fresh EXCEPT ![c] = world[HostOf[p]]]
  /\ seen'  = [seen EXCEPT ![c] = WritesOn(HostOf[p])]
  /\ Move(c, "recheck")
  /\ UNCHANGED <<rows, target, late, verdict, process, environment>>

RecordRecheck(c, p) ==
  /\ At(c, p, "recheck")
  /\ Record(p, "PREFLIGHT_RECHECK")
  /\ Move(c, "judge")
  /\ UNCHANGED <<status, run, snapshot, local, process, environment>>

\* seeded fault: the fingerprints are not compared
AcceptableAsIs(c, p) == config.enabled /\ fresh[c] \notin Blocked[p]

\* The policy and the fingerprint decide.
Acceptable(c, p) ==
  /\ config.enabled
  /\ fresh[c] \notin Blocked[p]
  /\ fresh[c] = snapshot[p]

Invalidate(c, p) ==
  /\ At(c, p, "judge") /\ ~Acceptable(c, p)
  /\ SetStatus(p, "INVALIDATED")
  /\ Move(c, "invalidated")
  /\ UNCHANGED <<run, audit, snapshot, local, process, environment>>

RecordInvalidated(c, p) ==
  /\ At(c, p, "invalidated")
  /\ Record(p, "INVALIDATED")
  /\ Return(c)
  /\ UNCHANGED <<status, run, snapshot, process, environment>>

\* create_action_run; proposal_id is UNIQUE there, a second row would raise.
CreateRun(c, p) ==
  /\ At(c, p, "judge") /\ Acceptable(c, p)
  /\ run[p] = "NONE"
  /\ run' = [run EXCEPT ![p] = "EXECUTING"]
  /\ Move(c, "begin")
  /\ UNCHANGED <<status, audit, snapshot, local, process, environment>>

SetExecuting(c, p) ==
  /\ At(c, p, "begin")
  /\ SetStatus(p, "EXECUTING")
  /\ Move(c, "announce")
  /\ UNCHANGED <<run, audit, snapshot, local, process, environment>>

RecordExecuting(c, p) ==
  /\ At(c, p, "announce")
  /\ Record(p, "EXECUTING")
  /\ Move(c, "dispatch")
  /\ UNCHANGED <<status, run, snapshot, local, process, environment>>

\* seeded fault: the return without set_proposal_status
RefuseRebootSilently(c, p) ==
  /\ At(c, p, "dispatch") /\ Kind[p] = "reboot" /\ ~config.reboot
  /\ Return(c)
  /\ UNCHANGED <<rows, process, environment>>

\* "if self.reboot is None": the run stays EXECUTING.
RefuseReboot(c, p) ==
  /\ At(c, p, "dispatch") /\ Kind[p] = "reboot" /\ ~config.reboot
  /\ SetStatus(p, "INVALIDATED")
  /\ Return(c)
  /\ UNCHANGED <<run, audit, snapshot, process, environment>>

\* executor.execute, generic.execute, reboot.execute_approved.
Dispatch(c, p) ==
  /\ At(c, p, "dispatch") /\ (Kind[p] = "reboot" => config.reboot)
  /\ sent'    = [sent EXCEPT ![p] = @ + 1]
  /\ command' = [command EXCEPT ![p] = "running"]
  /\ Move(c, "running")
  /\ UNCHANGED <<rows, local, process, world, expired, raised>>

\* seeded fault: a command that timed out is tried again
AnswerRetries(c, p) ==
  /\ At(c, p, "running")
  /\ \E r \in {"ok", "failed", "timeout"} :
       /\ command' = [command EXCEPT ![p] = r]
       /\ Move(c, IF r = "timeout" THEN "dispatch" ELSE "record")
  /\ UNCHANGED <<rows, local, process, world, expired, sent, raised>>

\* What comes back: of a reboot the trace, success or not, and whether the
\* command can be said never to have reached the host.
Answer(c, p) ==
  /\ At(c, p, "running")
  /\ \E r \in IF Kind[p] = "reboot" THEN {"ok", "failed", "undispatched"}
                                    ELSE {"ok", "failed", "timeout"} :
       command' = [command EXCEPT ![p] = r]
  /\ Move(c, "record")
  /\ UNCHANGED <<rows, local, process, world, expired, sent, raised>>

Decide(c, s) == verdict' = [verdict EXCEPT ![c] = s]

\* The COMMAND_DISPATCHED event; for a reboot the events of the trace, which
\* has none when nothing reached the host.
RecordDispatched(c, p) ==
  /\ At(c, p, "record")
  /\ RecordAll(p, IF command[p] = "undispatched" THEN {} ELSE {"COMMAND_DISPATCHED"})
  /\ \/ /\ Kind[p] = "reboot"
        /\ Decide(c, IF command[p] = "ok" THEN "SUCCEEDED" ELSE "RECOVERY_FAILED")
        /\ Move(c, "finish")
     \/ /\ Kind[p] = "operation" /\ command[p] # "ok"
        /\ Decide(c, "FAILED")
        /\ Move(c, "finish")
     \/ /\ Kind[p] = "typed" \/ (Kind[p] = "operation" /\ command[p] = "ok")
        /\ UNCHANGED verdict
        /\ Move(c, "verifying")
  /\ UNCHANGED <<status, run, snapshot, target, late, fresh, seen, process, environment>>

RecordVerifying(c, p) ==
  /\ At(c, p, "verifying")
  /\ Record(p, "VERIFYING")
  /\ Move(c, "verify")
  /\ UNCHANGED <<status, run, snapshot, local, process, environment>>

\* seeded fault: what the verification sees outweighs the command
VerifyOnly(c, p) ==
  /\ At(c, p, "verify")
  /\ \E s \in {"SUCCEEDED", "FAILED_VERIFY"} : Decide(c, s)
  /\ Move(c, "finish")
  /\ UNCHANGED <<rows, target, late, fresh, seen, process, environment>>

\* The verification, and the status that follows from it and the command; a
\* generic operation may have no verification (None).
Verify(c, p) ==
  /\ At(c, p, "verify")
  /\ \E v \in {"yes", "no"} \cup IF Kind[p] = "operation" THEN {"unavailable"} ELSE {} :
       Decide(c, CASE v = "unavailable"                  -> "SUCCEEDED_UNVERIFIED"
                   [] command[p] = "ok" /\ v = "yes"     -> "SUCCEEDED"
                   [] command[p] = "ok" /\ v = "no"      -> "FAILED_VERIFY"
                   [] OTHER                              -> "FAILED")
  /\ Move(c, "finish")
  /\ UNCHANGED <<rows, target, late, fresh, seen, process, environment>>

\* seeded fault: the run keeps the result of the command alone
FinishRunByCommand(c, p) ==
  /\ At(c, p, "finish")
  /\ run' = [run EXCEPT ![p] = IF command[p] = "ok" THEN "SUCCEEDED" ELSE "FAILED"]
  /\ Move(c, "settle")
  /\ UNCHANGED <<status, audit, snapshot, local, process, environment>>

FinishRun(c, p) ==
  /\ At(c, p, "finish")
  /\ run' = [run EXCEPT ![p] = verdict[c]]
  /\ Move(c, "settle")
  /\ UNCHANGED <<status, audit, snapshot, local, process, environment>>

Settle(c, p) ==
  /\ At(c, p, "settle")
  /\ SetStatus(p, verdict[c])
  /\ Move(c, "report")
  /\ UNCHANGED <<run, audit, snapshot, local, process, environment>>

\* The last event; leaving the with block releases the lock.
Report(c, p) ==
  /\ At(c, p, "report")
  /\ Record(p, verdict[c])
  /\ Return(c)
  /\ UNCHANGED <<status, run, snapshot, process, environment>>

\* A step raises instead (a validation error, sqlite busy, an OSError): the
\* lock is released on the way out, and nobody touches the row again.
Raise(c, p) ==
  /\ p \in MayRaise /\ up /\ pc[c] # "idle" /\ target[c] = p
  /\ raised' = raised \cup {p}
  /\ Return(c)
  /\ UNCHANGED <<rows, process, command, world, expired, sent>>
-----------------------------------------------------------------------------
\* Jobs read under the lock; no reader passes a waiting WRITE.
StartReading(h) ==
  /\ up /\ h \notin reading
  /\ ReadAdmissible(h)
  /\ reading' = reading \cup {h}
  /\ UNCHANGED <<rows, up, config, pc, local, environment>>

StopReading(h) ==
  /\ h \in reading
  /\ reading' = reading \ {h}
  /\ UNCHANGED <<rows, up, config, pc, local, environment>>

\* The host changes by itself, by what a command did, or by other hands;
\* while the process is down nobody looks.
Change(h) ==
  /\ up
  /\ \E w \in Worlds : world' = [world EXCEPT ![h] = w]
  /\ UNCHANGED <<rows, process, pc, local, command, expired, sent, raised>>

\* expires_at passes; once the proposal is not PENDING nobody asks.
Expire(p) ==
  /\ status[p] = "PENDING"
  /\ expired' = expired \cup {p}
  /\ UNCHANGED <<rows, process, pc, local, command, world, sent, raised>>

Crash ==
  /\ up
  /\ up' = FALSE
  /\ ForgetAll
  /\ raised' = {}
  /\ UNCHANGED <<rows, config, command, world, expired, sent>>

Reconciled(offers, flights) ==
  /\ up' = TRUE /\ config' \in Configurations
  /\ status' = [p \in Proposals |->
                  IF status[p] \in offers THEN "INTERRUPTED"
                  ELSE IF status[p] \in flights THEN "INTERRUPTED_UNKNOWN" ELSE status[p]]
  /\ run' = [p \in Proposals |->
               IF run[p] = "EXECUTING" THEN "INTERRUPTED_UNKNOWN" ELSE run[p]]
  /\ expired' = {p \in expired : status'[p] = "PENDING"}
  /\ UNCHANGED <<audit, snapshot, reading, pc, local, command, world, sent, raised>>

\* seeded fault: what is approved but not yet executing is not looked for
RestartSkipsApproved == ~up /\ Reconciled({"PENDING"}, {"EXECUTING"})

\* The next process runs reconcile_actions, one transaction, before it
\* serves anything.
Restart == ~up /\ Reconciled({"PENDING"}, InFlight)

Approval(c, p) ==
  \/ Claim(c, p) \/ ClaimNothing(c, p) \/ RecordApproved(c, p)
  \/ Collect(c, p) \/ RecordRecheck(c, p)
  \/ Invalidate(c, p) \/ RecordInvalidated(c, p)
  \/ CreateRun(c, p) \/ SetExecuting(c, p) \/ RecordExecuting(c, p) \/ RefuseReboot(c, p)
  \/ Dispatch(c, p) \/ Answer(c, p) \/ RecordDispatched(c, p) \/ RecordVerifying(c, p)
  \/ Verify(c, p) \/ FinishRun(c, p) \/ Settle(c, p) \/ Report(c, p)

Next ==
  \/ \E c \in Calls, p \in Proposals :
       \/ Propose(c, p) \/ RecordProposed(c, p)
       \/ Click(c, p) \/ RejectRow(c, p) \/ RejectNothing(c, p) \/ RecordRejected(c, p)
       \/ Approval(c, p) \/ Lock(c, p) \/ Raise(c, p)
  \/ \E h \in Hosts : StartReading(h) \/ StopReading(h) \/ Change(h)
  \/ \E p \in Proposals : Expire(p)
  \/ Crash \/ Restart

Spec == Init /\ [][Next]_vars

\* A thread of the process gets on with its work (every command carries a
\* timeout), jobs end, and the lock serves a waiting WRITE in the end.
Fairness ==
  /\ \A c \in Calls, p \in Proposals : WF_vars(Approval(c, p)) /\ SF_vars(Lock(c, p))
  /\ \A h \in Hosts : WF_vars(StopReading(h))

FairSpec == Spec /\ Fairness
-----------------------------------------------------------------------------
TypeOK ==
  /\ status \in [Proposals -> ProposalStatus]
  /\ run \in [Proposals -> RunStatus]
  /\ audit \in [Proposals -> SUBSET Events]
  /\ snapshot \in [Proposals -> Worlds \cup {None}]
  /\ up \in BOOLEAN /\ config \in Configurations
  /\ reading \subseteq Hosts
  /\ pc \in [Calls -> Places]
  /\ target \in [Calls -> Proposals \cup {None}]
  /\ late \in [Calls -> BOOLEAN]
  /\ fresh \in [Calls -> Worlds \cup {None}]
  /\ seen \in [Calls -> SUBSET Proposals]
  /\ verdict \in [Calls -> {"PENDING"} \cup Finished]
  /\ command \in [Proposals -> Results]
  /\ world \in [Hosts -> Worlds]
  /\ expired \subseteq Proposals
  /\ sent \in [Proposals -> Nat]
  /\ raised \subseteq Proposals

\* A command that was dispatched was dispatched once, and the approval, the
\* recheck and the execution were in the ledger before it: whenever the
\* process dies, what it did can be told from the database.
CommandAuthorised ==
  \A p \in Proposals : sent[p] > 0 =>
    /\ sent[p] = 1
    /\ {"APPROVED", "PREFLIGHT_RECHECK", "EXECUTING"} \subseteq audit[p]
    /\ run[p] # "NONE"
    /\ status[p] \in {"EXECUTING", "INTERRUPTED_UNKNOWN"} \cup Finished

\* At the point of dispatch the host is as the owner was shown it, as far as
\* the agent could know: the recheck agreed with the proposal, no other
\* command of the agent reached the host since, and no job is reading it.
RecheckCurrent ==
  \A c \in Calls : pc[c] = "dispatch" =>
    LET p == target[c] h == HostOf[target[c]] IN
      /\ config.enabled
      /\ fresh[c] = snapshot[p] /\ fresh[c] \notin Blocked[p]
      /\ seen[c] = WritesOn(h)
      /\ h \notin reading

\* action_events never claims what action_proposals does not hold, whatever
\* was interrupted between the two writes.
AuditTruthful ==
  \A p \in Proposals :
    /\ "APPROVED" \in audit[p] => status[p] \notin {"PENDING", "BLOCKED", "REJECTED", "EXPIRED",
                                                    "INTERRUPTED"}
    /\ "COMMAND_DISPATCHED" \in audit[p] => sent[p] > 0
    /\ \A s \in audit[p] \cap (Finished \cup {"REJECTED", "INVALIDATED"}) : status[p] = s

\* action_runs and action_proposals agree on how a command ended; only a
\* death between their two updates lets the run know more.
LedgerAgrees ==
  \A p \in Proposals :
    /\ status[p] \in Finished => run[p] = status[p]
    /\ run[p] \in Finished =>
         \/ status[p] \in {run[p], "INTERRUPTED_UNKNOWN"}
         \/ ~up \/ p \in raised
         \/ \E c \in Calls : target[c] = p /\ pc[c] = "settle" /\ verdict[c] = run[p]

\* A success in the ledger is the success of the command: a timeout or an
\* error is never turned into one, by verification or by a restart.
SuccessEarned ==
  \A p \in Proposals :
    (status[p] \in {"SUCCEEDED", "SUCCEEDED_UNVERIFIED"} \/
     run[p] \in {"SUCCEEDED", "SUCCEEDED_UNVERIFIED"}) => command[p] = "ok"

\* While the process is up, a proposal between approval and result is in the
\* hands of exactly one call, unless that call ended in an exception.
NoOrphans ==
  \A p \in Proposals :
    (up /\ status[p] \in InFlight /\ p \notin raised) =>
      \E c \in Calls : /\ pc[c] \in Consuming /\ target[c] = p
                       /\ \A d \in Calls \ {c} : ~(pc[d] \in Consuming /\ target[d] = p)

\* The places of a call whose run is under way, from create_action_run to
\* finish_action_run.
UnderWay == {"begin", "announce", "dispatch", "running", "record", "verifying", "verify",
             "finish"}

\* While the process is up, a run that the ledger shows as EXECUTING is under
\* way in some call, unless that call ended in an exception: with one leak,
\* the reboot that no RebootCoordinator could take, whose run row nobody ends
\* before the next start.
RunsAccounted ==
  \A p \in Proposals : (up /\ run[p] = "EXECUTING" /\ p \notin raised) =>
    \/ \E c \in Calls : pc[c] \in UnderWay /\ target[c] = p
    \/ status[p] = "INVALIDATED" /\ Kind[p] = "reboot" /\ ~config.reboot

\* set_proposal_status is unconditional: that no step overwrites a status
\* which is final is due to who may reach it.
TerminalStays ==
  [][\A p \in Proposals : status[p] \in Finished \cup Void => status'[p] = status[p]]_vars

\* An approval is used at most once and commands on a host never overlap:
\* the coordinator implements SingleUseApproval.
authorityBar == [p \in Proposals |->
  IF sent[p] > 0 THEN "spent"
  ELSE IF status[p] = "ABSENT" THEN "none"
  ELSE IF status[p] = "PENDING" THEN "offered"
  ELSE IF status[p] \in Void THEN "void" ELSE "granted"]
executingBar == {p \in Proposals : \E c \in Calls : pc[c] = "running" /\ target[c] = p}
Promise == INSTANCE SingleUseApproval WITH authority <- authorityBar, executing <- executingBar

SingleUse == Promise!Spec

\* With no exception and no crash, an approved proposal reaches its result.
Settles ==
  \A p \in Proposals :
    status[p] \in InFlight ~> (status[p] \notin InFlight \/ ~up \/ p \in raised)
=============================================================================
