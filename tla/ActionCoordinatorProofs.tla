----------------------- MODULE ActionCoordinatorProofs -----------------------
(***************************************************************************)
(* The approval ledger is safe for every set of proposals, hosts, threads, *)
(* worlds and configurations.  The inductive invariant IInv says, for each *)
(* place in approve, what the row, the run and the audit trail of its      *)
(* proposal hold there: the checked properties follow because only the one *)
(* call that won the claim can move a proposal on.                         *)
(***************************************************************************)
EXTENDS ActionCoordinator, TLAPS

Successes == {"SUCCEEDED", "SUCCEEDED_UNVERIFIED"}
Judged    == {"begin", "announce", "dispatch"}
Collected == {"recheck", "judge"} \cup Judged
Sent      == {"running", "record", "verifying", "verify", "finish", "settle", "report"}

\* A call lives in a running process and knows its proposal.
CallsAlive == \A c \in Calls : pc[c] # "idle" => up /\ target[c] \in Proposals

\* The UPDATE of the claim lets one call win.
OneConsumer ==
  \A c, d \in Calls : (c # d /\ pc[c] \in Consuming /\ pc[d] \in Consuming) => target[c] #
     target[d]

\* The lock is held from the preflight to the last event.
HostAlone ==
  \A c \in Calls : pc[c] \in Locked =>
    /\ HostOf[target[c]] \notin reading
    /\ \A d \in Calls \ {c} : pc[d] \in Locked => HostOf[target[d]] # HostOf[target[c]]

\* The two rows of a proposal, by the place of the call that consumes it.
RowsOfCall ==
  \A c \in Calls : LET p == target[c] IN
    /\ pc[c] \in {"approved", "queue", "collect", "recheck", "judge"} =>
         status[p] = "APPROVED" /\ run[p] = "NONE"
    /\ pc[c] = "invalidated" => status[p] = "INVALIDATED" /\ run[p] = "NONE"
    /\ pc[c] = "begin" => status[p] = "APPROVED" /\ run[p] = "EXECUTING"
    /\ pc[c] \in {"announce", "dispatch", "running", "record", "verifying", "verify",
       "finish"} =>
         status[p] = "EXECUTING" /\ run[p] = "EXECUTING"
    /\ pc[c] = "settle" => status[p] = "EXECUTING" /\ run[p] = verdict[c]
    /\ pc[c] = "report" => status[p] = verdict[c] /\ run[p] = verdict[c]
    /\ pc[c] = "rejected" => status[p] = "REJECTED"
    /\ pc[c] # "idle" => status[p] # "ABSENT"

\* What has been dispatched and recorded by then.
TrailOfCall ==
  \A c \in Calls : LET p == target[c] IN
    /\ pc[c] \in Consuming => sent[p] = IF pc[c] \in Sent THEN 1 ELSE 0
    /\ pc[c] \in Consuming \ {"approved"} => "APPROVED" \in audit[p]
    /\ pc[c] \in {"judge"} \cup Judged \cup Sent => "PREFLIGHT_RECHECK" \in audit[p]
    /\ pc[c] \in {"dispatch"} \cup Sent => "EXECUTING" \in audit[p]

\* What the call saw is still so, as far as the agent is concerned.
SightOfCall ==
  \A c \in Calls : LET p == target[c] IN
    /\ pc[c] \in Collected => seen[c] = WritesOn(HostOf[p])
    /\ pc[c] \in Judged => Acceptable(c, p)

\* The verdict is of the proposal's command.
VerdictOfCall ==
  \A c \in Calls : LET p == target[c] IN
    /\ (pc[c] \in {"verifying", "verify"} /\ Kind[p] = "operation") => command[p] = "ok"
    /\ pc[c] \in {"finish", "settle", "report"} =>
         verdict[c] \in Finished /\ (verdict[c] \in Successes => command[p] = "ok")

\* A proposal nobody claimed has no history, one that is finished
\* was dispatched, and a run ends before its proposal.
RowsAlone ==
  \A p \in Proposals :
    /\ status[p] = "ABSENT" => audit[p] = {}
    /\ status[p] \in {"ABSENT", "PENDING"} => run[p] = "NONE"
    /\ status[p] \in Finished => sent[p] > 0
    /\ run[p] \in Finished => status[p] \in {run[p], "EXECUTING", "INTERRUPTED_UNKNOWN"}

\* A proposal in flight is in the hands of a call.
InHands ==
  \A p \in Proposals :
    (up /\ status[p] \in InFlight /\ p \notin raised) =>
      \E c \in Calls : pc[c] \in Consuming /\ target[c] = p

IInv ==
  /\ TypeOK /\ CallsAlive /\ OneConsumer /\ HostAlone
  /\ RowsOfCall /\ TrailOfCall /\ SightOfCall /\ VerdictOfCall /\ RowsAlone
  /\ CommandAuthorised /\ AuditTruthful /\ LedgerAgrees /\ SuccessEarned /\ InHands
  /\ RunsAccounted
-----------------------------------------------------------------------------
\* The steps of a call, by the part of approve they belong to.
Proposing(c, p)  == Propose(c, p) \/ RecordProposed(c, p) \/ Click(c, p)
Rejecting(c, p)  == RejectRow(c, p) \/ RejectNothing(c, p) \/ RecordRejected(c, p)
Claiming(c, p)   == Claim(c, p) \/ ClaimNothing(c, p) \/ RecordApproved(c, p) \/ Lock(c, p)
Rechecking(c, p) == Collect(c, p) \/ RecordRecheck(c, p) \/ Invalidate(c, p) \/
   RecordInvalidated(c, p)
Starting(c, p)   == CreateRun(c, p) \/ SetExecuting(c, p) \/ RecordExecuting(c, p) \/
   RefuseReboot(c, p)
Running(c, p)    == Dispatch(c, p) \/ Answer(c, p) \/ RecordDispatched(c, p) \/
   RecordVerifying(c, p) \/ Verify(c, p)
Ending(c, p)     == FinishRun(c, p) \/ Settle(c, p) \/ Report(c, p)

CallStep(c, p) ==
  \/ Proposing(c, p) \/ Rejecting(c, p) \/ Claiming(c, p) \/ Rechecking(c, p)
  \/ Starting(c, p) \/ Running(c, p) \/ Ending(c, p) \/ Raise(c, p)

\* The steps of nobody's call.
Surroundings ==
  \/ \E h \in Hosts : StartReading(h) \/ StopReading(h) \/ Change(h)
  \/ \E p \in Proposals : Expire(p)

LEMMA NextCases ==
  ASSUME Next
  PROVE  \/ \E c \in Calls, p \in Proposals : CallStep(c, p)
         \/ Surroundings \/ Crash \/ Restart
BY DEF Next, Approval, CallStep, Surroundings, Proposing, Rejecting, Claiming, Rechecking,
   Starting, Running, Ending

\* Types: a verdict that is written is a final one.
LEMMA TypeStep ==
  ASSUME TypeOK, VerdictOfCall, [Next]_vars
  PROVE  TypeOK'
<1> USE ConstantsAssumption DEF TypeOK, VerdictOfCall, Places, Consuming, Locked,
      ProposalStatus, RunStatus, Events, Results, InFlight, Finished, Void, WritesOn, Kinds
<1>1. ASSUME NEW c \in Calls, NEW p \in Proposals, CallStep(c, p)
      PROVE  TypeOK'
  <2> USE DEF At, Open, Move, SetStatus, RecordAll, Record, Return, Forget, Decide, rows,
        local, process, environment
  <2>1. CASE Proposing(c, p)
    <3>1. CASE Propose(c, p)
      BY <3>1 DEF Propose
    <3>2. CASE RecordProposed(c, p)
      BY <3>2 DEF RecordProposed
    <3>3. CASE Click(c, p)
      BY <3>3 DEF Click
    <3> QED
      BY <2>1, <3>1, <3>2, <3>3 DEF Proposing
  <2>2. CASE Rejecting(c, p)
    <3>1. CASE RejectRow(c, p)
      BY <3>1 DEF RejectRow
    <3>2. CASE RejectNothing(c, p)
      BY <3>2 DEF RejectNothing
    <3>3. CASE RecordRejected(c, p)
      BY <3>3 DEF RecordRejected
    <3> QED
      BY <2>2, <3>1, <3>2, <3>3 DEF Rejecting
  <2>3. CASE Claiming(c, p)
    <3>1. CASE Claim(c, p)
      BY <3>1 DEF Claim
    <3>2. CASE ClaimNothing(c, p)
      BY <3>2 DEF ClaimNothing
    <3>3. CASE RecordApproved(c, p)
      BY <3>3 DEF RecordApproved
    <3>4. CASE Lock(c, p)
      BY <3>4 DEF Lock
    <3> QED
      BY <2>3, <3>1, <3>2, <3>3, <3>4 DEF Claiming
  <2>4. CASE Rechecking(c, p)
    <3>1. CASE Collect(c, p)
      BY <3>1 DEF Collect
    <3>2. CASE RecordRecheck(c, p)
      BY <3>2 DEF RecordRecheck
    <3>3. CASE Invalidate(c, p)
      BY <3>3 DEF Invalidate
    <3>4. CASE RecordInvalidated(c, p)
      BY <3>4 DEF RecordInvalidated
    <3> QED
      BY <2>4, <3>1, <3>2, <3>3, <3>4 DEF Rechecking
  <2>5. CASE Starting(c, p)
    <3>1. CASE CreateRun(c, p)
      BY <3>1 DEF CreateRun
    <3>2. CASE SetExecuting(c, p)
      BY <3>2 DEF SetExecuting
    <3>3. CASE RecordExecuting(c, p)
      BY <3>3 DEF RecordExecuting
    <3>4. CASE RefuseReboot(c, p)
      BY <3>4 DEF RefuseReboot
    <3> QED
      BY <2>5, <3>1, <3>2, <3>3, <3>4 DEF Starting
  <2>6. CASE Running(c, p)
    <3>1. CASE Dispatch(c, p)
      BY <3>1 DEF Dispatch
    <3>2. CASE Answer(c, p)
      BY <3>2 DEF Answer
    <3>3. CASE RecordDispatched(c, p)
      <4>1. audit' \in [Proposals -> SUBSET Events]
        BY <3>3 DEF RecordDispatched, Events
      <4>2. verdict' \in [Calls -> {"PENDING"} \cup Finished]
        BY <3>3 DEF RecordDispatched, Finished
      <4>3. pc' \in [Calls -> Places]
        <5>1. pc' = [pc EXCEPT ![c] = "finish"] \/ pc' = [pc EXCEPT ![c] = "verifying"]
          BY <3>3 DEF RecordDispatched
        <5> QED
          BY <5>1
      <4> QED
        BY <3>3, <4>1, <4>2, <4>3 DEF RecordDispatched
    <3>4. CASE RecordVerifying(c, p)
      BY <3>4 DEF RecordVerifying
    <3>5. CASE Verify(c, p)
      BY <3>5 DEF Verify
    <3> QED
      BY <2>6, <3>1, <3>2, <3>3, <3>4, <3>5 DEF Running
  <2>7. CASE Ending(c, p)
    <3>1. CASE FinishRun(c, p)
      BY <3>1 DEF FinishRun
    <3>2. CASE Settle(c, p)
      BY <3>2 DEF Settle
    <3>3. CASE Report(c, p)
      BY <3>3 DEF Report
    <3> QED
      BY <2>7, <3>1, <3>2, <3>3 DEF Ending
  <2>8. CASE Raise(c, p)
    BY <2>8 DEF Raise
  <2>9. QED
    BY <1>1, <2>1, <2>2, <2>3, <2>4, <2>5, <2>6, <2>7, <2>8 DEF CallStep
<1>2. CASE Surroundings
  BY <1>2 DEF Surroundings, StartReading, StopReading, Change, Expire, rows, local, process,
     environment
<1>3. CASE Crash
  BY <1>3 DEF Crash, ForgetAll, rows
<1>4. CASE Restart
  BY <1>4 DEF Restart, Reconciled, local
<1>5. CASE UNCHANGED vars
  BY <1>5 DEF vars, rows, local, process, environment
<1>6. QED
  BY <1>1, <1>2, <1>3, <1>4, <1>5, NextCases

\* Calls die with the process and are created with a proposal.
LEMMA CallsAliveStep ==
  ASSUME TypeOK, CallsAlive, [Next]_vars
  PROVE  CallsAlive'
<1> USE ConstantsAssumption DEF TypeOK, CallsAlive, Places, Consuming, Locked
<1>1. ASSUME NEW c \in Calls, NEW p \in Proposals, CallStep(c, p)
      PROVE  CallsAlive'
  <2> USE DEF At, Open, Move, SetStatus, RecordAll, Record, Return, Forget, Decide, rows,
        local, process, environment
  <2>1. CASE Proposing(c, p)
    BY <2>1 DEF Proposing, Propose, RecordProposed, Click
  <2>2. CASE Rejecting(c, p)
    <3>1. CASE RejectRow(c, p)
      BY <3>1 DEF RejectRow
    <3>2. CASE RejectNothing(c, p)
      BY <3>2 DEF RejectNothing
    <3>3. CASE RecordRejected(c, p)
      BY <3>3 DEF RecordRejected
    <3> QED
      BY <2>2, <3>1, <3>2, <3>3 DEF Rejecting
  <2>3. CASE Claiming(c, p)
    BY <2>3 DEF Claiming, Claim, ClaimNothing, RecordApproved, Lock
  <2>4. CASE Rechecking(c, p)
    BY <2>4 DEF Rechecking, Collect, RecordRecheck, Invalidate, RecordInvalidated
  <2>5. CASE Starting(c, p)
    BY <2>5 DEF Starting, CreateRun, SetExecuting, RecordExecuting, RefuseReboot
  <2>6. CASE Running(c, p)
    BY <2>6 DEF Running, Dispatch, Answer, RecordDispatched, RecordVerifying, Verify
  <2>7. CASE Ending(c, p)
    BY <2>7 DEF Ending, FinishRun, Settle, Report
  <2>8. CASE Raise(c, p)
    BY <2>8 DEF Raise
  <2>9. QED
    BY <1>1, <2>1, <2>2, <2>3, <2>4, <2>5, <2>6, <2>7, <2>8 DEF CallStep
<1>2. CASE Surroundings
  BY <1>2 DEF Surroundings, StartReading, StopReading, Change, Expire, rows, local, process,
     environment
<1>3. CASE Crash
  BY <1>3 DEF Crash, ForgetAll, rows
<1>4. CASE Restart
  BY <1>4 DEF Restart, Reconciled, local
<1>5. CASE UNCHANGED vars
  BY <1>5 DEF vars, rows, local, process, environment
<1>6. QED
  BY <1>1, <1>2, <1>3, <1>4, <1>5, NextCases

\* Only a PENDING proposal is claimed, and a call that consumes one left it otherwise.
LEMMA OneConsumerStep ==
  ASSUME TypeOK, CallsAlive, OneConsumer, RowsOfCall, VerdictOfCall, [Next]_vars
  PROVE  OneConsumer'
<1> USE ConstantsAssumption DEF TypeOK, CallsAlive, OneConsumer, RowsOfCall, VerdictOfCall,
      Places, Consuming, Locked, InFlight, Finished, Void
<1>1. ASSUME NEW c \in Calls, NEW p \in Proposals, CallStep(c, p)
      PROVE  OneConsumer'
  <2> USE DEF At, Open, Move, SetStatus, RecordAll, Record, Return, Forget, Decide, rows,
        local, process, environment
  <2>1. CASE Proposing(c, p)
    BY <2>1 DEF Proposing, Propose, RecordProposed, Click
  <2>2. CASE Rejecting(c, p)
    BY <2>2 DEF Rejecting, RejectRow, RejectNothing, RecordRejected
  <2>3. CASE Claiming(c, p)
    <3>1. CASE Claim(c, p)
      BY <3>1 DEF Claim
    <3>2. CASE ClaimNothing(c, p)
      BY <3>2 DEF ClaimNothing
    <3>3. CASE RecordApproved(c, p)
      BY <3>3 DEF RecordApproved
    <3>4. CASE Lock(c, p)
      BY <3>4 DEF Lock
    <3> QED
      BY <2>3, <3>1, <3>2, <3>3, <3>4 DEF Claiming
  <2>4. CASE Rechecking(c, p)
    BY <2>4 DEF Rechecking, Collect, RecordRecheck, Invalidate, RecordInvalidated
  <2>5. CASE Starting(c, p)
    BY <2>5 DEF Starting, CreateRun, SetExecuting, RecordExecuting, RefuseReboot
  <2>6. CASE Running(c, p)
    BY <2>6 DEF Running, Dispatch, Answer, RecordDispatched, RecordVerifying, Verify
  <2>7. CASE Ending(c, p)
    BY <2>7 DEF Ending, FinishRun, Settle, Report
  <2>8. CASE Raise(c, p)
    BY <2>8 DEF Raise
  <2>9. QED
    BY <1>1, <2>1, <2>2, <2>3, <2>4, <2>5, <2>6, <2>7, <2>8 DEF CallStep
<1>2. CASE Surroundings
  BY <1>2 DEF Surroundings, StartReading, StopReading, Change, Expire, rows, local, process,
     environment
<1>3. CASE Crash
  BY <1>3 DEF Crash, ForgetAll, rows
<1>4. CASE Restart
  BY <1>4 DEF Restart, Reconciled, local
<1>5. CASE UNCHANGED vars
  BY <1>5 DEF vars, rows, local, process, environment
<1>6. QED
  BY <1>1, <1>2, <1>3, <1>4, <1>5, NextCases

\* The lock is granted to one.
LEMMA HostAloneStep ==
  ASSUME TypeOK, CallsAlive, HostAlone, [Next]_vars
  PROVE  HostAlone'
<1> USE ConstantsAssumption DEF TypeOK, CallsAlive, HostAlone, Places, Consuming, Locked,
      WriteAdmissible, ReadAdmissible, Holder, Waiter
<1>1. ASSUME NEW c \in Calls, NEW p \in Proposals, CallStep(c, p)
      PROVE  HostAlone'
  <2> USE DEF At, Open, Move, SetStatus, RecordAll, Record, Return, Forget, Decide, rows,
        local, process, environment
  <2>1. CASE Proposing(c, p)
    <3>1. CASE Propose(c, p)
      BY <3>1 DEF Propose
    <3>2. CASE RecordProposed(c, p)
      BY <3>2 DEF RecordProposed
    <3>3. CASE Click(c, p)
      BY <3>3 DEF Click
    <3> QED
      BY <2>1, <3>1, <3>2, <3>3 DEF Proposing
  <2>2. CASE Rejecting(c, p)
    <3>1. CASE RejectRow(c, p)
      BY <3>1 DEF RejectRow
    <3>2. CASE RejectNothing(c, p)
      BY <3>2 DEF RejectNothing
    <3>3. CASE RecordRejected(c, p)
      BY <3>3 DEF RecordRejected
    <3> QED
      BY <2>2, <3>1, <3>2, <3>3 DEF Rejecting
  <2>3. CASE Claiming(c, p)
    BY <2>3 DEF Claiming, Claim, ClaimNothing, RecordApproved, Lock
  <2>4. CASE Rechecking(c, p)
    BY <2>4 DEF Rechecking, Collect, RecordRecheck, Invalidate, RecordInvalidated
  <2>5. CASE Starting(c, p)
    BY <2>5 DEF Starting, CreateRun, SetExecuting, RecordExecuting, RefuseReboot
  <2>6. CASE Running(c, p)
    BY <2>6 DEF Running, Dispatch, Answer, RecordDispatched, RecordVerifying, Verify
  <2>7. CASE Ending(c, p)
    BY <2>7 DEF Ending, FinishRun, Settle, Report
  <2>8. CASE Raise(c, p)
    BY <2>8 DEF Raise
  <2>9. QED
    BY <1>1, <2>1, <2>2, <2>3, <2>4, <2>5, <2>6, <2>7, <2>8 DEF CallStep
<1>2. CASE Surroundings
  BY <1>2 DEF Surroundings, StartReading, StopReading, Change, Expire, rows, local, process,
     environment
<1>3. CASE Crash
  BY <1>3 DEF Crash, ForgetAll, rows
<1>4. CASE Restart
  BY <1>4 DEF Restart, Reconciled, local
<1>5. CASE UNCHANGED vars
  BY <1>5 DEF vars, rows, local, process, environment
<1>6. QED
  BY <1>1, <1>2, <1>3, <1>4, <1>5, NextCases

\* Nobody else touches the rows of a proposal a call consumes.
LEMMA RowsOfCallStep ==
  ASSUME TypeOK, CallsAlive, OneConsumer, RowsOfCall, RowsAlone, VerdictOfCall, [Next]_vars
  PROVE  RowsOfCall'
<1> USE ConstantsAssumption DEF TypeOK, CallsAlive, OneConsumer, RowsOfCall, RowsAlone,
      VerdictOfCall, Places, Consuming, Locked, InFlight, Finished, Void
<1>1. ASSUME NEW c \in Calls, NEW p \in Proposals, CallStep(c, p)
      PROVE  RowsOfCall'
  <2> USE DEF At, Open, Move, SetStatus, RecordAll, Record, Return, Forget, Decide, rows,
        local, process, environment
  <2>1. CASE Proposing(c, p)
    BY <2>1 DEF Proposing, Propose, RecordProposed, Click
  <2>2. CASE Rejecting(c, p)
    BY <2>2 DEF Rejecting, RejectRow, RejectNothing, RecordRejected
  <2>3. CASE Claiming(c, p)
    BY <2>3 DEF Claiming, Claim, ClaimNothing, RecordApproved, Lock
  <2>4. CASE Rechecking(c, p)
    BY <2>4 DEF Rechecking, Collect, RecordRecheck, Invalidate, RecordInvalidated
  <2>5. CASE Starting(c, p)
    BY <2>5 DEF Starting, CreateRun, SetExecuting, RecordExecuting, RefuseReboot
  <2>6. CASE Running(c, p)
    BY <2>6 DEF Running, Dispatch, Answer, RecordDispatched, RecordVerifying, Verify
  <2>7. CASE Ending(c, p)
    BY <2>7 DEF Ending, FinishRun, Settle, Report
  <2>8. CASE Raise(c, p)
    BY <2>8 DEF Raise
  <2>9. QED
    BY <1>1, <2>1, <2>2, <2>3, <2>4, <2>5, <2>6, <2>7, <2>8 DEF CallStep
<1>2. CASE Surroundings
  BY <1>2 DEF Surroundings, StartReading, StopReading, Change, Expire, rows, local, process,
     environment
<1>3. CASE Crash
  BY <1>3 DEF Crash, ForgetAll, rows
<1>4. CASE Restart
  BY <1>4 DEF Restart, Reconciled, local
<1>5. CASE UNCHANGED vars
  BY <1>5 DEF vars, rows, local, process, environment
<1>6. QED
  BY <1>1, <1>2, <1>3, <1>4, <1>5, NextCases

\* Nor its trail.
LEMMA TrailOfCallStep ==
  ASSUME TypeOK, CallsAlive, OneConsumer, RowsOfCall, TrailOfCall, CommandAuthorised,
     [Next]_vars
  PROVE  TrailOfCall'
<1> USE ConstantsAssumption DEF TypeOK, CallsAlive, OneConsumer, RowsOfCall, TrailOfCall,
      CommandAuthorised, Sent, Judged, Places, Consuming, Locked, InFlight, Finished, Void
<1>1. ASSUME NEW c \in Calls, NEW p \in Proposals, CallStep(c, p)
      PROVE  TrailOfCall'
  <2> USE DEF At, Open, Move, SetStatus, RecordAll, Record, Return, Forget, Decide, rows,
        local, process, environment
  <2>1. CASE Proposing(c, p)
    <3>1. CASE Propose(c, p)
      BY <3>1 DEF Propose
    <3>2. CASE RecordProposed(c, p)
      BY <3>2 DEF RecordProposed
    <3>3. CASE Click(c, p)
      BY <3>3 DEF Click
    <3> QED
      BY <2>1, <3>1, <3>2, <3>3 DEF Proposing
  <2>2. CASE Rejecting(c, p)
    <3>1. CASE RejectRow(c, p)
      BY <3>1 DEF RejectRow
    <3>2. CASE RejectNothing(c, p)
      BY <3>2 DEF RejectNothing
    <3>3. CASE RecordRejected(c, p)
      BY <3>3 DEF RecordRejected
    <3> QED
      BY <2>2, <3>1, <3>2, <3>3 DEF Rejecting
  <2>3. CASE Claiming(c, p)
    <3>1. CASE Claim(c, p)
      <4>1. sent[p] = 0 /\ sent' = sent /\ audit' = audit /\ target' = target
        BY <3>1 DEF Claim
      <4>2. \A d \in Calls \ {c} : pc'[d] = pc[d]
        BY <3>1 DEF Claim
      <4>3. pc'[c] = "approved" /\ target[c] = p
        BY <3>1 DEF Claim
      <4> QED
        BY <4>1, <4>2, <4>3
    <3>2. CASE ClaimNothing(c, p)
      BY <3>2 DEF ClaimNothing
    <3>3. CASE RecordApproved(c, p)
      BY <3>3 DEF RecordApproved
    <3>4. CASE Lock(c, p)
      BY <3>4 DEF Lock
    <3> QED
      BY <2>3, <3>1, <3>2, <3>3, <3>4 DEF Claiming
  <2>4. CASE Rechecking(c, p)
    BY <2>4 DEF Rechecking, Collect, RecordRecheck, Invalidate, RecordInvalidated
  <2>5. CASE Starting(c, p)
    BY <2>5 DEF Starting, CreateRun, SetExecuting, RecordExecuting, RefuseReboot
  <2>6. CASE Running(c, p)
    BY <2>6 DEF Running, Dispatch, Answer, RecordDispatched, RecordVerifying, Verify
  <2>7. CASE Ending(c, p)
    BY <2>7 DEF Ending, FinishRun, Settle, Report
  <2>8. CASE Raise(c, p)
    BY <2>8 DEF Raise
  <2>9. QED
    BY <1>1, <2>1, <2>2, <2>3, <2>4, <2>5, <2>6, <2>7, <2>8 DEF CallStep
<1>2. CASE Surroundings
  BY <1>2 DEF Surroundings, StartReading, StopReading, Change, Expire, rows, local, process,
     environment
<1>3. CASE Crash
  BY <1>3 DEF Crash, ForgetAll, rows
<1>4. CASE Restart
  BY <1>4 DEF Restart, Reconciled, local
<1>5. CASE UNCHANGED vars
  BY <1>5 DEF vars, rows, local, process, environment
<1>6. QED
  BY <1>1, <1>2, <1>3, <1>4, <1>5, NextCases

\* No command reaches the host between the preflight of a call and its dispatch.
LEMMA SightOfCallStep ==
  ASSUME TypeOK, CallsAlive, OneConsumer, HostAlone, RowsOfCall, SightOfCall, [Next]_vars
  PROVE  SightOfCall'
<1> USE ConstantsAssumption DEF TypeOK, CallsAlive, OneConsumer, HostAlone, RowsOfCall,
      SightOfCall, Collected, Judged, WritesOn, Acceptable, Places, Consuming, Locked
<1>1. ASSUME NEW c \in Calls, NEW p \in Proposals, CallStep(c, p)
      PROVE  SightOfCall'
  <2> USE DEF At, Open, Move, SetStatus, RecordAll, Record, Return, Forget, Decide, rows,
        local, process, environment
  <2>1. CASE Proposing(c, p)
    <3>1. CASE Propose(c, p)
      BY <3>1 DEF Propose
    <3>2. CASE RecordProposed(c, p)
      BY <3>2 DEF RecordProposed
    <3>3. CASE Click(c, p)
      BY <3>3 DEF Click
    <3> QED
      BY <2>1, <3>1, <3>2, <3>3 DEF Proposing
  <2>2. CASE Rejecting(c, p)
    BY <2>2 DEF Rejecting, RejectRow, RejectNothing, RecordRejected
  <2>3. CASE Claiming(c, p)
    BY <2>3 DEF Claiming, Claim, ClaimNothing, RecordApproved, Lock
  <2>4. CASE Rechecking(c, p)
    BY <2>4 DEF Rechecking, Collect, RecordRecheck, Invalidate, RecordInvalidated
  <2>5. CASE Starting(c, p)
    BY <2>5 DEF Starting, CreateRun, SetExecuting, RecordExecuting, RefuseReboot
  <2>6. CASE Running(c, p)
    <3>1. CASE Dispatch(c, p)
      BY <3>1 DEF Dispatch
    <3>2. CASE Answer(c, p)
      BY <3>2 DEF Answer
    <3>3. CASE RecordDispatched(c, p)
      BY <3>3 DEF RecordDispatched
    <3>4. CASE RecordVerifying(c, p)
      BY <3>4 DEF RecordVerifying
    <3>5. CASE Verify(c, p)
      BY <3>5 DEF Verify
    <3> QED
      BY <2>6, <3>1, <3>2, <3>3, <3>4, <3>5 DEF Running
  <2>7. CASE Ending(c, p)
    BY <2>7 DEF Ending, FinishRun, Settle, Report
  <2>8. CASE Raise(c, p)
    BY <2>8 DEF Raise
  <2>9. QED
    BY <1>1, <2>1, <2>2, <2>3, <2>4, <2>5, <2>6, <2>7, <2>8 DEF CallStep
<1>2. CASE Surroundings
  BY <1>2 DEF Surroundings, StartReading, StopReading, Change, Expire, rows, local, process,
     environment
<1>3. CASE Crash
  BY <1>3 DEF Crash, ForgetAll, rows
<1>4. CASE Restart
  BY <1>4 DEF Restart, Reconciled, local
<1>5. CASE UNCHANGED vars
  BY <1>5 DEF vars, rows, local, process, environment
<1>6. QED
  BY <1>1, <1>2, <1>3, <1>4, <1>5, NextCases

\* The command of a proposal is answered to its one call.
LEMMA VerdictOfCallStep ==
  ASSUME TypeOK, CallsAlive, OneConsumer, VerdictOfCall, [Next]_vars
  PROVE  VerdictOfCall'
<1> USE ConstantsAssumption DEF TypeOK, CallsAlive, OneConsumer, VerdictOfCall, Successes,
      Places, Consuming, Locked, Finished
<1>1. ASSUME NEW c \in Calls, NEW p \in Proposals, CallStep(c, p)
      PROVE  VerdictOfCall'
  <2> USE DEF At, Open, Move, SetStatus, RecordAll, Record, Return, Forget, Decide, rows,
        local, process, environment
  <2>1. CASE Proposing(c, p)
    <3>1. CASE Propose(c, p)
      BY <3>1 DEF Propose
    <3>2. CASE RecordProposed(c, p)
      BY <3>2 DEF RecordProposed
    <3>3. CASE Click(c, p)
      BY <3>3 DEF Click
    <3> QED
      BY <2>1, <3>1, <3>2, <3>3 DEF Proposing
  <2>2. CASE Rejecting(c, p)
    BY <2>2 DEF Rejecting, RejectRow, RejectNothing, RecordRejected
  <2>3. CASE Claiming(c, p)
    BY <2>3 DEF Claiming, Claim, ClaimNothing, RecordApproved, Lock
  <2>4. CASE Rechecking(c, p)
    BY <2>4 DEF Rechecking, Collect, RecordRecheck, Invalidate, RecordInvalidated
  <2>5. CASE Starting(c, p)
    BY <2>5 DEF Starting, CreateRun, SetExecuting, RecordExecuting, RefuseReboot
  <2>6. CASE Running(c, p)
    BY <2>6 DEF Running, Dispatch, Answer, RecordDispatched, RecordVerifying, Verify
  <2>7. CASE Ending(c, p)
    BY <2>7 DEF Ending, FinishRun, Settle, Report
  <2>8. CASE Raise(c, p)
    BY <2>8 DEF Raise
  <2>9. QED
    BY <1>1, <2>1, <2>2, <2>3, <2>4, <2>5, <2>6, <2>7, <2>8 DEF CallStep
<1>2. CASE Surroundings
  BY <1>2 DEF Surroundings, StartReading, StopReading, Change, Expire, rows, local, process,
     environment
<1>3. CASE Crash
  BY <1>3 DEF Crash, ForgetAll, rows
<1>4. CASE Restart
  BY <1>4 DEF Restart, Reconciled, local
<1>5. CASE UNCHANGED vars
  BY <1>5 DEF vars, rows, local, process, environment
<1>6. QED
  BY <1>1, <1>2, <1>3, <1>4, <1>5, NextCases

\* Unclaimed rows stay blank.
LEMMA RowsAloneStep ==
  ASSUME TypeOK, CallsAlive, RowsOfCall, TrailOfCall, VerdictOfCall, RowsAlone, LedgerAgrees,
     [Next]_vars
  PROVE  RowsAlone'
<1> USE ConstantsAssumption DEF TypeOK, CallsAlive, RowsOfCall, TrailOfCall, Sent,
      VerdictOfCall, RowsAlone, LedgerAgrees, Places, Consuming, Locked, InFlight, Finished,
      Void
<1>1. ASSUME NEW c \in Calls, NEW p \in Proposals, CallStep(c, p)
      PROVE  RowsAlone'
  <2> USE DEF At, Open, Move, SetStatus, RecordAll, Record, Return, Forget, Decide, rows,
        local, process, environment
  <2>1. CASE Proposing(c, p)
    <3>1. CASE Propose(c, p)
      BY <3>1 DEF Propose
    <3>2. CASE RecordProposed(c, p)
      BY <3>2 DEF RecordProposed
    <3>3. CASE Click(c, p)
      BY <3>3 DEF Click
    <3> QED
      BY <2>1, <3>1, <3>2, <3>3 DEF Proposing
  <2>2. CASE Rejecting(c, p)
    BY <2>2 DEF Rejecting, RejectRow, RejectNothing, RecordRejected
  <2>3. CASE Claiming(c, p)
    BY <2>3 DEF Claiming, Claim, ClaimNothing, RecordApproved, Lock
  <2>4. CASE Rechecking(c, p)
    BY <2>4 DEF Rechecking, Collect, RecordRecheck, Invalidate, RecordInvalidated
  <2>5. CASE Starting(c, p)
    BY <2>5 DEF Starting, CreateRun, SetExecuting, RecordExecuting, RefuseReboot
  <2>6. CASE Running(c, p)
    <3>1. CASE Dispatch(c, p)
      BY <3>1 DEF Dispatch
    <3>2. CASE Answer(c, p)
      BY <3>2 DEF Answer
    <3>3. CASE RecordDispatched(c, p)
      BY <3>3 DEF RecordDispatched
    <3>4. CASE RecordVerifying(c, p)
      BY <3>4 DEF RecordVerifying
    <3>5. CASE Verify(c, p)
      BY <3>5 DEF Verify
    <3> QED
      BY <2>6, <3>1, <3>2, <3>3, <3>4, <3>5 DEF Running
  <2>7. CASE Ending(c, p)
    BY <2>7 DEF Ending, FinishRun, Settle, Report
  <2>8. CASE Raise(c, p)
    BY <2>8 DEF Raise
  <2>9. QED
    BY <1>1, <2>1, <2>2, <2>3, <2>4, <2>5, <2>6, <2>7, <2>8 DEF CallStep
<1>2. CASE Surroundings
  BY <1>2 DEF Surroundings, StartReading, StopReading, Change, Expire, rows, local, process,
     environment
<1>3. CASE Crash
  BY <1>3 DEF Crash, ForgetAll, rows
<1>4. CASE Restart
  BY <1>4 DEF Restart, Reconciled, local
<1>5. CASE UNCHANGED vars
  BY <1>5 DEF vars, rows, local, process, environment
<1>6. QED
  BY <1>1, <1>2, <1>3, <1>4, <1>5, NextCases

\* A command is sent by a call that has recorded everything before.
LEMMA CommandAuthorisedStep ==
  ASSUME TypeOK, CallsAlive, RowsOfCall, TrailOfCall, VerdictOfCall, CommandAuthorised,
     [Next]_vars
  PROVE  CommandAuthorised'
<1> USE ConstantsAssumption DEF TypeOK, CallsAlive, RowsOfCall, TrailOfCall, VerdictOfCall,
      CommandAuthorised, Sent, Judged, Places, Consuming, Locked, InFlight, Finished, Void
<1>1. ASSUME NEW c \in Calls, NEW p \in Proposals, CallStep(c, p)
      PROVE  CommandAuthorised'
  <2> USE DEF At, Open, Move, SetStatus, RecordAll, Record, Return, Forget, Decide, rows,
        local, process, environment
  <2>1. CASE Proposing(c, p)
    BY <2>1 DEF Proposing, Propose, RecordProposed, Click
  <2>2. CASE Rejecting(c, p)
    BY <2>2 DEF Rejecting, RejectRow, RejectNothing, RecordRejected
  <2>3. CASE Claiming(c, p)
    BY <2>3 DEF Claiming, Claim, ClaimNothing, RecordApproved, Lock
  <2>4. CASE Rechecking(c, p)
    BY <2>4 DEF Rechecking, Collect, RecordRecheck, Invalidate, RecordInvalidated
  <2>5. CASE Starting(c, p)
    BY <2>5 DEF Starting, CreateRun, SetExecuting, RecordExecuting, RefuseReboot
  <2>6. CASE Running(c, p)
    <3>1. CASE Dispatch(c, p)
      BY <3>1 DEF Dispatch
    <3>2. CASE Answer(c, p)
      BY <3>2 DEF Answer
    <3>3. CASE RecordDispatched(c, p)
      BY <3>3 DEF RecordDispatched
    <3>4. CASE RecordVerifying(c, p)
      BY <3>4 DEF RecordVerifying
    <3>5. CASE Verify(c, p)
      BY <3>5 DEF Verify
    <3> QED
      BY <2>6, <3>1, <3>2, <3>3, <3>4, <3>5 DEF Running
  <2>7. CASE Ending(c, p)
    BY <2>7 DEF Ending, FinishRun, Settle, Report
  <2>8. CASE Raise(c, p)
    BY <2>8 DEF Raise
  <2>9. QED
    BY <1>1, <2>1, <2>2, <2>3, <2>4, <2>5, <2>6, <2>7, <2>8 DEF CallStep
<1>2. CASE Surroundings
  BY <1>2 DEF Surroundings, StartReading, StopReading, Change, Expire, rows, local, process,
     environment
<1>3. CASE Crash
  BY <1>3 DEF Crash, ForgetAll, rows
<1>4. CASE Restart
  BY <1>4 DEF Restart, Reconciled, local
<1>5. CASE UNCHANGED vars
  BY <1>5 DEF vars, rows, local, process, environment
<1>6. QED
  BY <1>1, <1>2, <1>3, <1>4, <1>5, NextCases

\* Events follow the rows they speak of.
LEMMA AuditTruthfulStep ==
  ASSUME TypeOK, CallsAlive, RowsOfCall, TrailOfCall, VerdictOfCall, RowsAlone, AuditTruthful,
     [Next]_vars
  PROVE  AuditTruthful'
<1> USE ConstantsAssumption DEF TypeOK, CallsAlive, RowsOfCall, TrailOfCall, VerdictOfCall,
      RowsAlone, AuditTruthful, Sent, Places, Consuming, Locked, InFlight, Finished, Void
<1>1. ASSUME NEW c \in Calls, NEW p \in Proposals, CallStep(c, p)
      PROVE  AuditTruthful'
  <2> USE DEF At, Open, Move, SetStatus, RecordAll, Record, Return, Forget, Decide, rows,
        local, process, environment
  <2>1. CASE Proposing(c, p)
    <3>1. CASE Propose(c, p)
      BY <3>1 DEF Propose
    <3>2. CASE RecordProposed(c, p)
      BY <3>2 DEF RecordProposed
    <3>3. CASE Click(c, p)
      BY <3>3 DEF Click
    <3> QED
      BY <2>1, <3>1, <3>2, <3>3 DEF Proposing
  <2>2. CASE Rejecting(c, p)
    BY <2>2 DEF Rejecting, RejectRow, RejectNothing, RecordRejected
  <2>3. CASE Claiming(c, p)
    BY <2>3 DEF Claiming, Claim, ClaimNothing, RecordApproved, Lock
  <2>4. CASE Rechecking(c, p)
    BY <2>4 DEF Rechecking, Collect, RecordRecheck, Invalidate, RecordInvalidated
  <2>5. CASE Starting(c, p)
    BY <2>5 DEF Starting, CreateRun, SetExecuting, RecordExecuting, RefuseReboot
  <2>6. CASE Running(c, p)
    <3>1. CASE Dispatch(c, p)
      BY <3>1 DEF Dispatch
    <3>2. CASE Answer(c, p)
      BY <3>2 DEF Answer
    <3>3. CASE RecordDispatched(c, p)
      BY <3>3 DEF RecordDispatched
    <3>4. CASE RecordVerifying(c, p)
      BY <3>4 DEF RecordVerifying
    <3>5. CASE Verify(c, p)
      BY <3>5 DEF Verify
    <3> QED
      BY <2>6, <3>1, <3>2, <3>3, <3>4, <3>5 DEF Running
  <2>7. CASE Ending(c, p)
    BY <2>7 DEF Ending, FinishRun, Settle, Report
  <2>8. CASE Raise(c, p)
    BY <2>8 DEF Raise
  <2>9. QED
    BY <1>1, <2>1, <2>2, <2>3, <2>4, <2>5, <2>6, <2>7, <2>8 DEF CallStep
<1>2. CASE Surroundings
  BY <1>2 DEF Surroundings, StartReading, StopReading, Change, Expire, rows, local, process,
     environment
<1>3. CASE Crash
  BY <1>3 DEF Crash, ForgetAll, rows
<1>4. CASE Restart
  BY <1>4 DEF Restart, Reconciled, local
<1>5. CASE UNCHANGED vars
  BY <1>5 DEF vars, rows, local, process, environment
<1>6. QED
  BY <1>1, <1>2, <1>3, <1>4, <1>5, NextCases

\* finish_action_run, then set_proposal_status, by the same call.
LEMMA LedgerAgreesStep ==
  ASSUME TypeOK, CallsAlive, OneConsumer, RowsOfCall, VerdictOfCall, RowsAlone, LedgerAgrees,
     [Next]_vars
  PROVE  LedgerAgrees'
<1> USE ConstantsAssumption DEF TypeOK, CallsAlive, OneConsumer, RowsOfCall, VerdictOfCall,
      RowsAlone, LedgerAgrees, Places, Consuming, Locked, InFlight, Finished, Void
<1>1. ASSUME NEW c \in Calls, NEW p \in Proposals, CallStep(c, p)
      PROVE  LedgerAgrees'
  <2> USE DEF At, Open, Move, SetStatus, RecordAll, Record, Return, Forget, Decide, rows,
        local, process, environment
  <2>1. CASE Proposing(c, p)
    <3>1. CASE Propose(c, p)
      BY <3>1 DEF Propose
    <3>2. CASE RecordProposed(c, p)
      BY <3>2 DEF RecordProposed
    <3>3. CASE Click(c, p)
      BY <3>3 DEF Click
    <3> QED
      BY <2>1, <3>1, <3>2, <3>3 DEF Proposing
  <2>2. CASE Rejecting(c, p)
    <3>1. CASE RejectRow(c, p)
      BY <3>1 DEF RejectRow
    <3>2. CASE RejectNothing(c, p)
      BY <3>2 DEF RejectNothing
    <3>3. CASE RecordRejected(c, p)
      BY <3>3 DEF RecordRejected
    <3> QED
      BY <2>2, <3>1, <3>2, <3>3 DEF Rejecting
  <2>3. CASE Claiming(c, p)
    <3>1. CASE Claim(c, p)
      BY <3>1 DEF Claim
    <3>2. CASE ClaimNothing(c, p)
      BY <3>2 DEF ClaimNothing
    <3>3. CASE RecordApproved(c, p)
      BY <3>3 DEF RecordApproved
    <3>4. CASE Lock(c, p)
      BY <3>4 DEF Lock
    <3> QED
      BY <2>3, <3>1, <3>2, <3>3, <3>4 DEF Claiming
  <2>4. CASE Rechecking(c, p)
    <3>1. CASE Collect(c, p)
      BY <3>1 DEF Collect
    <3>2. CASE RecordRecheck(c, p)
      BY <3>2 DEF RecordRecheck
    <3>3. CASE Invalidate(c, p)
      BY <3>3 DEF Invalidate
    <3>4. CASE RecordInvalidated(c, p)
      BY <3>4 DEF RecordInvalidated
    <3> QED
      BY <2>4, <3>1, <3>2, <3>3, <3>4 DEF Rechecking
  <2>5. CASE Starting(c, p)
    BY <2>5 DEF Starting, CreateRun, SetExecuting, RecordExecuting, RefuseReboot
  <2>6. CASE Running(c, p)
    <3>1. CASE Dispatch(c, p)
      BY <3>1 DEF Dispatch
    <3>2. CASE Answer(c, p)
      BY <3>2 DEF Answer
    <3>3. CASE RecordDispatched(c, p)
      BY <3>3 DEF RecordDispatched
    <3>4. CASE RecordVerifying(c, p)
      BY <3>4 DEF RecordVerifying
    <3>5. CASE Verify(c, p)
      BY <3>5 DEF Verify
    <3> QED
      BY <2>6, <3>1, <3>2, <3>3, <3>4, <3>5 DEF Running
  <2>7. CASE Ending(c, p)
    BY <2>7 DEF Ending, FinishRun, Settle, Report
  <2>8. CASE Raise(c, p)
    BY <2>8 DEF Raise
  <2>9. QED
    BY <1>1, <2>1, <2>2, <2>3, <2>4, <2>5, <2>6, <2>7, <2>8 DEF CallStep
<1>2. CASE Surroundings
  BY <1>2 DEF Surroundings, StartReading, StopReading, Change, Expire, rows, local, process,
     environment
<1>3. CASE Crash
  BY <1>3 DEF Crash, ForgetAll, rows
<1>4. CASE Restart
  BY <1>4 DEF Restart, Reconciled, local
<1>5. CASE UNCHANGED vars
  BY <1>5 DEF vars, rows, local, process, environment
<1>6. QED
  BY <1>1, <1>2, <1>3, <1>4, <1>5, NextCases

\* The result of a command is not replaced once it is in the rows.
LEMMA SuccessEarnedStep ==
  ASSUME TypeOK, CallsAlive, RowsOfCall, VerdictOfCall, SuccessEarned, [Next]_vars
  PROVE  SuccessEarned'
<1> USE ConstantsAssumption DEF TypeOK, CallsAlive, RowsOfCall, VerdictOfCall, SuccessEarned,
      Successes, Places, Consuming, Locked, InFlight, Finished, Void
<1>1. ASSUME NEW c \in Calls, NEW p \in Proposals, CallStep(c, p)
      PROVE  SuccessEarned'
  <2> USE DEF At, Open, Move, SetStatus, RecordAll, Record, Return, Forget, Decide, rows,
        local, process, environment
  <2>1. CASE Proposing(c, p)
    BY <2>1 DEF Proposing, Propose, RecordProposed, Click
  <2>2. CASE Rejecting(c, p)
    BY <2>2 DEF Rejecting, RejectRow, RejectNothing, RecordRejected
  <2>3. CASE Claiming(c, p)
    BY <2>3 DEF Claiming, Claim, ClaimNothing, RecordApproved, Lock
  <2>4. CASE Rechecking(c, p)
    BY <2>4 DEF Rechecking, Collect, RecordRecheck, Invalidate, RecordInvalidated
  <2>5. CASE Starting(c, p)
    BY <2>5 DEF Starting, CreateRun, SetExecuting, RecordExecuting, RefuseReboot
  <2>6. CASE Running(c, p)
    BY <2>6 DEF Running, Dispatch, Answer, RecordDispatched, RecordVerifying, Verify
  <2>7. CASE Ending(c, p)
    BY <2>7 DEF Ending, FinishRun, Settle, Report
  <2>8. CASE Raise(c, p)
    BY <2>8 DEF Raise
  <2>9. QED
    BY <1>1, <2>1, <2>2, <2>3, <2>4, <2>5, <2>6, <2>7, <2>8 DEF CallStep
<1>2. CASE Surroundings
  BY <1>2 DEF Surroundings, StartReading, StopReading, Change, Expire, rows, local, process,
     environment
<1>3. CASE Crash
  BY <1>3 DEF Crash, ForgetAll, rows
<1>4. CASE Restart
  BY <1>4 DEF Restart, Reconciled, local
<1>5. CASE UNCHANGED vars
  BY <1>5 DEF vars, rows, local, process, environment
<1>6. QED
  BY <1>1, <1>2, <1>3, <1>4, <1>5, NextCases

\* A call moves itself and its proposal only.
LEMMA OthersKeep ==
  ASSUME TypeOK, NEW c \in Calls, NEW p \in Proposals, CallStep(c, p)
  PROVE  /\ \A d \in Calls \ {c} : pc'[d] = pc[d] /\ target'[d] = target[d]
         /\ \A q \in Proposals \ {p} : status'[q] = status[q] /\ run'[q] = run[q]
         /\ up' = up /\ config' = config /\ raised \subseteq raised'
<1> USE DEF TypeOK, At, Open, Move, SetStatus, RecordAll, Record, Return, Forget, Decide, rows,
      local, process, environment
<1>1. CASE Proposing(c, p)
  BY <1>1 DEF Proposing, Propose, RecordProposed, Click
<1>2. CASE Rejecting(c, p)
  BY <1>2 DEF Rejecting, RejectRow, RejectNothing, RecordRejected
<1>3. CASE Claiming(c, p)
  BY <1>3 DEF Claiming, Claim, ClaimNothing, RecordApproved, Lock
<1>4. CASE Rechecking(c, p)
  BY <1>4 DEF Rechecking, Collect, RecordRecheck, Invalidate, RecordInvalidated
<1>5. CASE Starting(c, p)
  BY <1>5 DEF Starting, CreateRun, SetExecuting, RecordExecuting, RefuseReboot
<1>6. CASE Running(c, p)
  BY <1>6 DEF Running, Dispatch, Answer, RecordDispatched, RecordVerifying, Verify
<1>7. CASE Ending(c, p)
  BY <1>7 DEF Ending, FinishRun, Settle, Report
<1>8. CASE Raise(c, p)
  BY <1>8 DEF Raise
<1>9. QED
  BY <1>1, <1>2, <1>3, <1>4, <1>5, <1>6, <1>7, <1>8 DEF CallStep

\* A call that is busy steps for its own proposal.
LEMMA TargetsOwn ==
  ASSUME TypeOK, NEW c \in Calls, NEW p \in Proposals, CallStep(c, p), pc[c] \in Consuming
  PROVE  target[c] = p
<1> USE DEF Consuming, Locked, At
<1>1. CASE Proposing(c, p)
  BY <1>1 DEF Proposing, Propose, RecordProposed, Click
<1>2. CASE Rejecting(c, p)
  BY <1>2 DEF Rejecting, RejectRow, RejectNothing, RecordRejected
<1>3. CASE Claiming(c, p)
  BY <1>3 DEF Claiming, Claim, ClaimNothing, RecordApproved, Lock
<1>4. CASE Rechecking(c, p)
  BY <1>4 DEF Rechecking, Collect, RecordRecheck, Invalidate, RecordInvalidated
<1>5. CASE Starting(c, p)
  BY <1>5 DEF Starting, CreateRun, SetExecuting, RecordExecuting, RefuseReboot
<1>6. CASE Running(c, p)
  BY <1>6 DEF Running, Dispatch, Answer, RecordDispatched, RecordVerifying, Verify
<1>7. CASE Ending(c, p)
  BY <1>7 DEF Ending, FinishRun, Settle, Report
<1>8. CASE Raise(c, p)
  BY <1>8 DEF Raise
<1>9. QED
  BY <1>1, <1>2, <1>3, <1>4, <1>5, <1>6, <1>7, <1>8 DEF CallStep

\* A call that ends without an exception leaves a status that is not in
\* flight; only a claim puts one there.
LEMMA OwnMoves ==
  ASSUME TypeOK, RowsOfCall, VerdictOfCall, NEW c \in Calls, NEW p \in Proposals, CallStep(c, p)
  PROVE  \/ target[c] = p /\ target'[c] = p /\ pc'[c] \in Consuming
         \/ pc[c] \notin Consuming /\ (status'[p] = status[p] \/ status'[p] \notin InFlight)
         \/ status'[p] \notin InFlight \/ p \in raised'
<1> USE DEF TypeOK, RowsOfCall, VerdictOfCall, Consuming, Locked, Finished, InFlight, At, Open,
      Move, SetStatus, RecordAll, Record, Return, Forget, Decide, rows, local, process,
      environment
<1>1. CASE Proposing(c, p)
  BY <1>1 DEF Proposing, Propose, RecordProposed, Click
<1>2. CASE Rejecting(c, p)
  BY <1>2 DEF Rejecting, RejectRow, RejectNothing, RecordRejected
<1>3. CASE Claiming(c, p)
  BY <1>3 DEF Claiming, Claim, ClaimNothing, RecordApproved, Lock
<1>4. CASE Rechecking(c, p)
  BY <1>4 DEF Rechecking, Collect, RecordRecheck, Invalidate, RecordInvalidated
<1>5. CASE Starting(c, p)
  BY <1>5 DEF Starting, CreateRun, SetExecuting, RecordExecuting, RefuseReboot
<1>6. CASE Running(c, p)
  BY <1>6 DEF Running, Dispatch, Answer, RecordDispatched, RecordVerifying, Verify
<1>7. CASE Ending(c, p)
  BY <1>7 DEF Ending, FinishRun, Settle, Report
<1>8. CASE Raise(c, p)
  BY <1>8 DEF Raise
<1>9. QED
  BY <1>1, <1>2, <1>3, <1>4, <1>5, <1>6, <1>7, <1>8 DEF CallStep

LEMMA InHandsStep ==
  ASSUME TypeOK, CallsAlive, RowsOfCall, VerdictOfCall, InHands, [Next]_vars
  PROVE  InHands'
<1> SUFFICES ASSUME NEW q \in Proposals, up', status'[q] \in InFlight, q \notin raised'
             PROVE  \E d \in Calls : pc'[d] \in Consuming /\ target'[d] = q
  BY DEF InHands
<1>1. ASSUME NEW c \in Calls, NEW p \in Proposals, CallStep(c, p)
      PROVE  \E d \in Calls : pc'[d] \in Consuming /\ target'[d] = q
  <2>1. up /\ q \notin raised
    BY <1>1, OthersKeep
  <2>2. CASE \E d \in Calls \ {c} : pc[d] \in Consuming /\ target[d] = q
    BY <1>1, <2>2, OthersKeep
  <2>3. CASE ~\E d \in Calls \ {c} : pc[d] \in Consuming /\ target[d] = q
    <3>1. CASE target'[c] = q /\ pc'[c] \in Consuming
      BY <3>1
    <3>2. CASE q = p /\ pc[c] \notin Consuming /\ status'[q] = status[q]
      BY <2>1, <2>3, <3>2 DEF InHands
    <3>3. CASE q # p
      <4>1. status[q] \in InFlight
        BY <1>1, <3>3, OthersKeep
      <4>2. target[c] = q /\ pc[c] \in Consuming
        BY <2>1, <2>3, <4>1 DEF InHands
      <4>3. QED
        BY <1>1, <3>3, <4>2, TargetsOwn
    <3>4. QED
      BY <1>1, <3>1, <3>2, <3>3, OwnMoves
  <2>4. QED
    BY <2>2, <2>3
<1>2. CASE Surroundings \/ UNCHANGED vars
  <2>1. up /\ status[q] \in InFlight /\ q \notin raised /\ UNCHANGED <<pc, target>>
    BY <1>2 DEF Surroundings, StartReading, StopReading, Change, Expire, vars, rows, local,
       process, environment
  <2>2. QED
    BY <2>1 DEF InHands
<1>3. CASE Crash
  BY <1>3 DEF Crash
<1>4. CASE Restart
  BY <1>4 DEF Restart, Reconciled, TypeOK, ProposalStatus, InFlight, Finished, Void
<1>5. QED
  BY <1>1, <1>2, <1>3, <1>4, NextCases

\* set_proposal_status overwrites no final status.
LEMMA TerminalStep ==
  ASSUME TypeOK, RowsOfCall, VerdictOfCall, [Next]_vars,
         NEW q \in Proposals, status[q] \in Finished \cup Void
  PROVE  status'[q] = status[q]
<1> USE DEF TypeOK, RowsOfCall, VerdictOfCall, InFlight, Finished, Void
<1>1. ASSUME NEW c \in Calls, NEW p \in Proposals, CallStep(c, p)
      PROVE  status'[q] = status[q]
  <2> USE DEF At, Open, Move, SetStatus, RecordAll, Record, Return, Forget, Decide, rows,
        local, process, environment
<2>1. CASE Proposing(c, p)
    BY <2>1 DEF Proposing, Propose, RecordProposed, Click
<2>2. CASE Rejecting(c, p)
    BY <2>2 DEF Rejecting, RejectRow, RejectNothing, RecordRejected
<2>3. CASE Claiming(c, p)
    BY <2>3 DEF Claiming, Claim, ClaimNothing, RecordApproved, Lock
<2>4. CASE Rechecking(c, p)
    BY <2>4 DEF Rechecking, Collect, RecordRecheck, Invalidate, RecordInvalidated
<2>5. CASE Starting(c, p)
    BY <2>5 DEF Starting, CreateRun, SetExecuting, RecordExecuting, RefuseReboot
<2>6. CASE Running(c, p)
    BY <2>6 DEF Running, Dispatch, Answer, RecordDispatched, RecordVerifying, Verify
<2>7. CASE Ending(c, p)
    BY <2>7 DEF Ending, FinishRun, Settle, Report
<2>8. CASE Raise(c, p)
    BY <2>8 DEF Raise
<2>9. QED
    BY <1>1, <2>1, <2>2, <2>3, <2>4, <2>5, <2>6, <2>7, <2>8 DEF CallStep
<1>2. CASE Surroundings \/ Crash \/ UNCHANGED vars
  BY <1>2 DEF Surroundings, StartReading, StopReading, Change, Expire, Crash, vars, rows
<1>3. CASE Restart
  BY <1>3 DEF Restart, Reconciled
<1>4. QED
  BY <1>1, <1>2, <1>3, NextCases

\* A call that ends, or goes past finish_action_run, leaves no run EXECUTING,
\* except for the refused reboot; only create_action_run makes one so.
LEMMA OwnRuns ==
  ASSUME TypeOK, RowsOfCall, VerdictOfCall, NEW c \in Calls, NEW p \in Proposals, CallStep(c, p)
  PROVE  \/ run'[p] # "EXECUTING" \/ p \in raised'
         \/ target'[c] = p /\ pc'[c] \in UnderWay
         \/ status'[p] = "INVALIDATED" /\ Kind[p] = "reboot" /\ ~config.reboot
         \/ run'[p] = run[p] /\ pc[c] \notin UnderWay
<1> USE DEF TypeOK, RowsOfCall, VerdictOfCall, Finished, UnderWay, At, Open,
      Move, SetStatus, RecordAll, Record, Return, Forget, Decide, rows, local, process,
      environment
<1>1. CASE Proposing(c, p)
  BY <1>1 DEF Proposing, Propose, RecordProposed, Click
<1>2. CASE Rejecting(c, p)
  BY <1>2 DEF Rejecting, RejectRow, RejectNothing, RecordRejected
<1>3. CASE Claiming(c, p)
  BY <1>3 DEF Claiming, Claim, ClaimNothing, RecordApproved, Lock
<1>4. CASE Rechecking(c, p)
  BY <1>4 DEF Rechecking, Collect, RecordRecheck, Invalidate, RecordInvalidated
<1>5. CASE Starting(c, p)
  BY <1>5 DEF Starting, CreateRun, SetExecuting, RecordExecuting, RefuseReboot
<1>6. CASE Running(c, p)
  BY <1>6 DEF Running, Dispatch, Answer, RecordDispatched, RecordVerifying, Verify
<1>7. CASE Ending(c, p)
  BY <1>7 DEF Ending, FinishRun, Settle, Report
<1>8. CASE Raise(c, p)
  BY <1>8 DEF Raise
<1>9. QED
  BY <1>1, <1>2, <1>3, <1>4, <1>5, <1>6, <1>7, <1>8 DEF CallStep

LEMMA RunsAccountedStep ==
  ASSUME TypeOK, CallsAlive, RowsOfCall, VerdictOfCall, RunsAccounted, [Next]_vars
  PROVE  RunsAccounted'
<1> DEFINE Worked(q) == \E d \in Calls : pc[d] \in UnderWay /\ target[d] = q
           Leaked(q) == status[q] = "INVALIDATED" /\ Kind[q] = "reboot" /\ ~config.reboot
<1> SUFFICES ASSUME NEW q \in Proposals, up', run'[q] = "EXECUTING", q \notin raised'
             PROVE  Worked(q)' \/ Leaked(q)'
  BY DEF RunsAccounted
<1>1. ASSUME NEW c \in Calls, NEW p \in Proposals, CallStep(c, p)
      PROVE  Worked(q)' \/ Leaked(q)'
  <2>1. up /\ q \notin raised /\ config' = config
    BY <1>1, OthersKeep
  <2>2. CASE \E d \in Calls \ {c} : pc[d] \in UnderWay /\ target[d] = q
    BY <1>1, <2>2, OthersKeep
  <2>3. CASE ~\E d \in Calls \ {c} : pc[d] \in UnderWay /\ target[d] = q
    <3>1. CASE q = p /\ ~(run'[q] = run[q] /\ pc[c] \notin UnderWay)
      BY <1>1, <2>1, <3>1, OwnRuns
    <3>2. CASE run'[q] = run[q] /\ (q = p => pc[c] \notin UnderWay)
      <4>1. CASE Leaked(q)
        BY <2>1, <4>1, TerminalStep DEF Void
      <4>2. CASE ~Leaked(q)
        <5>1. pc[c] \in UnderWay /\ target[c] = q
          BY <2>1, <2>3, <3>2, <4>2 DEF RunsAccounted
        <5>2. target[c] = p
          BY <1>1, <5>1, TargetsOwn DEF UnderWay, Consuming, Locked
        <5> QED
          BY <3>2, <5>1, <5>2
      <4> QED
        BY <4>1, <4>2
    <3>3. q # p => run'[q] = run[q]
      BY <1>1, OthersKeep
    <3>4. QED
      BY <3>1, <3>2, <3>3
  <2>4. QED
    BY <2>2, <2>3
<1>2. CASE Surroundings \/ UNCHANGED vars
  <2>1. UNCHANGED <<up, run, raised, pc, target, status, config>>
    BY <1>2 DEF Surroundings, StartReading, StopReading, Change, Expire, vars, rows, local,
       process, environment
  <2>2. QED
    BY <2>1 DEF RunsAccounted
<1>3. CASE Crash
  BY <1>3 DEF Crash
<1>4. CASE Restart
  BY <1>4 DEF Restart, Reconciled, TypeOK
<1>5. QED
  BY <1>1, <1>2, <1>3, <1>4, NextCases
-----------------------------------------------------------------------------
LEMMA InitIInv == Init => IInv
<1> SUFFICES ASSUME Init PROVE IInv
  OBVIOUS
<1> USE ConstantsAssumption DEF Init, Places, Consuming, Locked, InFlight, Finished, Void
<1>1. TypeOK
  BY DEF TypeOK, ProposalStatus, RunStatus, Events, Results
<1>2. CallsAlive /\ OneConsumer /\ HostAlone /\ RowsOfCall /\ TrailOfCall /\ SightOfCall
  BY DEF CallsAlive, OneConsumer, HostAlone, RowsOfCall, TrailOfCall, SightOfCall, Collected,
     Judged, Sent
<1>3. VerdictOfCall /\ RowsAlone /\ CommandAuthorised /\ AuditTruthful /\ LedgerAgrees
      /\ SuccessEarned /\ InHands /\ RunsAccounted
  BY DEF VerdictOfCall, RowsAlone, CommandAuthorised, AuditTruthful, LedgerAgrees,
     SuccessEarned, InHands, RunsAccounted
<1>4. QED
  BY <1>1, <1>2, <1>3 DEF IInv

LEMMA NextIInv == IInv /\ [Next]_vars => IInv'
BY TypeStep, CallsAliveStep, OneConsumerStep, HostAloneStep, RowsOfCallStep, TrailOfCallStep,
   SightOfCallStep, VerdictOfCallStep, RowsAloneStep, CommandAuthorisedStep, AuditTruthfulStep,
   LedgerAgreesStep, SuccessEarnedStep, InHandsStep, RunsAccountedStep
   DEF IInv

\* The inductive invariant holds in every reachable state.
THEOREM Invariance == Spec => []IInv
BY InitIInv, NextIInv, PTL DEF Spec

\* Every variable keeps its type.
THEOREM TypeCorrect == Spec => []TypeOK
<1>1. IInv => TypeOK
  BY DEF IInv
<1>2. QED
  BY <1>1, Invariance, PTL

\* A command is dispatched at most once, and only after approval, recheck
\* and execution are in the ledger (approve, _consume, _consume_operation).
THEOREM DispatchAuthorised == Spec => []CommandAuthorised
<1>1. IInv => CommandAuthorised
  BY DEF IInv
<1>2. QED
  BY <1>1, Invariance, PTL

\* At the point of dispatch the recheck still speaks of the host: nothing of
\* the agent came between, because the lock is held since before it.
THEOREM DispatchCurrent == Spec => []RecheckCurrent
<1>1. IInv => RecheckCurrent
  BY DEF IInv, RecheckCurrent, SightOfCall, HostAlone, Collected, Judged, Locked, Acceptable
<1>2. QED
  BY <1>1, Invariance, PTL

\* The events that add_action_event has appended tell what happened.
THEOREM AuditSound == Spec => []AuditTruthful
<1>1. IInv => AuditTruthful
  BY DEF IInv
<1>2. QED
  BY <1>1, Invariance, PTL

\* action_runs and action_proposals agree, although finish_action_run and
\* set_proposal_status are two transactions.
THEOREM LedgerSound == Spec => []LedgerAgrees
<1>1. IInv => LedgerAgrees
  BY DEF IInv
<1>2. QED
  BY <1>1, Invariance, PTL

\* No row holds a success that the command did not have, whatever _consume,
\* its exceptions and reconcile_actions write.
THEOREM SuccessSound == Spec => []SuccessEarned
<1>1. IInv => SuccessEarned
  BY DEF IInv
<1>2. QED
  BY <1>1, Invariance, PTL

\* A proposal in flight is in the hands of exactly one call.
THEOREM InOneHand == Spec => []NoOrphans
<1>1. IInv => NoOrphans
  BY DEF IInv, InHands, OneConsumer, NoOrphans
<1>2. QED
  BY <1>1, Invariance, PTL

\* No run row stays EXECUTING unless its call is at work or raised, or it was
\* the reboot that _consume refused after create_action_run.
THEOREM RunsOwned == Spec => []RunsAccounted
<1>1. IInv => RunsAccounted
  BY DEF IInv
<1>2. QED
  BY <1>1, Invariance, PTL

\* A final status is final, although set_proposal_status never asks.
THEOREM FinalStays == Spec => TerminalStays
<1>1. IInv /\ [Next]_vars =>
        [\A p \in Proposals : status[p] \in Finished \cup Void => status'[p] = status[p]]_vars
  BY TerminalStep DEF IInv
<1>2. QED
  BY <1>1, Invariance, PTL DEF Spec, TerminalStays
-----------------------------------------------------------------------------
\* The coordinator keeps the promise of SingleUseApproval.
LEMMA InitPromise == Init => Promise!Init
BY DEF Init, Promise!Init, authorityBar, executingBar

LEMMA AuthorityKept ==
  ASSUME UNCHANGED <<status, sent>>
  PROVE  authorityBar' = authorityBar
BY DEF authorityBar

\* What is executing changes only with the place "running" of the call.
LEMMA ExecutingKept ==
  ASSUME TypeOK, NEW c \in Calls, NEW p \in Proposals, CallStep(c, p),
         pc[c] # "running", pc'[c] # "running"
  PROVE  executingBar' = executingBar
BY OthersKeep DEF executingBar

LEMMA ExecutingEnds ==
  ASSUME TypeOK, OneConsumer, NEW c \in Calls, NEW p \in Proposals, CallStep(c, p),
         pc[c] = "running", pc'[c] # "running", target[c] = p
  PROVE  p \in executingBar /\ executingBar' = executingBar \ {p}
<1>1. \A d \in Calls \ {c} : pc[d] = "running" => target[d] # p
  BY DEF OneConsumer, Consuming, Locked
<1>2. QED
  BY <1>1, OthersKeep DEF executingBar

\* No other command is executing on the host of a call that holds its lock.
LEMMA HostIdle ==
  ASSUME HostAlone, NEW c \in Calls, pc[c] \in Locked \ {"running"}
  PROVE  Promise!Idle(HostOf[target[c]])
BY DEF HostAlone, Promise!Idle, executingBar, Locked

\* An authority moves at one proposal.
LEMMA AuthorityMoves ==
  ASSUME TypeOK, NEW p \in Proposals, NEW a,
         \A q \in Proposals \ {p} : status'[q] = status[q] /\ sent'[q] = sent[q],
         authorityBar'[p] = a
  PROVE  authorityBar' = [authorityBar EXCEPT ![p] = a]
BY DEF authorityBar

LEMMA StepPromise ==
  ASSUME IInv, NEW c \in Calls, NEW p \in Proposals, CallStep(c, p)
  PROVE  Promise!Next \/ UNCHANGED <<authorityBar, executingBar>>
<1> USE DEF IInv
<1> DEFINE Same == UNCHANGED <<authorityBar, executingBar>>
<1>1. \A q \in Proposals : authorityBar[q] =
        IF sent[q] > 0 THEN "spent"
        ELSE IF status[q] = "ABSENT" THEN "none"
        ELSE IF status[q] = "PENDING" THEN "offered"
        ELSE IF status[q] \in Void THEN "void" ELSE "granted"
  BY DEF authorityBar
<1>2. \A q \in Proposals : authorityBar'[q] =
        IF sent'[q] > 0 THEN "spent"
        ELSE IF status'[q] = "ABSENT" THEN "none"
        ELSE IF status'[q] = "PENDING" THEN "offered"
        ELSE IF status'[q] \in Void THEN "void" ELSE "granted"
  BY DEF authorityBar
<1>3. CASE Propose(c, p)
  <2>1. executingBar' = executingBar
    BY <1>3, ExecutingKept DEF Propose, Move, TypeOK
  <2>2. authorityBar[p] = "none" /\ authorityBar'[p] \in {"offered", "void"}
    BY <1>1, <1>2, <1>3 DEF Propose, SetStatus, TypeOK, CommandAuthorised, environment,
       Finished,
       Void
  <2>3. authorityBar' = [authorityBar EXCEPT ![p] = authorityBar'[p]]
    BY <1>3, AuthorityMoves DEF Propose, SetStatus, TypeOK, environment
  <2>4. Promise!Offer(p)
    BY <2>1, <2>2, <2>3 DEF Promise!Offer
  <2>5. QED
    BY <2>4 DEF Promise!Next
<1>4. CASE RejectRow(c, p)
  <2>1. executingBar' = executingBar
    BY <1>4, ExecutingKept DEF RejectRow, At, Return, Move, TypeOK
  <2>2. authorityBar[p] = "offered" /\ authorityBar'[p] = "void"
    BY <1>1, <1>2, <1>4 DEF RejectRow, Open, At, SetStatus, TypeOK, CommandAuthorised,
       environment, Finished, Void
  <2>3. authorityBar' = [authorityBar EXCEPT ![p] = "void"]
    BY <1>4, <2>2, AuthorityMoves DEF RejectRow, SetStatus, TypeOK, environment
  <2>4. Promise!Revoke(p)
    BY <2>1, <2>2, <2>3 DEF Promise!Revoke
  <2>5. QED
    BY <2>4 DEF Promise!Next
<1>5. CASE Claim(c, p)
  <2>1. executingBar' = executingBar
    BY <1>5, ExecutingKept DEF Claim, At, Move, TypeOK
  <2>2. authorityBar[p] = "offered" /\ authorityBar'[p] = "granted"
    BY <1>1, <1>2, <1>5 DEF Claim, Open, At, SetStatus, TypeOK, CommandAuthorised,
       environment, Finished, Void
  <2>3. authorityBar' = [authorityBar EXCEPT ![p] = "granted"]
    BY <1>5, <2>2, AuthorityMoves DEF Claim, SetStatus, TypeOK, environment
  <2>4. Promise!Grant(p)
    BY <2>1, <2>2, <2>3 DEF Promise!Grant
  <2>5. QED
    BY <2>4 DEF Promise!Next
<1>6. CASE ClaimNothing(c, p)
  <2>1. executingBar' = executingBar
    BY <1>6, ExecutingKept DEF ClaimNothing, At, Return, Move, TypeOK
  <2>2. CASE status[p] = "PENDING"
    <3>1. authorityBar[p] = "offered" /\ authorityBar'[p] = "void"
      BY <1>1, <1>2, <1>6, <2>2 DEF ClaimNothing, At, SetStatus, TypeOK,
         CommandAuthorised, environment, Finished, Void
    <3>2. authorityBar' = [authorityBar EXCEPT ![p] = "void"]
      BY <1>6, <3>1, AuthorityMoves DEF ClaimNothing, SetStatus, TypeOK, environment
    <3>3. Promise!Revoke(p)
      BY <2>1, <3>1, <3>2 DEF Promise!Revoke
    <3>4. QED
      BY <3>3 DEF Promise!Next
  <2>3. CASE status[p] # "PENDING"
    <3>1. UNCHANGED <<status, sent>>
      BY <1>6, <2>3 DEF ClaimNothing, SetStatus, TypeOK
    <3>2. QED
      BY <2>1, <3>1, AuthorityKept
  <2>4. QED
    BY <2>2, <2>3
<1>7. CASE Invalidate(c, p)
  <2>1. executingBar' = executingBar
    BY <1>7, ExecutingKept DEF Invalidate, At, Return, Move, TypeOK
  <2>2. authorityBar[p] = "granted" /\ authorityBar'[p] = "void"
    BY <1>1, <1>2, <1>7 DEF Invalidate, RowsOfCall, TrailOfCall, Consuming, Locked, Sent,
       At, SetStatus, TypeOK, CommandAuthorised, environment, Finished, Void
  <2>3. authorityBar' = [authorityBar EXCEPT ![p] = "void"]
    BY <1>7, <2>2, AuthorityMoves DEF Invalidate, SetStatus, TypeOK, environment
  <2>4. Promise!Revoke(p)
    BY <2>1, <2>2, <2>3 DEF Promise!Revoke
  <2>5. QED
    BY <2>4 DEF Promise!Next
<1>8. CASE RefuseReboot(c, p)
  <2>1. executingBar' = executingBar
    BY <1>8, ExecutingKept DEF RefuseReboot, At, Return, Move, TypeOK
  <2>2. authorityBar[p] = "granted" /\ authorityBar'[p] = "void"
    BY <1>1, <1>2, <1>8 DEF RefuseReboot, RowsOfCall, TrailOfCall, Consuming, Locked, Sent,
       At, SetStatus, TypeOK, CommandAuthorised, environment, Finished, Void
  <2>3. authorityBar' = [authorityBar EXCEPT ![p] = "void"]
    BY <1>8, <2>2, AuthorityMoves DEF RefuseReboot, SetStatus, TypeOK, environment
  <2>4. Promise!Revoke(p)
    BY <2>1, <2>2, <2>3 DEF Promise!Revoke
  <2>5. QED
    BY <2>4 DEF Promise!Next
<1>9. CASE Dispatch(c, p)
  <2>1. pc'[c] = "running" /\ target'[c] = p /\ pc[c] # "running"
    BY <1>9 DEF Dispatch, At, Move, TypeOK, local
  <2>2. executingBar' = executingBar \cup {p}
    BY <2>1, OthersKeep DEF executingBar
  <2>3. authorityBar[p] = "granted" /\ authorityBar'[p] = "spent"
    BY <1>1, <1>2, <1>9 DEF Dispatch, At, TypeOK, RowsOfCall, TrailOfCall, Consuming, Locked,
       Sent, Void
  <2>4. authorityBar' = [authorityBar EXCEPT ![p] = "spent"]
    BY <1>9, <2>3, AuthorityMoves DEF Dispatch, TypeOK, rows
  <2>5. Promise!Idle(HostOf[p])
    BY <1>9, HostIdle DEF Dispatch, At, Locked
  <2>6. Promise!Spend(p)
    BY <2>2, <2>3, <2>4, <2>5 DEF Promise!Spend
  <2>7. QED
    BY <2>6 DEF Promise!Next
<1>10. CASE Answer(c, p) \/ Raise(c, p)
  <2>1. UNCHANGED <<status, sent>> /\ target[c] = p /\ pc'[c] # "running"
    BY <1>10 DEF Answer, Raise, At, Return, Move, TypeOK, rows
  <2>2. CASE pc[c] = "running"
    <3>1. Promise!Complete(p)
      BY <2>1, <2>2, ExecutingEnds, AuthorityKept DEF Promise!Complete
    <3>2. QED
      BY <3>1 DEF Promise!Next
  <2>3. CASE pc[c] # "running"
    BY <2>1, <2>3, ExecutingKept, AuthorityKept
  <2>4. QED
    BY <2>2, <2>3
<1>11. CASE SetExecuting(c, p) \/ Settle(c, p)
  <2>1. executingBar' = executingBar
    BY <1>11, ExecutingKept DEF SetExecuting, Settle, At, Move, TypeOK
  <2>2. authorityBar[p] = authorityBar'[p]
    BY <1>1, <1>2, <1>11 DEF SetExecuting, Settle, At, SetStatus, TypeOK, RowsOfCall,
       TrailOfCall,
       Consuming, Locked, Sent, Void, environment
  <2>3. authorityBar' = [authorityBar EXCEPT ![p] = authorityBar[p]]
    BY <1>11, <2>2, AuthorityMoves DEF SetExecuting, Settle, SetStatus, TypeOK, environment
  <2>4. QED
    BY <2>1, <2>3 DEF authorityBar
<1>12. CASE \/ RecordProposed(c, p) \/ Click(c, p)
            \/ RejectNothing(c, p) \/ RecordRejected(c, p)
            \/ RecordApproved(c, p) \/ Lock(c, p) \/ Collect(c, p) \/ RecordRecheck(c, p)
  <2>1. UNCHANGED <<status, sent>> /\ pc[c] # "running" /\ pc'[c] # "running"
    BY <1>12 DEF RecordProposed, Click, RejectNothing, RecordRejected, RecordApproved, Lock,
       Collect, RecordRecheck, At, Return, Move, TypeOK, rows, environment
  <2>2. QED
    BY <2>1, ExecutingKept, AuthorityKept
<1>13. CASE \/ RecordInvalidated(c, p) \/ CreateRun(c, p) \/ RecordExecuting(c, p)
            \/ RecordDispatched(c, p) \/ RecordVerifying(c, p) \/ Verify(c, p)
            \/ FinishRun(c, p) \/ Report(c, p)
  <2>1. UNCHANGED <<status, sent>> /\ pc[c] # "running" /\ pc'[c] # "running"
    BY <1>13 DEF RecordInvalidated, CreateRun, RecordExecuting, RecordDispatched,
       RecordVerifying,
       Verify, FinishRun, Report, At, Return, Move, TypeOK, rows, environment
  <2>2. QED
    BY <2>1, ExecutingKept, AuthorityKept
<1>14. QED
  BY <1>3, <1>4, <1>5, <1>6, <1>7, <1>8, <1>9, <1>10, <1>11, <1>12, <1>13 DEF CallStep,
     Proposing, Rejecting, Claiming, Rechecking, Starting, Running, Ending

\* A crash stops everything, a restart renounces what was not spent.
LEMMA OtherPromise ==
  ASSUME IInv, Surroundings \/ Crash \/ Restart \/ UNCHANGED vars
  PROVE  Promise!Next \/ UNCHANGED <<authorityBar, executingBar>>
<1>1. CASE Surroundings \/ UNCHANGED vars
  BY <1>1, AuthorityKept DEF Surroundings, StartReading, StopReading, Change, Expire, vars,
     rows,
     local, environment, executingBar
<1>2. CASE Crash
  <2>1. UNCHANGED <<status, sent>> /\ executingBar' = {}
    BY <1>2 DEF Crash, ForgetAll, rows, executingBar
  <2>2. QED
    BY <2>1, AuthorityKept DEF Promise!Next, Promise!Halt
<1>3. CASE Restart
  <2>1. UNCHANGED <<pc, target, sent>>
    BY <1>3 DEF Restart, Reconciled, local
  <2>2. executingBar' = executingBar
    BY <2>1 DEF executingBar
  <2>3. \A p \in Proposals : authorityBar'[p] =
          IF authorityBar[p] \in {"offered", "granted"} THEN "void" ELSE authorityBar[p]
    BY <1>3, <2>1 DEF Restart, Reconciled, authorityBar, IInv, TypeOK, LedgerAgrees,
       CommandAuthorised, RowsAlone, ProposalStatus, InFlight, Finished, Void
  <2>4. authorityBar' = [p \in Proposals |->
          IF authorityBar[p] \in {"offered", "granted"} THEN "void" ELSE authorityBar[p]]
    BY <2>3 DEF authorityBar
  <2>5. QED
    BY <2>2, <2>4 DEF Promise!Next, Promise!Renounce
<1>4. QED
  BY <1>1, <1>2, <1>3

\* An approval is spent at most once, under any interleaving of clicks,
\* exceptions and restarts, and commands on one host do not overlap.
THEOREM Refinement == Spec => SingleUse
<1>1. IInv /\ [Next]_vars => [Promise!Next]_(Promise!vars)
  BY StepPromise, OtherPromise, NextCases DEF Promise!vars
<1>2. QED
  BY InitPromise, <1>1, Invariance, PTL DEF Spec, SingleUse, Promise!Spec
=============================================================================
