------------------------- MODULE AgentServiceProofs -------------------------
(***************************************************************************)
(* The jobs of AgentService, for any number of turns and hosts: row, token *)
(* and turn of a job agree, and a cancellation or a result is never taken  *)
(* back.                                                                   *)
(***************************************************************************)
EXTENDS AgentService, TLAPS

LEMMA RowTypes == EmptyRow \in Row /\ Silent \in Ask /\ NoWorker \in [Hosts -> {"none"}]
BY DEF EmptyRow, Row, Silent, Ask, NoWorker

LEMMA RequestTypes ==
  ASSUME NEW state \in Row, NEW a \in Requests(state)
  PROVE  a \in Ask /\ a.kind \in Kinds
<1>1. WriteHost(state) \subseteq Hosts
  BY ServiceAssumption DEF WriteHost, Row
<1>2. CASE \E k \in Kinds, h \in Hosts : a = [kind |-> k, host |-> h, inherited |-> FALSE]
  BY <1>2 DEF Ask
<1>3. CASE \E k \in Kinds : a = [kind |-> k, host |-> None, inherited |-> FALSE]
  BY <1>3 DEF Ask
<1>4. CASE \E k \in Kinds, h \in Hosts : a = [kind |-> k, host |-> h, inherited |-> TRUE]
  BY <1>4 DEF Ask
<1>5. QED
  BY <1>1, <1>2, <1>3, <1>4 DEF Requests, TypedHost, Row

LEMMA InitTypes == Init => TypeOK
BY RowTypes, ServiceAssumption
DEF Init, JobsInit, TypeOK, JobStatus, Active, Ended, Working, Outcomes, InFlight, InLoop, InAwait,
    Scopes, NoWorker, Idle

-----------------------------------------------------------------------------
\* TypeOK in four parts, so that a step has to show only those it disturbs.
JobsTyped ==
  /\ row \in [Turns -> JobStatus]
  /\ tokens \subseteq Turns /\ cancelled \subseteq Turns
  /\ acked \subseteq Turns /\ raised \subseteq Turns
TurnsTyped ==
  /\ up \in BOOLEAN /\ loop \in Turns \cup {None}
  /\ pc \in [Turns -> {"new", "done"} \cup InFlight]
  /\ \A t \in Turns : (loop = t) <=> (pc[t] \in InLoop)
LocalsTyped ==
  /\ conv \in Row /\ copy \in [Turns -> Row]
  /\ ask \in [Turns -> Ask]
  /\ worker \in [Turns -> [Hosts -> {"none"} \cup Working \cup Outcomes]]
  /\ \A t \in Turns : ~Idle(t) => pc[t] = "gather"
FactsTyped ==
  /\ writing \subseteq WriteHosts
  /\ serial \in BOOLEAN /\ due \in Hosts \cup {None} /\ subject \in Hosts \cup {None}
  /\ asked \in Scopes /\ shown \in Scopes

LEMMA TypeParts == TypeOK <=> JobsTyped /\ TurnsTyped /\ LocalsTyped /\ FactsTyped
BY DEF TypeOK, JobsTyped, TurnsTyped, LocalsTyped, FactsTyped

\* Where a turn goes, and who has the loop then.
LEMMA Moves ==
  ASSUME TurnsTyped, NEW t \in Turns, NEW place \in {"new", "done"} \cup InFlight,
         up' = up, loop \in {None, t},
         pc' = [pc EXCEPT ![t] = place],
         loop' = IF place \in InLoop THEN t ELSE None
  PROVE  TurnsTyped'
BY ServiceAssumption DEF TurnsTyped, InFlight, InLoop, InAwait

LEMMA Leaving ==
  ASSUME LocalsTyped, TurnsTyped, NEW t \in Turns, Leave(t), conv' \in Row
  PROVE  LocalsTyped'
BY RowTypes DEF LocalsTyped, TurnsTyped, Leave, Await, Idle, NoWorker, Working

LEMMA MessageTypes ==
  ASSUME TypeOK, NEW t \in Turns, NEW a \in Requests(conv), Message(t, a)
  PROVE  TypeOK'
<1>1. a \in Ask /\ a.kind \in Kinds
  BY RequestTypes DEF TypeOK
<1>2. TurnsTyped'
  BY Moves, TypeParts DEF Message, Go, Await, InLoop, InAwait, InFlight
<1>3. JobsTyped'
  BY TypeParts DEF JobsTyped, Message, jobs
<1>4. LocalsTyped'
  BY <1>1, TypeParts DEF LocalsTyped, TurnsTyped, Message, Go, Await, Idle
<1>5. FactsTyped'
  BY <1>1, TypeParts DEF FactsTyped, Message, Note, SubjectOf, Ask, Scope, Scopes
<1>6. QED
  BY <1>2, <1>3, <1>4, <1>5, TypeParts DEF TypeOK, JobsTyped, TurnsTyped, LocalsTyped, FactsTyped

LEMMA CancelTypes ==
  ASSUME TypeOK, NEW t \in Turns, NEW j \in Turns, CancelRunning(t, j) \/ CancelFinished(t, j)
  PROVE  TypeOK'
<1>1. TurnsTyped'
  BY Moves, TypeParts, ServiceAssumption DEF CancelRunning, CancelFinished, InFlight, InLoop, InAwait
<1>2. JobsTyped'
  BY TypeParts
  DEF JobsTyped, CancelRunning, CancelFinished, CancelJob, jobs, facts, JobStatus, Active
<1>3. LocalsTyped'
  BY TypeParts DEF LocalsTyped, TurnsTyped, CancelRunning, CancelFinished, local, Idle
<1>4. FactsTyped'
  BY TypeParts DEF FactsTyped, CancelRunning, CancelFinished, facts
<1>5. QED
  BY <1>1, <1>2, <1>3, <1>4, TypeParts
  DEF TypeOK, JobsTyped, TurnsTyped, LocalsTyped, FactsTyped

LEMMA TurnTypes ==
  ASSUME TypeOK, NEW t \in Turns, Turn(t)
  PROVE  TypeOK'
<1> USE TypeParts
<1>1. TurnsTyped'
  <2>1. CASE Create(t)
    BY <2>1, Moves DEF Create, At, Go, InLoop, InFlight
  <2>2. CASE Store(t)
    BY <2>2, Moves DEF Store, At, Go, InLoop, InFlight
  <2>3. CASE Start(t)
    BY <2>3, Moves DEF Start, At, Await, InLoop, InAwait, InFlight
  <2>4. CASE Gathered(t)
    BY <2>4, Moves DEF Gathered, At, Go, InLoop, InAwait, InFlight
  <2>5. CASE Finish(t)
    BY <2>5, Moves DEF Finish, At, Go, Reply, Leave, Await, InLoop, InAwait, InFlight
  <2>6. CASE Keep(t)
    BY <2>6, Moves DEF Keep, At, Go, Reply, Leave, Await, InLoop, InAwait, InFlight
  <2>7. CASE Peeked(t)
    BY <2>7, Moves DEF Peeked, At, Go, Reply, Leave, Await, InLoop, InAwait, InFlight
  <2>8. CASE Planned(t)
    BY <2>8, Moves DEF Planned, At, Go, Reply, Leave, Await, InLoop, InAwait, InFlight
  <2>9. CASE Answered(t)
    BY <2>9, Moves DEF Answered, At, Go, InLoop, InAwait, InFlight
  <2>10. CASE Settle(t)
    BY <2>10, Moves DEF Settle, At, Reply, Leave, Await, InLoop, InAwait, InFlight
  <2>11. QED
    BY <2>1, <2>2, <2>3, <2>4, <2>5, <2>6, <2>7, <2>8, <2>9, <2>10 DEF Turn
<1>2. JobsTyped'
  <2>1. CASE Create(t)
    BY <2>1 DEF Create, CreateJob, JobsTyped, JobStatus, Active, facts
  <2>2. CASE Start(t)
    BY <2>2 DEF Start, StartJob, JobsTyped, JobStatus, Active, facts
  <2>3. CASE Finish(t)
    BY <2>3 DEF Finish, FinishJob, JobsTyped, JobStatus, Ended
  <2>4. CASE Store(t) \/ Gathered(t) \/ Answered(t)
    BY <2>4 DEF Store, Gathered, Answered, JobsTyped, jobs, facts
  <2>5. CASE Keep(t) \/ Peeked(t) \/ Planned(t) \/ Settle(t)
    BY <2>5 DEF Keep, Peeked, Planned, Settle, JobsTyped, jobs
  <2>6. QED
    BY <2>1, <2>2, <2>3, <2>4, <2>5 DEF Turn
<1>3. LocalsTyped'
  <2>1. CASE Create(t)
    BY <2>1 DEF Create, At, Go, LocalsTyped, TurnsTyped, local, Idle
  <2>2. CASE Store(t)
    <3>1. Established(t) \in Row
      BY RowTypes DEF Established, Row, LocalsTyped, Ask
    <3>2. QED
      BY <2>2, <3>1 DEF Store, Save, At, Go, LocalsTyped, TurnsTyped, Idle
  <2>3. CASE Start(t)
    BY <2>3 DEF Start, At, Await, LocalsTyped, TurnsTyped, Idle, Working
  <2>4. CASE Gathered(t)
    BY <2>4 DEF Gathered, At, Go, LocalsTyped, TurnsTyped, local, Idle
  <2>5. CASE Finish(t)
    BY <2>5, Leaving DEF Finish, At, Go, Reply, LocalsTyped, TurnsTyped, local, Idle
  <2>6. CASE Keep(t)
    BY <2>6, Leaving DEF Keep, Save, At, Go, Await, Reply, LocalsTyped, TurnsTyped, local, Idle
  <2>7. CASE Peeked(t)
    BY <2>7, Leaving DEF Peeked, At, Go, Await, Reply, LocalsTyped, TurnsTyped, local, Idle
  <2>8. CASE Planned(t)
    BY <2>8, Leaving DEF Planned, At, Go, Await, Reply, LocalsTyped, TurnsTyped, local, Idle
  <2>9. CASE Answered(t)
    BY <2>9 DEF Answered, At, Go, LocalsTyped, TurnsTyped, local, Idle
  <2>10. CASE Settle(t)
    <3>1. Settled(t) \in Row
      BY DEF Settled, Row, LocalsTyped, Ask
    <3>2. QED
      BY <2>10, <3>1, Leaving DEF Settle, Save, Reply
  <2>11. QED
    BY <2>1, <2>2, <2>3, <2>4, <2>5, <2>6, <2>7, <2>8, <2>9, <2>10 DEF Turn
<1>4. FactsTyped'
  <2>1. Scope(Kind(t)) \in Scopes
    BY DEF Scope, Scopes
  <2>2. CASE Create(t) \/ Store(t) \/ Start(t) \/ Gathered(t) \/ Answered(t)
    BY <2>2 DEF Create, Store, Start, Gathered, Answered, FactsTyped, facts
  <2>3. CASE Finish(t) \/ Keep(t) \/ Peeked(t) \/ Planned(t) \/ Settle(t)
    BY <2>1, <2>3 DEF Finish, Keep, Peeked, Planned, Settle, Reply, Note, FactsTyped, LocalsTyped, Ask
  <2>4. QED
    BY <2>2, <2>3 DEF Turn
<1>5. QED
  BY <1>1, <1>2, <1>3, <1>4 DEF TypeOK, JobsTyped, TurnsTyped, LocalsTyped, FactsTyped

LEMMA ThreadTypes ==
  ASSUME TypeOK, NEW t \in Turns, NEW h \in Hosts, Thread(t, h)
  PROVE  TypeOK'
<1> USE TypeParts
<1>1. pc[t] = "gather"
  BY DEF Thread, Admit, Acquire, Withdraw, Answer, LocalsTyped, Idle, Working
<1>2. PICK w \in Working \cup Outcomes : Work(t, h, w)
  BY DEF Thread, Admit, Acquire, Withdraw, Answer, Working, Outcomes
<1>3. UNCHANGED <<jobs, conv, up, loop, pc, ask, copy, writing, facts>>
  BY DEF Thread, Admit, Acquire, Withdraw, Answer
<1>4. LocalsTyped'
  BY <1>1, <1>2, <1>3 DEF LocalsTyped, Work, Idle
<1>5. QED
  BY <1>3, <1>4 DEF TypeOK, JobsTyped, TurnsTyped, LocalsTyped, FactsTyped, jobs, facts

LEMMA ProcessTypes ==
  ASSUME TypeOK,
         \/ \E t \in Turns : Raise(t)
         \/ \E h \in Hosts : StartWrite(h) \/ StopWrite(h)
         \/ Crash
         \/ Restart
  PROVE  TypeOK'
<1> USE TypeParts
<1>1. CASE \E t \in Turns : Raise(t)
  <2>1. PICK t \in Turns : Raise(t)
    BY <1>1
  <2>2. TurnsTyped'
    BY <2>1, Moves DEF Raise, At, Leave, Await, InLoop, InAwait, InFlight
  <2>3. LocalsTyped'
    BY <2>1, Leaving DEF Raise, LocalsTyped
  <2>4. JobsTyped' /\ FactsTyped'
    BY <2>1 DEF Raise, Note, JobsTyped, FactsTyped, jobs
  <2>5. QED
    BY <2>2, <2>3, <2>4 DEF TypeOK, JobsTyped, TurnsTyped, LocalsTyped, FactsTyped
<1>2. CASE \E h \in Hosts : StartWrite(h) \/ StopWrite(h)
  BY <1>2 DEF StartWrite, StopWrite, TypeOK, jobs, local, facts, Idle
<1>3. CASE Crash
  <2>1. JobsTyped'
    BY <1>3 DEF Crash, LoseTokens, JobsTyped
  <2>2. TurnsTyped'
    BY <1>3, ServiceAssumption DEF Crash, TurnsTyped, Flying, InFlight, InLoop, InAwait
  <2>3. LocalsTyped'
    BY <1>3, RowTypes DEF Crash, LocalsTyped, Idle, NoWorker, Working
  <2>4. FactsTyped'
    BY <1>3 DEF Crash, Note, FactsTyped
  <2>5. QED
    BY <2>1, <2>2, <2>3, <2>4 DEF TypeOK, JobsTyped, TurnsTyped, LocalsTyped, FactsTyped
<1>4. CASE Restart
  <2>1. JobsTyped'
    BY <1>4 DEF Restart, ReconcileJobs, JobsTyped, JobStatus, Ended, facts
  <2>2. TurnsTyped' /\ LocalsTyped' /\ FactsTyped'
    BY <1>4 DEF Restart, TurnsTyped, LocalsTyped, FactsTyped, Idle, local, facts
  <2>3. QED
    BY <2>1, <2>2 DEF TypeOK, JobsTyped, TurnsTyped, LocalsTyped, FactsTyped
<1>5. QED
  BY <1>1, <1>2, <1>3, <1>4

LEMMA StutterTypes == TypeOK /\ UNCHANGED vars => TypeOK'
BY DEF TypeOK, vars, jobs, local, facts, Idle

\* Every variable keeps its type, the loop is always with the one turn that
\* is at a place that needs it, and no thread outlives the await of its turn.
THEOREM TypeCorrect == Spec => []TypeOK
<1>1. TypeOK /\ [Next]_vars => TypeOK'
  BY MessageTypes, CancelTypes, TurnTypes, ThreadTypes, ProcessTypes, StutterTypes DEF Next
<1>2. QED
  BY <1>1, InitTypes, PTL DEF Spec
-----------------------------------------------------------------------------
\* Where a turn stands with its job.  A turn that has not created it has
\* none; between the transactions that create and start it nobody else runs;
\* while its threads read, the row is active, and no later than the end of
\* the turn it is not; a token belongs to an active row of this process, and
\* is cancelled exactly when the row says so.
RowOfTurn ==
  \A t \in Turns :
    /\ pc[t] \in {"new", "create"} => row[t] = "ABSENT"
    /\ pc[t] \in {"store", "start"} => row[t] = "QUEUED"
    /\ pc[t] \in {"gather", "finish"} => row[t] \in Active
    /\ pc[t] \in {"peek", "plan", "answer", "settle"} => row[t] \notin Active
    /\ pc[t] = "keep" => (row[t] \in Active <=> Kind(t) \in FleetReads)
    /\ Flying(t) => up
TokenOfJob ==
  /\ \A j \in tokens : up /\ row[j] \in Active /\ (j \in cancelled <=> row[j] = "CANCELLING")
  /\ \A j \in cancelled : row[j] # "ABSENT"

\* "cancellation requested" is kept: from then on the job is never shown
\* running again nor as succeeded or failed, however its threads answered.
CancelHonoured ==
  \A j \in acked : row[j] \in {"CANCELLING", "CANCELLED", "INTERRUPTED"}

JobInv == JobsOwned /\ CancelHonoured /\ RowOfTurn /\ TokenOfJob

LEMMA InitJobs == Init => JobInv
BY DEF Init, JobsInit, JobInv, JobsOwned, CancelHonoured, RowOfTurn, TokenOfJob, Active, Flying,
   InFlight, InLoop, InAwait

LEMMA MessageJobs ==
  ASSUME TypeOK, JobInv, NEW t \in Turns, NEW a \in Requests(conv), Message(t, a)
  PROVE  JobInv'
<1>1. pc' = [pc EXCEPT ![t] = pc'[t]] /\ pc'[t] \in {"create", "answer", "peek"} /\ ~Flying(t)
  BY DEF Message, Go, Await, TypeOK, Flying, InFlight, InLoop, InAwait
<1>2. \A u \in Turns \ {t} : Kind(u)' = Kind(u)
  BY DEF Message, Kind, TypeOK
<1>3. QED
  BY <1>1, <1>2
  DEF Message, jobs, JobInv, JobsOwned, CancelHonoured, RowOfTurn, TokenOfJob, TypeOK, Flying,
      InFlight, InLoop, InAwait, Active

LEMMA CancelJobs ==
  ASSUME TypeOK, JobInv, NEW t \in Turns, NEW j \in Turns,
         CancelRunning(t, j) \/ CancelFinished(t, j)
  PROVE  JobInv'
<1>1. CASE CancelRunning(t, j)
  <2>1. j # t /\ row[j] \in Active /\ loop = None
    BY <1>1 DEF CancelRunning, CancelJob, JobInv, RowOfTurn, TokenOfJob, Active
  <2>2. pc[j] \notin {"store", "start"}
    BY <2>1, ServiceAssumption DEF TypeOK, InLoop
  <2>3. QED
    BY <1>1, <2>1, <2>2
    DEF CancelRunning, CancelJob, local, JobInv, JobsOwned, CancelHonoured, RowOfTurn, TokenOfJob,
        TypeOK, Flying, Kind, InFlight, InLoop, InAwait, Active
<1>2. CASE CancelFinished(t, j)
  BY <1>2
  DEF CancelFinished, jobs, local, facts, JobInv, JobsOwned, CancelHonoured, RowOfTurn, TokenOfJob,
      TypeOK, Flying, Kind, InFlight, InLoop, InAwait, Active
<1>3. QED
  BY <1>1, <1>2

\* A turn moves and no job changes.
LEMMA QuietMove ==
  ASSUME TypeOK, JobInv, NEW t \in Turns,
         pc' = [pc EXCEPT ![t] = pc'[t]], up, up' = up,
         UNCHANGED <<jobs, acked>>, raised \subseteq raised',
         \A u \in Turns \ {t} : ask'[u] = ask[u],
         \/ pc'[t] = "done" /\ (row[t] \notin Active \/ t \in raised')
         \/ pc[t] = "store" /\ pc'[t] = "start"
         \/ pc'[t] \in {"gather", "finish"} /\ row[t] \in Active
         \/ pc'[t] \in {"peek", "plan", "answer", "settle"} /\ row[t] \notin Active
         \/ pc'[t] = "keep" /\ (row[t] \in Active <=> Kind(t)' \in FleetReads)
  PROVE  JobInv'
<1>1. \A u \in Turns \ {t} : pc'[u] = pc[u] /\ Kind(u)' = Kind(u)
  BY DEF Kind, TypeOK
<1>2. RowOfTurn'
  BY <1>1 DEF jobs, JobInv, RowOfTurn, Flying, InFlight, InLoop, InAwait
<1>3. JobsOwned'
  BY <1>1 DEF jobs, JobInv, JobsOwned, RowOfTurn, Flying, InFlight, InLoop, InAwait
<1>4. QED
  BY <1>2, <1>3 DEF jobs, JobInv, CancelHonoured, TokenOfJob

LEMMA TurnJobs ==
  ASSUME TypeOK, JobInv, NEW t \in Turns, Turn(t)
  PROVE  JobInv'
<1>0. up /\ pc[t] \in InFlight /\ pc \in [Turns -> {"new", "done"} \cup InFlight]
  BY DEF Turn, Create, Store, Start, Gathered, Finish, Keep, Peeked, Planned, Answered, Settle, At,
         InFlight, InLoop, InAwait, TypeOK
<1>1. CASE Create(t)
  <2>1. /\ row' = [row EXCEPT ![t] = "QUEUED"] /\ row[t] = "ABSENT"
        /\ tokens' = tokens \cup {t} /\ t \notin acked /\ t \notin cancelled
        /\ pc' = [pc EXCEPT ![t] = "store"]
        /\ UNCHANGED <<cancelled, up, ask, acked, raised>>
    BY <1>1
    DEF Create, CreateJob, Go, local, facts, JobInv, CancelHonoured, TokenOfJob
  <2>2. QED
    BY <1>0, <2>1
    DEF JobInv, JobsOwned, CancelHonoured, RowOfTurn, TokenOfJob, TypeOK, Flying, Kind, InFlight,
        InLoop, InAwait, Active
<1>2. CASE Store(t)
  BY <1>0, <1>2, QuietMove
  DEF Store, At, Go, facts, JobInv, RowOfTurn, TypeOK, InFlight, InLoop, Active
<1>3. CASE Start(t)
  <2>1. row[t] = "QUEUED" /\ t \in tokens /\ t \notin cancelled /\ t \notin acked
    BY <1>0, <1>3
    DEF Start, At, JobInv, JobsOwned, CancelHonoured, RowOfTurn, TokenOfJob, Active
  <2>2. QED
    BY <1>0, <1>3, <2>1
    DEF Start, StartJob, At, Await, facts, JobInv, JobsOwned, CancelHonoured, RowOfTurn,
        TokenOfJob, TypeOK, Flying, Kind, InFlight, InLoop, InAwait, Active
<1>4. CASE Gathered(t)
  <2>1. /\ pc' = [pc EXCEPT ![t] = pc'[t]] /\ UNCHANGED <<jobs, up, ask, facts>>
        /\ pc'[t] = "finish" \/ (pc'[t] = "keep" /\ Kind(t) \in FleetReads)
    BY <1>0, <1>4 DEF Gathered, Go, local, FleetReads
  <2>2. row[t] \in Active
    BY <1>4 DEF Gathered, At, JobInv, RowOfTurn
  <2>3. QED
    BY <1>0, <2>1, <2>2, QuietMove DEF facts, Kind
<1>5. CASE Finish(t)
  <2>1. row[t] \in Active /\ t \in tokens
    BY <1>0, <1>5 DEF Finish, At, JobInv, JobsOwned, RowOfTurn
  <2>2. t \in acked => t \in cancelled
    BY <2>1 DEF JobInv, CancelHonoured, TokenOfJob, Active
  <2>3. PICK failed \in BOOLEAN : FinishJob(t, failed)
    BY <1>5 DEF Finish
  <2>4. /\ row' = [row EXCEPT ![t] = row'[t]] /\ row'[t] \in {"CANCELLED", "FAILED", "SUCCEEDED"}
        /\ t \in acked => row'[t] = "CANCELLED"
        /\ tokens' = tokens \ {t} /\ cancelled' = cancelled
    BY <2>1, <2>2, <2>3 DEF FinishJob, TypeOK
  <2>5. up' = up /\ UNCHANGED <<acked, raised>>
    BY <1>5 DEF Finish
  <2>6. /\ pc' = [pc EXCEPT ![t] = pc'[t]]
        /\ \A u \in Turns \ {t} : ask'[u] = ask[u]
        /\ pc'[t] = "done" \/ (pc'[t] = "keep" /\ Kind(t)' = "investigate")
    <3>1. CASE Read(t) /\ Go(t, "keep") /\ UNCHANGED local
      BY <1>0, <3>1 DEF Read, Go, local, Kind
    <3>2. CASE Reply(t)
      BY <1>0, <3>2 DEF Reply, Leave, Await, TypeOK
    <3>3. QED
      BY <1>5, <3>1, <3>2 DEF Finish
  <2>7. \A u \in Turns \ {t} : Kind(u)' = Kind(u) /\ pc'[u] = pc[u] /\ row'[u] = row[u]
    BY <1>0, <2>4, <2>6 DEF Kind, TypeOK
  <2>8. RowOfTurn'
    BY <1>0, <2>4, <2>5, <2>6, <2>7
    DEF JobInv, RowOfTurn, Flying, InFlight, InLoop, InAwait, Active, FleetReads
  <2>9. JobsOwned'
    BY <2>4, <2>5, <2>6, <2>7 DEF JobInv, JobsOwned, Flying, Active
  <2>10. CancelHonoured' /\ TokenOfJob'
    BY <2>4, <2>5, <2>7 DEF JobInv, CancelHonoured, TokenOfJob, TypeOK
  <2>11. QED
    BY <2>8, <2>9, <2>10 DEF JobInv
<1>6. CASE Keep(t)
  <2>1. row[t] \in Active <=> Kind(t) \in FleetReads
    BY <1>6 DEF Keep, At, JobInv, RowOfTurn
  <2>2. UNCHANGED <<jobs, up, acked, raised>>
    BY <1>6 DEF Keep
  <2>3. \/ Kind(t) \in FleetReads /\ Go(t, "finish") /\ UNCHANGED local
        \/ Kind(t) \notin FleetReads /\ Await(t, "plan") /\ UNCHANGED local
        \/ Kind(t) \notin FleetReads /\ Reply(t)
    BY <1>6 DEF Keep, FleetReads
  <2>4. QED
    BY <1>0, <2>1, <2>2, <2>3, QuietMove DEF Go, Await, Reply, Leave, local, TypeOK
<1>7. CASE Peeked(t) \/ Planned(t)
  <2>1. row[t] \notin Active
    BY <1>7 DEF Peeked, Planned, At, JobInv, RowOfTurn
  <2>2. UNCHANGED <<jobs, up, acked, raised>>
    BY <1>7 DEF Peeked, Planned
  <2>3. \/ Await(t, "plan") /\ UNCHANGED local
        \/ Go(t, "settle") /\ UNCHANGED local
        \/ Kind(t) = "write" /\ Go(t, "keep") /\ UNCHANGED local
        \/ Reply(t)
    BY <1>7 DEF Peeked, Planned
  <2>4. QED
    BY <1>0, <2>1, <2>2, <2>3, QuietMove
    DEF Go, Await, Reply, Leave, local, Kind, TypeOK, FleetReads
<1>8. CASE Answered(t)
  <2>1. row[t] \notin Active
    BY <1>8 DEF Answered, At, JobInv, RowOfTurn
  <2>2. QED
    BY <1>0, <1>8, <2>1, QuietMove DEF Answered, Go, local, facts
<1>9. CASE Settle(t)
  <2>1. row[t] \notin Active
    BY <1>9 DEF Settle, At, JobInv, RowOfTurn
  <2>2. QED
    BY <1>0, <1>9, <2>1, QuietMove DEF Settle, Reply, Leave, Await, TypeOK
<1>10. QED
  BY <1>1, <1>2, <1>3, <1>4, <1>5, <1>6, <1>7, <1>8, <1>9 DEF Turn

LEMMA ThreadJobs ==
  ASSUME TypeOK, JobInv, NEW t \in Turns, NEW h \in Hosts, Thread(t, h)
  PROVE  JobInv'
BY DEF Thread, Admit, Acquire, Withdraw, Answer, jobs, facts, JobInv, JobsOwned, CancelHonoured,
       RowOfTurn, TokenOfJob, Flying, Kind

LEMMA ProcessJobs ==
  ASSUME TypeOK, JobInv,
         \/ \E t \in Turns : Raise(t)
         \/ \E h \in Hosts : StartWrite(h) \/ StopWrite(h)
         \/ Crash
         \/ Restart
  PROVE  JobInv'
<1>1. CASE \E t \in Turns : Raise(t)
  <2>1. PICK t \in Turns : Raise(t)
    BY <1>1
  <2>2. QED
    BY <2>1, QuietMove DEF Raise, At, Leave, Await, TypeOK
<1>2. CASE \E h \in Hosts : StartWrite(h) \/ StopWrite(h)
  BY <1>2
  DEF StartWrite, StopWrite, jobs, local, facts, JobInv, JobsOwned, CancelHonoured, RowOfTurn,
      TokenOfJob, Flying, Kind
<1>3. CASE Crash
  BY <1>3
  DEF Crash, LoseTokens, JobInv, JobsOwned, CancelHonoured, RowOfTurn, TokenOfJob, TypeOK, Flying,
      InFlight, InLoop, InAwait
<1>4. CASE Restart
  <2>1. ~up /\ tokens = {} /\ \A t \in Turns : ~Flying(t)
    BY <1>4 DEF Restart, JobInv, RowOfTurn, TokenOfJob, TypeOK
  <2>2. QED
    BY <1>4, <2>1
    DEF Restart, ReconcileJobs, local, facts, JobInv, JobsOwned, CancelHonoured, RowOfTurn,
        TokenOfJob, TypeOK, Flying, Kind, InFlight, InLoop, InAwait, Active, JobStatus
<1>5. QED
  BY <1>1, <1>2, <1>3, <1>4

LEMMA StutterJobs == JobInv /\ UNCHANGED vars => JobInv'
BY DEF JobInv, JobsOwned, CancelHonoured, RowOfTurn, TokenOfJob, Flying, Kind, vars, jobs, local,
       facts

LEMMA JobsInvariant == Spec => [](TypeOK /\ JobInv)
<1>1. TypeOK /\ [Next]_vars => TypeOK'
  BY MessageTypes, CancelTypes, TurnTypes, ThreadTypes, ProcessTypes, StutterTypes DEF Next
<1>2. TypeOK /\ JobInv /\ [Next]_vars => JobInv'
  BY MessageJobs, CancelJobs, TurnJobs, ThreadJobs, ProcessJobs, StutterJobs DEF Next
<1>3. QED
  BY <1>1, <1>2, InitTypes, InitJobs, PTL DEF Spec

\* While the process runs, every active job has its token and somebody who
\* will finish it, unless an exception took its turn.
THEOREM JobsHaveOwners == Spec => []JobsOwned
BY JobsInvariant, PTL DEF JobInv

\* A cancellation that was acknowledged is never undone, by whatever turns,
\* threads, exceptions and restarts.
THEOREM CancellationsKept == Spec => []CancelHonoured
BY JobsInvariant, PTL DEF JobInv

\* No step, in this process or the next, takes a job out of a final status.
JobFinal == [][\A j \in Turns : row[j] \in Ended => row'[j] = row[j]]_vars

\* No step takes a job out of a final status: each of the methods finds the
\* row active or absent, though none of them looks.
THEOREM ResultsStay == Spec => JobFinal
<1> DEFINE Stays == \A j \in Turns : row[j] \in Ended => row'[j] = row[j]
<1>1. TypeOK /\ JobInv /\ [Next]_vars => [Stays]_vars
  <2> SUFFICES ASSUME TypeOK, JobInv, Next  PROVE Stays
    OBVIOUS
  <2>1. ASSUME NEW t \in Turns, Turn(t)  PROVE Stays
    <3>1. CASE Create(t)
      BY <3>1 DEF Create, CreateJob, TypeOK, Ended
    <3>2. CASE Start(t)
      <4>1. row[t] = "QUEUED" /\ row' = [row EXCEPT ![t] = "RUNNING"]
        BY <3>2 DEF Start, StartJob, At, JobInv, RowOfTurn
      <4>2. QED
        BY <4>1 DEF TypeOK, Ended
    <3>3. CASE Finish(t)
      <4>1. row[t] \in Active /\ \E s \in JobStatus : row' = [row EXCEPT ![t] = s]
        BY <3>3 DEF Finish, FinishJob, At, JobInv, RowOfTurn, JobStatus, Ended
      <4>2. QED
        BY <4>1 DEF TypeOK, Active, Ended
    <3>4. CASE UNCHANGED row
      BY <3>4
    <3>5. QED
      BY <2>1, <3>1, <3>2, <3>3, <3>4
      DEF Turn, Store, Gathered, Keep, Peeked, Planned, Answered, Settle, jobs
  <2>2. ASSUME NEW t \in Turns, NEW j \in Turns, CancelRunning(t, j)  PROVE Stays
    <3>1. row[j] \in Active /\ row' = [row EXCEPT ![j] = "CANCELLING"]
      BY <2>2 DEF CancelRunning, CancelJob, JobInv, TokenOfJob
    <3>2. QED
      BY <3>1 DEF TypeOK, Active, Ended
  <2>3. CASE Crash \/ Restart
    BY <2>3 DEF Crash, LoseTokens, Restart, ReconcileJobs, Active, Ended, TypeOK
  <2>4. CASE \/ \E t \in Turns, a \in Requests(conv) : Message(t, a)
             \/ \E t, j \in Turns : CancelFinished(t, j)
             \/ \E t \in Turns : Raise(t)
             \/ \E t \in Turns, h \in Hosts : Thread(t, h)
             \/ \E h \in Hosts : StartWrite(h) \/ StopWrite(h)
    BY <2>4
    DEF Message, CancelFinished, Raise, Thread, Admit, Acquire, Withdraw, Answer, StartWrite,
        StopWrite, jobs
  <2>5. QED
    BY <2>1, <2>2, <2>3, <2>4 DEF Next
<1>2. QED
  BY <1>1, JobsInvariant, PTL DEF Spec, JobFinal
-----------------------------------------------------------------------------
\* A job that is queued has a turn that is about to start it, or none.
Begun == \A t \in Turns : row[t] = "QUEUED" => pc[t] \in {"store", "start", "done"}

LEMMA InitBegun == Init => Begun
BY DEF Init, JobsInit, Begun

LEMMA NextBegun ==
  ASSUME TypeOK, JobInv, Begun, [Next]_vars
  PROVE  Begun'
<1>1. ASSUME NEW t \in Turns, Turn(t)  PROVE Begun'
  <2>1. CASE Create(t)
    BY <2>1 DEF Create, CreateJob, Go, Begun, TypeOK
  <2>2. CASE Start(t)
    BY <2>2 DEF Start, StartJob, Await, Begun, TypeOK
  <2>3. CASE Finish(t)
    <3>1. row' = [row EXCEPT ![t] = row'[t]] /\ row'[t] # "QUEUED"
      BY <2>3 DEF Finish, FinishJob, TypeOK
    <3>2. pc' = [pc EXCEPT ![t] = pc'[t]]
      BY <2>3 DEF Finish, Go, Reply, Leave, Await, TypeOK
    <3>3. QED
      BY <3>1, <3>2 DEF Begun, TypeOK
  <2>4. CASE Store(t)
    BY <2>4 DEF Store, Go, jobs, Begun, TypeOK
  <2>5. CASE \/ Gathered(t) \/ Keep(t) \/ Peeked(t) \/ Planned(t) \/ Answered(t) \/ Settle(t)
    <3>1. row[t] # "QUEUED"
      BY <2>5
      DEF Gathered, Keep, Peeked, Planned, Answered, Settle, At, Begun
    <3>2. row' = row /\ pc' = [pc EXCEPT ![t] = pc'[t]]
      BY <2>5
      DEF Gathered, Keep, Peeked, Planned, Answered, Settle, jobs, Go, Await, Reply, Leave, TypeOK
    <3>3. QED
      BY <3>1, <3>2 DEF Begun, TypeOK
  <2>6. QED
    BY <1>1, <2>1, <2>2, <2>3, <2>4, <2>5 DEF Turn
<1>2. ASSUME NEW t \in Turns, NEW a \in Requests(conv), Message(t, a)  PROVE Begun'
  <2>1. row' = row /\ row[t] = "ABSENT" /\ pc' = [pc EXCEPT ![t] = pc'[t]]
    BY <1>2 DEF Message, jobs, JobInv, RowOfTurn, Go, Await, TypeOK
  <2>2. QED
    BY <2>1 DEF Begun, TypeOK
<1>3. ASSUME NEW t \in Turns, NEW j \in Turns, CancelRunning(t, j) \/ CancelFinished(t, j)
      PROVE  Begun'
  BY <1>3 DEF CancelRunning, CancelFinished, CancelJob, jobs, Begun, TypeOK
<1>4. ASSUME NEW t \in Turns, Raise(t)  PROVE Begun'
  BY <1>4 DEF Raise, Leave, Await, jobs, Begun, TypeOK
<1>5. CASE Crash \/ Restart
  BY <1>5 DEF Crash, LoseTokens, Restart, ReconcileJobs, Begun, TypeOK
<1>6. CASE \/ \E t \in Turns, h \in Hosts : Thread(t, h)
           \/ \E h \in Hosts : StartWrite(h) \/ StopWrite(h)
           \/ UNCHANGED vars
  BY <1>6
  DEF Thread, Admit, Acquire, Withdraw, Answer, StartWrite, StopWrite, vars, jobs, Begun
<1>7. QED
  BY <1>1, <1>2, <1>3, <1>4, <1>5, <1>6 DEF Next

\* One move of one job in the ledger, read off the row.
LEMMA LedgerMove ==
  ASSUME TypeOK, NEW j \in Turns, NEW s \in JobStatus, row' = [row EXCEPT ![j] = s],
         \/ row[j] = "ABSENT" /\ s = "QUEUED" /\ acked' = acked
         \/ row[j] = "QUEUED" /\ s = "RUNNING" /\ j \notin acked /\ acked' = acked
         \/ row[j] = "RUNNING" /\ s \in {"SUCCEEDED", "FAILED"} /\ j \notin acked /\ acked' = acked
         \/ row[j] \in Active /\ s = "CANCELLING" /\ acked' = acked \cup {j}
         \/ row[j] = "CANCELLING" /\ s = "CANCELLED" /\ j \in acked /\ acked' = acked
  PROVE  Ledger!Next
BY DEF Ledger!Next, Ledger!Create, Ledger!Begin, Ledger!Conclude, Ledger!Cancel, Ledger!Obey,
       Ledger!Move, Ledger!Live, Active, JobStatus, Ended

\* A row says CANCELLING only if the owner was told so.
AskedIfCancelling == \A j \in Turns : row[j] = "CANCELLING" => j \in acked

LEMMA NextAsked ==
  ASSUME TypeOK, AskedIfCancelling, [Next]_vars
  PROVE  AskedIfCancelling'
<1>1. ASSUME NEW t \in Turns, Turn(t)  PROVE AskedIfCancelling'
  <2>1. acked' = acked /\ \A j \in Turns : row'[j] = "CANCELLING" => row[j] = "CANCELLING"
    BY <1>1
    DEF Turn, Create, CreateJob, Store, Start, StartJob, Gathered, Finish, FinishJob, Keep, Peeked,
        Planned, Answered, Settle, jobs, facts, TypeOK
  <2>2. QED
    BY <2>1 DEF AskedIfCancelling
<1>2. ASSUME NEW t \in Turns, NEW j \in Turns, CancelRunning(t, j)  PROVE AskedIfCancelling'
  BY <1>2 DEF CancelRunning, CancelJob, AskedIfCancelling, TypeOK
<1>3. CASE Crash \/ Restart
  BY <1>3 DEF Crash, LoseTokens, Restart, ReconcileJobs, facts, AskedIfCancelling, TypeOK
<1>4. CASE \/ \E t \in Turns, a \in Requests(conv) : Message(t, a)
           \/ \E t, j \in Turns : CancelFinished(t, j)
           \/ \E t \in Turns : Raise(t)
           \/ \E t \in Turns, h \in Hosts : Thread(t, h)
           \/ \E h \in Hosts : StartWrite(h) \/ StopWrite(h)
           \/ UNCHANGED vars
  BY <1>4
  DEF Message, CancelFinished, Raise, Thread, Admit, Acquire, Withdraw, Answer, StartWrite,
      StopWrite, vars, jobs, facts, AskedIfCancelling
<1>5. QED
  BY <1>1, <1>2, <1>3, <1>4 DEF Next

LEMMA LedgerStep ==
  ASSUME TypeOK, JobInv, Begun, AskedIfCancelling, [Next]_vars
  PROVE  [Ledger!Next]_(Ledger!vars)
<1>1. ASSUME NEW t \in Turns, Turn(t)  PROVE [Ledger!Next]_(Ledger!vars)
  <2>1. CASE Create(t)
    <3>1. row[t] = "ABSENT" /\ row' = [row EXCEPT ![t] = "QUEUED"] /\ acked' = acked
      BY <2>1 DEF Create, CreateJob, facts
    <3>2. QED
      BY <3>1, LedgerMove DEF JobStatus, Active
  <2>2. CASE Start(t)
    <3>1. row[t] = "QUEUED" /\ row' = [row EXCEPT ![t] = "RUNNING"] /\ acked' = acked
      BY <2>2 DEF Start, StartJob, At, facts, JobInv, RowOfTurn
    <3>2. t \notin acked
      BY <3>1 DEF JobInv, CancelHonoured
    <3>3. QED
      BY <3>1, <3>2, LedgerMove DEF JobStatus, Active
  <2>3. CASE Finish(t)
    <3>1. pc[t] = "finish" /\ row[t] \in Active \ {"QUEUED"} /\ t \in tokens /\ acked' = acked
      BY <2>3
      DEF Finish, At, JobInv, JobsOwned, RowOfTurn, Begun
    <3>2. PICK failed \in BOOLEAN : FinishJob(t, failed)
      BY <2>3 DEF Finish
    <3>3. CASE t \in cancelled
      <4>1. row[t] = "CANCELLING" /\ t \in acked /\ row' = [row EXCEPT ![t] = "CANCELLED"]
        BY <3>1, <3>2, <3>3 DEF FinishJob, JobInv, TokenOfJob, AskedIfCancelling
      <4>2. QED
        BY <3>1, <4>1, LedgerMove DEF JobStatus, Ended
    <3>4. CASE t \notin cancelled
      <4>1. row[t] = "RUNNING" /\ t \notin acked
        BY <3>1, <3>4 DEF JobInv, TokenOfJob, CancelHonoured, Active
      <4>2. \E s \in {"FAILED", "SUCCEEDED"} : row' = [row EXCEPT ![t] = s]
        BY <3>2, <3>4 DEF FinishJob
      <4>3. QED
        BY <3>1, <4>1, <4>2, LedgerMove DEF JobStatus, Ended
    <3>5. QED
      BY <3>3, <3>4
  <2>4. CASE Store(t) \/ Gathered(t) \/ Keep(t) \/ Peeked(t) \/ Planned(t) \/ Answered(t) \/ Settle(t)
    BY <2>4
    DEF Store, Gathered, Keep, Peeked, Planned, Answered, Settle, jobs, facts, Ledger!vars
  <2>5. QED
    BY <1>1, <2>1, <2>2, <2>3, <2>4 DEF Turn
<1>2. ASSUME NEW t \in Turns, NEW j \in Turns, CancelRunning(t, j)
      PROVE  [Ledger!Next]_(Ledger!vars)
  <2>1. row[j] \in Active /\ row' = [row EXCEPT ![j] = "CANCELLING"] /\ acked' = acked \cup {j}
    BY <1>2 DEF CancelRunning, CancelJob, JobInv, TokenOfJob
  <2>2. QED
    BY <2>1, LedgerMove DEF JobStatus, Active
<1>3. CASE Restart
  BY <1>3
  DEF Restart, ReconcileJobs, facts, Active, Ledger!Next, Ledger!Interrupt, Ledger!Live
<1>4. CASE \/ \E t \in Turns, a \in Requests(conv) : Message(t, a)
           \/ \E t, j \in Turns : CancelFinished(t, j)
           \/ \E t \in Turns : Raise(t)
           \/ \E t \in Turns, h \in Hosts : Thread(t, h)
           \/ \E h \in Hosts : StartWrite(h) \/ StopWrite(h)
           \/ Crash
           \/ UNCHANGED vars
  BY <1>4
  DEF Message, CancelFinished, Raise, Thread, Admit, Acquire, Withdraw, Answer, StartWrite,
      StopWrite, Crash, LoseTokens, vars, jobs, facts, Ledger!vars
<1>5. QED
  BY <1>1, <1>2, <1>3, <1>4 DEF Next

\* The jobs of the service implement JobLedger: queued, begun and ended once
\* each, and neither begun nor concluded after an acknowledged cancellation,
\* for any number of overlapping turns, exceptions, deaths and restarts.
THEOREM Refinement == Spec => JobPromise
<1>1. Init => Begun /\ AskedIfCancelling /\ Ledger!Init
  BY InitBegun DEF Init, JobsInit, AskedIfCancelling, Ledger!Init
<1>2. Begun /\ AskedIfCancelling /\ TypeOK /\ JobInv /\ [Next]_vars => Begun' /\ AskedIfCancelling'
  BY NextBegun, NextAsked
<1>3. QED
  BY <1>1, <1>2, JobsInvariant, LedgerStep, PTL DEF Spec, JobPromise, Ledger!Spec
-----------------------------------------------------------------------------
\* While the conversation is serial: one turn at a time; its copy is the row,
\* from the save that stores its context on; a READ is about the host that is
\* due; between the turns the row gives authority for that host or none, and
\* its last host is the subject; and it names the job of the READ that is
\* under way.
OneTurn == \A t, u \in Turns : (Flying(t) /\ Flying(u)) => t = u
CopyIsRow == \A t \in Turns : (Flying(t) /\ ~Unstored(t)) => copy[t] = conv
ReadIsDue ==
  \A t \in Turns : Flying(t) =>
    /\ Unstored(t) => Kind(t) \in SingleReads \cup FleetReads
    /\ Kind(t) \in SingleReads \cup FleetReads => ask[t].host = due
    /\ Unstored(t) => subject = SubjectOf(ask[t])
RowIsDue == (\A t \in Turns : ~Unstored(t)) =>
  conv.write_context_host \in {None, due} /\ conv.last_host = subject
InheritedIsDue ==
  \A t \in Turns : (Flying(t) /\ ask[t].inherited) =>
    ask[t].host = (IF Kind(t) = "write" THEN due ELSE subject)
JobIsLast == \A t \in Turns : pc[t] \in {"start", "gather"} => conv.last_job_id = t

Grounded == OneTurn /\ CopyIsRow /\ ReadIsDue /\ RowIsDue /\ InheritedIsDue /\ JobIsLast
SerialInv == serial => Grounded

LEMMA InitSerial == Init => SerialInv
BY DEF Init, SerialInv, Grounded, OneTurn, CopyIsRow, ReadIsDue, RowIsDue, InheritedIsDue,
       JobIsLast, Flying, Unstored, InFlight, InLoop, InAwait, EmptyRow

LEMMA RequestHosts ==
  ASSUME NEW state, NEW a \in Requests(state)
  PROVE  /\ a.inherited => \/ a.kind = "write" /\ a.host \in WriteHost(state)
                           \/ a.kind = "typed" /\ a.host = state.last_host
         /\ a.kind \in SingleReads \cup FleetReads \cup {"general", "write", "typed"}
<1>1. CASE \E k \in Kinds \cap (SingleReads \cup {"write", "typed"}), h \in Hosts :
             a = [kind |-> k, host |-> h, inherited |-> FALSE]
  BY <1>1
<1>2. CASE \E k \in Kinds \cap (FleetReads \cup {"general"}) :
             a = [kind |-> k, host |-> None, inherited |-> FALSE]
  BY <1>2
<1>3. CASE \E k \in Kinds \cap {"write"}, h \in WriteHost(state) :
             a = [kind |-> k, host |-> h, inherited |-> TRUE]
  BY <1>3
<1>4. CASE \E k \in Kinds \cap {"typed"}, h \in TypedHost(state) :
             a = [kind |-> k, host |-> h, inherited |-> TRUE]
  BY <1>4 DEF TypedHost
<1>5. QED
  BY <1>1, <1>2, <1>3, <1>4 DEF Requests

LEMMA MessageSerial ==
  ASSUME TypeOK, SerialInv, NEW t \in Turns, NEW a \in Requests(conv), Message(t, a), serial'
  PROVE  Grounded'
<1>1. serial /\ \A u \in Turns : ~Flying(u)
  BY DEF Message
<1>2. conv.write_context_host \in {None, due} /\ conv.last_host = subject
  BY <1>1 DEF SerialInv, Grounded, RowIsDue, Unstored, Flying, InFlight, InLoop
<1>3. a.inherited => /\ Scope(a.kind) = "none"
                     /\ a.host = (IF a.kind = "write" THEN due ELSE subject)
  BY <1>2, RequestHosts DEF WriteHost, Scope, SingleReads, FleetReads
<1>4. /\ pc' = [pc EXCEPT ![t] = pc'[t]] /\ ask' = [ask EXCEPT ![t] = a]
      /\ copy' = [copy EXCEPT ![t] = conv] /\ conv' = conv
      /\ pc'[t] = "create" <=> a.kind \in SingleReads \cup FleetReads
      /\ pc'[t] \in {"create", "answer", "peek"}
      /\ due' = (IF Scope(a.kind) = "none" THEN due ELSE a.host) /\ subject' = SubjectOf(a)
  BY DEF Message, Go, Await, Note, TypeOK
<1>5. \A u \in Turns \ {t} : ~Flying(u)' /\ ~Unstored(u)'
  BY <1>1, <1>4 DEF Flying, Unstored, InFlight, InLoop, InAwait, TypeOK
<1>6. OneTurn' /\ CopyIsRow'
  BY <1>4, <1>5 DEF OneTurn, CopyIsRow, Unstored, TypeOK
<1>6a. a.kind \notin SingleReads \cup FleetReads <=> Scope(a.kind) = "none"
  BY DEF Scope, SingleReads, FleetReads
<1>6b. Scope(a.kind) = "none" => SubjectOf(a) = subject
  BY DEF SubjectOf
<1>6c. Scope(a.kind) # "none" => SubjectOf(a)' = SubjectOf(a)
  BY DEF SubjectOf, Scope
<1>7. ReadIsDue' /\ InheritedIsDue'
  BY <1>3, <1>4, <1>5, <1>6a, <1>6b, <1>6c
  DEF ReadIsDue, InheritedIsDue, Unstored, Kind, TypeOK
<1>8. RowIsDue'
  BY <1>2, <1>4, <1>5, <1>6a, <1>6b DEF RowIsDue, Unstored, TypeOK
<1>9. JobIsLast'
  BY <1>4, <1>5 DEF JobIsLast, Flying, InFlight, InLoop, InAwait, TypeOK
<1>10. QED
  BY <1>6, <1>7, <1>8, <1>9 DEF Grounded

\* A turn moves, or leaves, and does not touch the row.
LEMMA QuietSerial ==
  ASSUME TypeOK, Grounded, NEW t \in Turns, Flying(t),
         pc' = [pc EXCEPT ![t] = pc'[t]], UNCHANGED <<conv, due, subject>>,
         pc'[t] # "start", pc'[t] = "gather" => pc[t] = "start",
         \/ UNCHANGED <<ask, copy>> /\ (Unstored(t)' <=> Unstored(t))
         \/ ~Flying(t)' /\ ~Unstored(t) /\ ~Unstored(t)'
              /\ \A u \in Turns \ {t} : ask'[u] = ask[u] /\ copy'[u] = copy[u]
  PROVE  Grounded'
<1>1. \A u \in Turns \ {t} : ~Flying(u) /\ ~Flying(u)' /\ ~Unstored(u) /\ ~Unstored(u)'
  BY DEF Grounded, OneTurn, Flying, Unstored, InFlight, InLoop, TypeOK
<1>2. OneTurn' /\ CopyIsRow'
  BY <1>1 DEF Grounded, OneTurn, CopyIsRow, Flying
<1>3. ReadIsDue' /\ InheritedIsDue'
  BY <1>1 DEF Grounded, ReadIsDue, InheritedIsDue, SubjectOf, Flying, Kind
<1>4. RowIsDue'
  BY <1>1 DEF Grounded, RowIsDue
<1>5. JobIsLast'
  BY <1>1 DEF Grounded, JobIsLast, Flying, InFlight, InLoop, InAwait
<1>6. QED
  BY <1>2, <1>3, <1>4, <1>5 DEF Grounded

LEMMA TurnSerial ==
  ASSUME TypeOK, SerialInv, NEW t \in Turns, Turn(t), serial'
  PROVE  Grounded'
<1>0. Flying(t) /\ serial /\ Grounded
  BY DEF Turn, Create, Store, Start, Gathered, Finish, Keep, Peeked, Planned, Answered, Settle, At,
         Flying, InFlight, InLoop, InAwait, facts, SerialInv
<1>a. \A u \in Turns \ {t} : ~Flying(u) /\ ~Unstored(u)
  BY <1>0 DEF Grounded, OneTurn, Flying, Unstored, InFlight, InLoop
<1>1. CASE Create(t) \/ Start(t) \/ Gathered(t) \/ Answered(t)
  BY <1>0, <1>1, QuietSerial
  DEF Create, Start, Gathered, Answered, At, Go, Await, local, facts, Unstored, TypeOK
<1>2. CASE Store(t)
  <2>1. Unstored(t) /\ ~Unstored(t)' /\ UNCHANGED <<ask, due, subject>>
        /\ pc' = [pc EXCEPT ![t] = "start"]
    BY <1>2 DEF Store, At, Go, Unstored, TypeOK, facts
  <2>2. conv' = Established(t) /\ copy' = [copy EXCEPT ![t] = Established(t)]
    BY <1>2 DEF Store, Save
  <2>3. /\ Established(t).write_context_host \in {None, due}
        /\ Established(t).last_host = subject
    BY <1>0, <2>1
    DEF Grounded, ReadIsDue, SubjectOf, Scope, SingleReads, FleetReads, Established, EmptyRow, Kind
  <2>4. \A u \in Turns \ {t} : ~Flying(u)' /\ ~Unstored(u)'
    BY <1>a, <2>1 DEF Flying, Unstored, TypeOK
  <2>5. OneTurn' /\ CopyIsRow'
    BY <2>2, <2>4 DEF OneTurn, CopyIsRow, TypeOK
  <2>6. ReadIsDue' /\ InheritedIsDue'
    BY <1>0, <2>1, <2>4 DEF Grounded, ReadIsDue, InheritedIsDue, Kind
  <2>7. RowIsDue'
    BY <2>1, <2>2, <2>3 DEF RowIsDue
  <2>8. JobIsLast'
    BY <2>2, <2>4 DEF JobIsLast, Established, Flying, InFlight, InLoop, InAwait
  <2>9. QED
    BY <2>5, <2>6, <2>7, <2>8 DEF Grounded
<1>3. CASE Finish(t) \/ Keep(t) \/ Peeked(t) \/ Planned(t)
  <2>1. ~Unstored(t)
    BY <1>3 DEF Finish, Keep, Peeked, Planned, At, Unstored
  <2>2. UNCHANGED <<conv, due, subject>>
    BY <1>0, <1>3, <2>1 DEF Finish, Keep, Save, Peeked, Planned, Grounded, CopyIsRow
  <2>3. CASE \E place \in {"keep", "finish", "plan", "settle"} :
               pc' = [pc EXCEPT ![t] = place] /\ UNCHANGED local
    BY <1>0, <2>1, <2>2, <2>3, QuietSerial DEF local, Unstored, TypeOK
  <2>4. CASE Reply(t)
    BY <1>0, <2>1, <2>2, <2>4, QuietSerial
    DEF Reply, Leave, Await, Unstored, Flying, InFlight, InLoop, InAwait, TypeOK
  <2>5. QED
    BY <1>3, <2>3, <2>4 DEF Finish, Keep, Peeked, Planned, Go, Await
<1>4. CASE Settle(t)
  <2>1. copy[t] = conv /\ \A u \in Turns : ~Unstored(u)
    BY <1>0, <1>a, <1>4 DEF Settle, At, Unstored, Grounded, CopyIsRow
  <2>2. conv.write_context_host \in {None, due} /\ conv.last_host = subject
    BY <1>0, <2>1 DEF Grounded, RowIsDue
  <2>3. conv'.write_context_host \in {None, due'} /\ conv'.last_host = subject'
    BY <1>4, <2>1, <2>2 DEF Settle, Save, Settled, Note, TypeOK, Row
  <2>4. \A u \in Turns : ~Flying(u)' /\ ~Unstored(u)'
    BY <1>a, <1>4
    DEF Settle, Reply, Leave, Await, Flying, Unstored, InFlight, InLoop, InAwait, TypeOK
  <2>5. QED
    BY <2>3, <2>4
    DEF Grounded, OneTurn, CopyIsRow, ReadIsDue, RowIsDue, InheritedIsDue, JobIsLast, Flying,
        InFlight, InLoop, InAwait
<1>5. QED
  BY <1>1, <1>2, <1>3, <1>4 DEF Turn

LEMMA OtherSerial ==
  ASSUME TypeOK, SerialInv, serial',
         \/ \E t \in Turns : Raise(t) \/ (\E j \in Turns : CancelRunning(t, j) \/ CancelFinished(t, j))
         \/ \E t \in Turns, h \in Hosts : Thread(t, h)
         \/ \E h \in Hosts : StartWrite(h) \/ StopWrite(h)
         \/ Crash \/ Restart \/ UNCHANGED vars
  PROVE  Grounded'
<1>1. CASE \E t \in Turns : Raise(t)
  <2>1. PICK t \in Turns : Raise(t)
    BY <1>1
  <2>2. Flying(t) /\ ~Unstored(t) /\ Grounded
    BY <2>1 DEF Raise, SerialInv
  <2>3. QED
    BY <2>1, <2>2, QuietSerial
    DEF Raise, Note, Leave, Await, Unstored, Flying, InFlight, InLoop, InAwait, TypeOK
<1>2. CASE \E t, j \in Turns : CancelRunning(t, j) \/ CancelFinished(t, j)
  <2>1. PICK t, j \in Turns : CancelRunning(t, j) \/ CancelFinished(t, j)
    BY <1>2
  <2>2. /\ pc[t] = "new" /\ pc' = [pc EXCEPT ![t] = "done"]
        /\ UNCHANGED <<conv, ask, copy, serial, due, subject>>
    BY <2>1 DEF CancelRunning, CancelFinished, local, facts
  <2>3. \A u \in Turns : (Flying(u)' <=> Flying(u)) /\ (Unstored(u)' <=> Unstored(u))
    BY <2>2 DEF Flying, Unstored, InFlight, InLoop, InAwait, TypeOK
  <2>4. Grounded
    BY <2>2 DEF SerialInv
  <2>5. OneTurn' /\ CopyIsRow' /\ RowIsDue'
    BY <2>2, <2>3, <2>4 DEF Grounded, OneTurn, CopyIsRow, RowIsDue
  <2>6. ReadIsDue' /\ InheritedIsDue'
    BY <2>2, <2>3, <2>4 DEF Grounded, ReadIsDue, InheritedIsDue, SubjectOf, Kind
  <2>7. JobIsLast'
    BY <2>2, <2>4 DEF Grounded, JobIsLast, TypeOK
  <2>8. QED
    BY <2>5, <2>6, <2>7 DEF Grounded
<1>3. CASE \/ \E t \in Turns, h \in Hosts : Thread(t, h)
           \/ \E h \in Hosts : StartWrite(h) \/ StopWrite(h)
           \/ Restart \/ UNCHANGED vars
  <2>1. UNCHANGED <<conv, pc, ask, copy, serial, due, subject>>
    BY <1>3
    DEF Thread, Admit, Acquire, Withdraw, Answer, StartWrite, StopWrite, Restart, vars, local, facts
  <2>2. QED
    BY <2>1
    DEF SerialInv, Grounded, OneTurn, CopyIsRow, ReadIsDue, RowIsDue, InheritedIsDue, JobIsLast,
        SubjectOf, Flying, Unstored, Kind
<1>4. CASE Crash
  <2>1. /\ \A u \in Turns : ~Unstored(u) /\ ~Flying(u)' /\ ~Unstored(u)'
        /\ UNCHANGED <<conv, due, subject>> /\ Grounded
    BY <1>4 DEF Crash, Note, SerialInv, Flying, Unstored, InFlight, InLoop, InAwait, TypeOK
  <2>2. QED
    BY <2>1
    DEF Grounded, OneTurn, CopyIsRow, ReadIsDue, RowIsDue, InheritedIsDue, JobIsLast, Flying,
        InFlight, InLoop, InAwait
<1>5. QED
  BY <1>1, <1>2, <1>3, <1>4

LEMMA SerialAlways == Spec => []SerialInv
<1>1. TypeOK /\ SerialInv /\ [Next]_vars => SerialInv'
  BY MessageSerial, TurnSerial, OtherSerial DEF Next, SerialInv
<1>2. QED
  BY <1>1, TypeCorrect, InitSerial, PTL DEF Spec

\* As long as the owner awaits each answer, an unnamed WRITE is planned for
\* the host of the last READ, and for none after a fleet READ, a general answer
\* or another plan; an unnamed typed action is for the host last read (if it is
\* remembered), planned for or given a proposal, and for none after a fleet
\* READ, whatever raises or crashes once the context of a READ is stored.
THEOREM WritesGrounded == Spec => []WriteGrounded
<1>1. SerialInv => WriteGrounded
  BY DEF SerialInv, Grounded, InheritedIsDue, WriteGrounded
<1>2. QED
  BY <1>1, SerialAlways, PTL

\* As long as the owner begins no two turns at once, a cancel without a
\* number is for the READ that runs: no save of another turn has put an
\* older job back.
THEOREM CancelsFind == Spec => []CancelFindsIt
<1>1. TypeOK /\ JobInv /\ SerialInv => CancelFindsIt
  <2>1. SUFFICES ASSUME TypeOK, JobInv, SerialInv, serial, loop = None,
                        NEW t \in Turns, Flying(t), row[t] \in Active
                 PROVE  Meant(conv) = {t}
    BY DEF CancelFindsIt
  <2>2. pc[t] = "gather"
    BY <2>1, ServiceAssumption DEF TypeOK, JobInv, RowOfTurn, Flying, InFlight, InAwait
  <2>3. conv.last_job_id = t /\ t # None
    BY <2>1, <2>2, ServiceAssumption DEF SerialInv, Grounded, JobIsLast
  <2>4. QED
    BY <2>3 DEF Meant
<1>2. QED
  BY <1>1, TypeCorrect, JobsInvariant, SerialAlways, PTL
=============================================================================
