---------------------------- MODULE AgentService ----------------------------
(***************************************************************************)
(* services/agent_service.py: the turns of one conversation.               *)
(*                                                                         *)
(* A message of the owner becomes a task (discord_app/gateway.py); its     *)
(* turn takes a copy of the conversation row, and every save writes the    *)
(* whole row from that copy.  Between two awaits a turn has the event loop *)
(* to itself; while it awaits, other turns run.  The hosts are read by     *)
(* threads.  Transactions are steps of their own, for the process may die  *)
(* between them.                                                           *)
(*                                                                         *)
(* A turn creates at most one job, so the job has the name of the turn.    *)
(* Messages that are turned away change nothing and are left out.          *)
(***************************************************************************)
EXTENDS Naturals, FiniteSets

CONSTANTS Turns, Hosts,
          Kinds,        \* the kinds of message that are sent
          WriteHosts,   \* hosts on which approved commands run
          MayRaise,     \* turns in which a step may raise
          Parallel,     \* max_parallel_hosts
          Remember,     \* remember_last_host
          None          \* NULL

\* What a message asks for, once its text is understood: a READ of one host
\* by the agent or by inspection, of the fleet by the agents, by inspection
\* or from the traffic history, a general question, a WRITE to be planned, a
\* typed action, the end of a job.
MessageKinds == {"investigate", "inspect", "fleet", "fleet_scope", "fleet_traffic",
                 "general", "write", "typed", "cancel"}
SingleReads == {"investigate", "inspect"}
FleetReads  == {"fleet", "fleet_scope", "fleet_traffic"}
HeavyReads  == {"investigate", "fleet", "fleet_scope"}

ASSUME ServiceAssumption ==
  /\ Kinds \subseteq MessageKinds
  /\ WriteHosts \subseteq Hosts
  /\ MayRaise \subseteq Turns
  /\ Parallel \in Nat \ {0}
  /\ Remember \in BOOLEAN
  /\ None \notin Hosts /\ None \notin Turns

VARIABLES
  \* the database
  row, conv,       \* the jobs, and the row of conversation_state
  \* the process
  up, loop,        \* loop: the turn that has the event loop, or None
  tokens, cancelled,
  pc,              \* where a turn is
  ask,             \* the kind of its message, the host it is about, and
                   \* whether the conversation named the host of a WRITE
  copy,            \* its ConversationState
  worker,          \* its thread on each host
  writing,         \* hosts on which an approved command runs
  \* facts no code reads
  serial,          \* so far no turn met another, or was cut off unsaved
  due, subject,    \* the host a planned, a typed WRITE takes from the
                   \* conversation, turn by turn
  asked, shown,    \* the scope the owner asked for last, was answered since
  acked,           \* jobs whose cancellation was acknowledged
  raised           \* turns that ended in an exception

INSTANCE JobManager WITH Jobs <- Turns

jobs  == <<row, tokens, cancelled>>
local == <<ask, copy, worker>>
facts == <<serial, due, subject, asked, shown, acked, raised>>
vars  == <<jobs, conv, up, loop, pc, local, writing, facts>>

Working  == {"waiting", "queue", "reading"}
Outcomes == {"ok", "failed", "cancelled"}
InLoop   == {"create", "store", "start", "finish", "keep", "settle"}
InAwait  == {"gather", "peek", "plan", "answer"}
InFlight == InLoop \cup InAwait
Scopes   == {"none", "single", "fleet"}

\* The columns that decide where a WRITE may go, and what a cancel without a
\* number means.
Row == [last_host : Hosts \cup {None}, write_context_host : Hosts \cup {None},
        last_job_id : Turns \cup {None}]
Ask == [kind : Kinds \cup {"none"}, host : Hosts \cup {None}, inherited : BOOLEAN]

EmptyRow == [last_host |-> None, write_context_host |-> None, last_job_id |-> None]
Silent   == [kind |-> "none", host |-> None, inherited |-> FALSE]
NoWorker == [h \in Hosts |-> "none"]

Flying(t)   == pc[t] \in InFlight
Kind(t)     == ask[t].kind
Scope(k)    == IF k \in SingleReads THEN "single" ELSE IF k \in FleetReads THEN "fleet" ELSE "none"
Reads(t)    == IF Kind(t) \in FleetReads THEN Hosts ELSE {ask[t].host}
Unstored(t) == pc[t] \in {"create", "store"}
Idle(t)     == \A h \in Hosts : worker[t][h] \notin Working
Read(t)     == Kind(t) = "investigate" /\ worker[t][ask[t].host] = "ok"

\* seeded fault: the semaphore of a fleet read is never given back
SlotsNeverFreed(t) == Cardinality({h \in Hosts : worker[t][h] \notin {"none", "waiting"}})

\* What the semaphore of a fleet read has given out.
Slots(t) == Cardinality({h \in Hosts : worker[t][h] \in {"queue", "reading"}})

\* RWLock!Admissible for a READ or HEAVY_READ; the announcement of a WRITE,
\* which only delays readers, is left to HostLock.
LockFree(t, h) ==
  /\ h \notin writing
  /\ Kind(t) \in HeavyReads =>
       \A u \in Turns : ~(worker[u][h] = "reading" /\ Kind(u) \in HeavyReads)

\* The readers that a WRITE waits for: the traffic history is read without the
\* lock, as is the host before a plan or a typed action.
LockedRead(h) == \E t \in Turns : Kind(t) # "fleet_traffic" /\ worker[t][h] = "reading"

\* The turn goes on without giving the loop away, gives it away at an await,
\* or takes it again when what it awaited is there.
At(t, place)    == up /\ pc[t] = place /\ loop = (IF place \in InLoop THEN t ELSE None)
Go(t, place)    == pc' = [pc EXCEPT ![t] = place] /\ loop' = t
Await(t, place) == pc' = [pc EXCEPT ![t] = place] /\ loop' = None
Work(t, h, w)   == worker' = [worker EXCEPT ![t][h] = w]

\* The turn is over and its locals with it; a reply tells the owner a scope.
Leave(t) ==
  /\ Await(t, "done")
  /\ ask'    = [ask EXCEPT ![t] = Silent]
  /\ copy'   = [copy EXCEPT ![t] = EmptyRow]
  /\ worker' = [worker EXCEPT ![t] = NoWorker]
Reply(t) ==
  /\ Leave(t)
  /\ shown' = IF Scope(Kind(t)) = "none" THEN shown ELSE Scope(Kind(t))

\* What a serial conversation is about; of another one nothing is claimed.
Note(d, s) == due' = (IF serial' THEN d ELSE None) /\ subject' = (IF serial' THEN s ELSE None)

\* conversations.save: the whole row, from the turn's copy.
Save(state) == conv' = state
-----------------------------------------------------------------------------
Init ==
  /\ JobsInit
  /\ conv = EmptyRow
  /\ up = TRUE /\ loop = None
  /\ pc = [t \in Turns |-> "new"]
  /\ ask = [t \in Turns |-> Silent]
  /\ copy = [t \in Turns |-> EmptyRow]
  /\ worker = [t \in Turns |-> NoWorker]
  /\ writing = {}
  /\ serial = TRUE /\ due = None /\ subject = None
  /\ asked = "none" /\ shown = "none"
  /\ acked = {} /\ raised = {}

\* _resolve_write_host: the host a WRITE that names none may be planned for.
WriteHost(state) ==
  IF Remember /\ state.last_host # None /\ state.write_context_host = state.last_host
  THEN {state.last_host} ELSE {}

\* The host a typed action that names none is for ("C.5 再起動して", "それやって"):
\* neither remember_last_host nor write_context_host is asked.
TypedHost(state) == {state.last_host} \ {None}

\* The requests a message can make of a conversation that stands so.
Requests(state) ==
  {[kind |-> k, host |-> h, inherited |-> FALSE] :
      k \in Kinds \cap (SingleReads \cup {"write", "typed"}), h \in Hosts}
  \cup {[kind |-> k, host |-> None, inherited |-> FALSE] :
      k \in Kinds \cap (FleetReads \cup {"general"})}
  \cup {[kind |-> k, host |-> h, inherited |-> TRUE] :
      k \in Kinds \cap {"write"}, h \in WriteHost(state)}
  \cup {[kind |-> k, host |-> h, inherited |-> TRUE] :
      k \in Kinds \cap {"typed"}, h \in TypedHost(state)}

\* What the conversation is about once a message has been read.
SubjectOf(a) ==
  IF Scope(a.kind) = "none" THEN subject
  ELSE IF Scope(a.kind) = "single" /\ Remember THEN a.host ELSE None

\* handle_question up to its first await or transaction.
Message(t, a) ==
  /\ up /\ loop = None /\ pc[t] = "new"
  /\ a \in Requests(conv)
  /\ copy' = [copy EXCEPT ![t] = conv]
  /\ ask' = [ask EXCEPT ![t] = a]
  /\ IF a.kind \in SingleReads \cup FleetReads THEN Go(t, "create")
     ELSE Await(t, IF a.kind = "general" THEN "answer" ELSE "peek")
  /\ serial' = (serial /\ \A u \in Turns : ~Flying(u))
  /\ Note(IF Scope(a.kind) = "none" THEN due ELSE a.host, SubjectOf(a))
  /\ IF Scope(a.kind) = "none" THEN UNCHANGED <<asked, shown>>
     ELSE asked' = Scope(a.kind) /\ shown' = "none"
  /\ UNCHANGED <<jobs, conv, up, worker, writing, acked, raised>>

\* The job that a cancel without a number is for: the last one of the
\* conversation, or the only one there is.
Meant(state) ==
  IF state.last_job_id # None THEN {state.last_job_id}
  ELSE {j \in Turns : {i \in Turns : row[i] \in Active} = {j}}

\* A message that ends job j, by its number or as the one that is Meant:
\* answered without an await.
CancelRunning(t, j) ==
  /\ "cancel" \in Kinds
  /\ up /\ loop = None /\ pc[t] = "new"
  /\ CancelJob(j)
  /\ acked' = acked \cup {j}
  /\ pc' = [pc EXCEPT ![t] = "done"]
  /\ UNCHANGED <<conv, up, loop, local, writing, serial, due, subject, asked, shown, raised>>
CancelFinished(t, j) ==
  /\ "cancel" \in Kinds
  /\ up /\ loop = None /\ pc[t] = "new"
  /\ row[j] # "ABSENT" /\ j \notin tokens
  /\ pc' = [pc EXCEPT ![t] = "done"]
  /\ UNCHANGED <<jobs, conv, up, loop, local, writing, facts>>
-----------------------------------------------------------------------------
\* A READ: its job, the context it establishes, its threads.
Create(t) ==
  /\ At(t, "create")
  /\ CreateJob(t)
  /\ Go(t, "store")
  /\ UNCHANGED <<conv, up, local, writing, facts>>

\* seeded fault: a READ of the fleet leaves the job of an earlier READ there
EstablishedKeepsJob(t) ==
  IF Kind(t) \in FleetReads THEN [EmptyRow EXCEPT !.last_job_id = copy[t].last_job_id]
  ELSE [last_host |-> IF Remember THEN ask[t].host ELSE None,
        write_context_host |-> ask[t].host, last_job_id |-> t]

Established(t) ==
  IF Kind(t) \in FleetReads THEN [EmptyRow EXCEPT !.last_job_id = t]
  ELSE [last_host |-> IF Remember THEN ask[t].host ELSE None,
        write_context_host |-> ask[t].host, last_job_id |-> t]

Store(t) ==
  /\ At(t, "store")
  /\ copy' = [copy EXCEPT ![t] = Established(t)]
  /\ Save(Established(t))
  /\ Go(t, "start")
  /\ UNCHANGED <<jobs, up, ask, worker, writing, facts>>

Start(t) ==
  /\ At(t, "start")
  /\ StartJob(t)
  /\ worker' = [worker EXCEPT ![t] = [h \in Hosts |-> IF h \in Reads(t) THEN "waiting" ELSE "none"]]
  /\ Await(t, "gather")
  /\ UNCHANGED <<conv, up, ask, copy, writing, facts>>

\* A thread is given a slot, the coroutine having looked at the token; it
\* takes the lock, or leaves the queue cancelled; it answers, fails, or sees
\* the token and stops.
Admit(t, h) ==
  /\ up /\ loop = None /\ worker[t][h] = "waiting" /\ Slots(t) < Parallel
  /\ Work(t, h, IF t \in cancelled THEN "cancelled"
                ELSE IF Kind(t) = "fleet_traffic" THEN "reading" ELSE "queue")
  /\ UNCHANGED <<jobs, conv, up, loop, pc, ask, copy, writing, facts>>
Acquire(t, h) ==
  /\ up /\ worker[t][h] = "queue" /\ LockFree(t, h)
  /\ Work(t, h, "reading")
  /\ UNCHANGED <<jobs, conv, up, loop, pc, ask, copy, writing, facts>>
Withdraw(t, h) ==
  /\ up /\ worker[t][h] = "queue" /\ t \in cancelled
  /\ Work(t, h, "cancelled")
  /\ UNCHANGED <<jobs, conv, up, loop, pc, ask, copy, writing, facts>>
Answer(t, h, w) ==
  /\ up /\ worker[t][h] = "reading"
  /\ w = "cancelled" => t \in cancelled
  /\ Work(t, h, w)
  /\ UNCHANGED <<jobs, conv, up, loop, pc, ask, copy, writing, facts>>

\* seeded fault: the first answer is taken for all
GatheredEarly(t) ==
  /\ At(t, "gather") /\ \E h \in Reads(t) : worker[t][h] \in Outcomes
  /\ Go(t, IF Kind(t) \in {"fleet", "fleet_traffic"} THEN "keep" ELSE "finish")
  /\ UNCHANGED <<jobs, conv, up, local, writing, facts>>

\* The threads are back (and the fleet's answers summed up): the agents of
\* a fleet and its traffic are kept before the job is finished.
Gathered(t) ==
  /\ At(t, "gather") /\ Idle(t)
  /\ Go(t, IF Kind(t) \in {"fleet", "fleet_traffic"} THEN "keep" ELSE "finish")
  /\ UNCHANGED <<jobs, conv, up, local, writing, facts>>

\* finish; where an answer is put into words, that may raise too, and the
\* handler around it finishes the job as failed.
Finish(t) ==
  /\ At(t, "finish")
  /\ \E failed \in BOOLEAN :
       /\ (\E h \in Hosts : worker[t][h] = "failed") => failed
       /\ failed => (t \in MayRaise \/ \E h \in Hosts : worker[t][h] # "ok")
       /\ FinishJob(t, failed)
  /\ IF Read(t)
     THEN Go(t, "keep") /\ UNCHANGED <<local, shown>>
     ELSE Reply(t)
  /\ UNCHANGED <<conv, up, writing, serial, due, subject, asked, acked, raised>>

\* What was found is saved with the rest of the copy.  An investigation may
\* go on to a proposal; a WRITE that could not be planned ends here.
Keep(t) ==
  /\ At(t, "keep")
  /\ Save(copy[t])
  /\ \/ /\ Kind(t) \in FleetReads
        /\ Go(t, "finish") /\ UNCHANGED <<local, shown>>
     \/ /\ Kind(t) = "investigate"
        /\ Await(t, "plan") /\ UNCHANGED <<local, shown>>
     \/ /\ Kind(t) \in {"investigate", "write"}
        /\ Reply(t)
  /\ UNCHANGED <<jobs, up, writing, serial, due, subject, asked, acked, raised>>
-----------------------------------------------------------------------------
\* The READ that precedes a plan or a typed action, without the lock: a
\* typed action is then proposed, or found not to be needed.
Peeked(t) ==
  /\ At(t, "peek")
  /\ \/ /\ Kind(t) = "write"
        /\ Await(t, "plan") /\ UNCHANGED <<local, shown>>
     \/ /\ Kind(t) = "typed"
        /\ Go(t, "settle") /\ UNCHANGED <<local, shown>>
     \/ /\ Kind(t) = "typed"
        /\ Reply(t)
  /\ UNCHANGED <<jobs, conv, up, writing, serial, due, subject, asked, acked, raised>>

\* The planner answered: a proposal, or none.  After an investigation the
\* missing plan, and the proposal of a missing capability, save nothing.
Planned(t) ==
  /\ At(t, "plan")
  /\ \/ Go(t, "settle") /\ UNCHANGED <<local, shown>>
     \/ /\ Kind(t) = "write"
        /\ Go(t, "keep") /\ UNCHANGED <<local, shown>>
     \/ /\ Kind(t) = "investigate"
        /\ Reply(t)
  /\ UNCHANGED <<jobs, conv, up, writing, serial, due, subject, asked, acked, raised>>

Answered(t) ==
  /\ At(t, "answer")
  /\ Go(t, "settle")
  /\ UNCHANGED <<jobs, conv, up, local, writing, facts>>

\* seeded fault: a proposal leaves the authority it used
SettledKeepsAuthority(t) ==
  IF Kind(t) = "general" THEN [copy[t] EXCEPT !.write_context_host = None]
  ELSE [copy[t] EXCEPT !.last_host = ask[t].host]

\* The row after a general answer, a typed proposal or an assessment of a
\* reboot, a plan.
Settled(t) ==
  CASE Kind(t) = "general" -> [copy[t] EXCEPT !.write_context_host = None]
    [] Kind(t) = "typed"   -> [copy[t] EXCEPT !.last_host = ask[t].host]
    [] OTHER -> [copy[t] EXCEPT !.last_host = ask[t].host, !.write_context_host = None]

Settle(t) ==
  /\ At(t, "settle")
  /\ Save(Settled(t))
  /\ Reply(t)
  /\ UNCHANGED <<jobs, up, writing, serial, asked, acked, raised>>
  /\ Note(IF Kind(t) = "typed" THEN due ELSE None,
          IF Kind(t) = "general" THEN subject ELSE ask[t].host)

\* An exception nobody in the service catches: a busy database in a save, a
\* model that does not answer.  The gateway logs it.
Raise(t) ==
  /\ t \in MayRaise /\ pc[t] # "gather"
  /\ At(t, pc[t]) /\ Flying(t)
  /\ raised' = raised \cup {t}
  /\ serial' = (serial /\ ~Unstored(t)) /\ Note(due, subject)
  /\ Leave(t)
  /\ UNCHANGED <<jobs, conv, up, writing, asked, shown, acked>>
-----------------------------------------------------------------------------
\* An approved command takes and leaves the WRITE lock (ActionCoordinator).
StartWrite(h) ==
  /\ up /\ h \in WriteHosts \ writing /\ ~LockedRead(h)
  /\ writing' = writing \cup {h}
  /\ UNCHANGED <<jobs, conv, up, loop, pc, local, facts>>
StopWrite(h) ==
  /\ up /\ h \in writing
  /\ writing' = writing \ {h}
  /\ UNCHANGED <<jobs, conv, up, loop, pc, local, facts>>

Crash ==
  /\ up /\ up' = FALSE /\ loop' = None
  /\ LoseTokens
  /\ pc' = [t \in Turns |-> IF Flying(t) THEN "done" ELSE pc[t]]
  /\ ask' = [t \in Turns |-> Silent]
  /\ copy' = [t \in Turns |-> EmptyRow]
  /\ worker' = [t \in Turns |-> NoWorker]
  /\ writing' = {} /\ raised' = {}
  /\ serial' = (serial /\ \A t \in Turns : ~Unstored(t)) /\ Note(due, subject)
  /\ UNCHANGED <<conv, asked, shown, acked>>

\* run-discord: reconcile_stale, then the bot.
Restart ==
  /\ ~up /\ up' = TRUE
  /\ ReconcileJobs
  /\ UNCHANGED <<conv, loop, pc, local, writing, facts>>

Turn(t) == \/ Create(t) \/ Store(t) \/ Start(t) \/ Gathered(t) \/ Finish(t) \/ Keep(t)
           \/ Peeked(t) \/ Planned(t) \/ Answered(t) \/ Settle(t)
Thread(t, h) == \/ Admit(t, h) \/ Acquire(t, h) \/ Withdraw(t, h)
                \/ \E w \in Outcomes : Answer(t, h, w)

Next ==
  \/ \E t \in Turns :
       \/ \E a \in Requests(conv) : Message(t, a)
       \/ \E j \in Turns : CancelRunning(t, j) \/ CancelFinished(t, j)
       \/ Turn(t)
       \/ Raise(t)
       \/ \E h \in Hosts : Thread(t, h)
  \/ \E h \in Hosts : StartWrite(h) \/ StopWrite(h)
  \/ Crash
  \/ Restart

Spec == Init /\ [][Next]_vars

\* The event loop runs what is ready, threads run, tools and the model
\* answer within their timeouts.
Fairness ==
  /\ \A t \in Turns : WF_vars(Turn(t))
  /\ \A t \in Turns, h \in Hosts : WF_vars(Thread(t, h))
FairSpec == Spec /\ Fairness
-----------------------------------------------------------------------------
\* The types; a turn is in the loop exactly when it is at a place that needs
\* it, and threads exist only while their turn gathers or is about to end.
TypeOK ==
  /\ row \in [Turns -> JobStatus]
  /\ tokens \subseteq Turns /\ cancelled \subseteq Turns
  /\ conv \in Row /\ copy \in [Turns -> Row]
  /\ up \in BOOLEAN /\ loop \in Turns \cup {None}
  /\ pc \in [Turns -> {"new", "done"} \cup InFlight]
  /\ ask \in [Turns -> Ask]
  /\ worker \in [Turns -> [Hosts -> {"none"} \cup Working \cup Outcomes]]
  /\ writing \subseteq WriteHosts
  /\ serial \in BOOLEAN /\ due \in Hosts \cup {None} /\ subject \in Hosts \cup {None}
  /\ asked \in Scopes /\ shown \in Scopes
  /\ acked \subseteq Turns /\ raised \subseteq Turns
  /\ \A t \in Turns : (loop = t) <=> (pc[t] \in InLoop)
  /\ \A t \in Turns : ~Idle(t) => pc[t] = "gather"

\* While the process runs, a job that the table calls active can be
\* cancelled (it has a token) and somebody will finish it: its turn is in
\* flight, unless an exception took the turn.  _tokens against the jobs
\* table, across create, finish and reconcile_stale.
JobsOwned ==
  up => \A t \in Turns : row[t] \in Active => t \in tokens /\ (Flying(t) \/ t \in raised)

\* The jobs the owner sees keep what JobLedger promises: each is queued,
\* begun and ended once, and after "cancellation requested" it neither
\* begins nor concludes, whatever its turn and its threads were doing.
Ledger == INSTANCE JobLedger WITH Jobs <- Turns, status <- row, asked <- acked
JobPromise == Ledger!Spec

\* As long as the owner awaits each answer, a WRITE that names no host is
\* planned for the host of the last READ (_resolve_write_host), and for none
\* after a fleet READ, a general answer or another plan; a typed action that
\* names none (action_resolver.resolve, "それやって") is for the host that was
\* last read, assessed, planned for or given a proposal, whatever was asked in
\* general since, and for none after a fleet READ.  Crashes, restarts and
\* exceptions between the turns change nothing of either.
WriteGrounded ==
  \A t \in Turns : (serial /\ Flying(t) /\ ask[t].inherited) =>
    ask[t].host = (IF Kind(t) = "write" THEN due ELSE subject)

\* "Stop the one that runs", without a number, is for the READ that runs, as
\* long as the owner has begun no two at once: every READ has stored its job
\* in the conversation before a message can come, and no save of another
\* turn, none that raised and no restart puts an older one back.
CancelFindsIt ==
  \A t \in Turns : (serial /\ loop = None /\ Flying(t) /\ row[t] \in Active) => Meant(conv) = {t}

\* Every turn ends, if the process lives: no READ waits for ever for a slot,
\* a lock or another READ.
TurnsEnd == \A t \in Turns : Flying(t) ~> ~Flying(t)

\* README: "fleet context は単一 host の WRITE authority にはなりません".
\* When the owner asked last, and was answered last, about the fleet, and no
\* turn is in flight, no WRITE may take its host from the conversation.
FleetGivesNoAuthority ==
  (asked = "fleet" /\ shown = "fleet" /\ \A t \in Turns : ~Flying(t)) => WriteHost(conv) = {}
=============================================================================
