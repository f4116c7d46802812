# A TLA+ model of vast_gemini_agent

The agent answers questions about a fleet of GPU hosts over Discord. It reads the hosts by
itself; it changes one only through a proposal that its owner approves. This directory holds
TLA+ models of the code under `src/src/vast_agent/`, the TLC runs that check them on small
instances and the TLAPS proofs that hold for every instance.

Paths below are relative to `src/src/vast_agent/`.

## The system

| Part | State | Operations | Correct when |
| --- | --- | --- | --- |
| Host lock (`jobs/locks.py`, `jobs/cancellation.py`) | per host: `readers`, `heavy`, `writer`, `waiting_writers`; per request: token, registered callbacks | `acquire` in three classes, `release`, `cancel` | WRITE is alone, HEAVY_READs do not meet, writers are not starved, no count leaks, no wake-up is lost |
| Approval coordinator and ledger (`actions/coordinator.py`, `storage/database.py`) | `action_proposals`, `action_runs`, `action_events` | propose, approve, reject, consume, reconcile | an approval runs at most one command, on the state the owner was shown; the ledger tells what happened |
| Reboot monitor (`actions/reboot.py`) | deadline, down seen | dispatch, poll, postcheck | one dispatch; success only after down, up and a clean postcheck |
| Job manager (`jobs/manager.py`) | `jobs` rows, tokens of live jobs | create, start, finish, cancel, reconcile | row, token and outcome agree |
| Agent service and conversation (`services/agent_service.py`, `conversation/state.py`) | one `conversation_state` row per channel; a copy per turn | a turn per message, fleet reads, cancel | no turn undoes what a later one decided; a fleet context gives no WRITE authority |
| Investigation loop (`agent/orchestrator.py`, `agent/investigation_session.py`) | calls made, evidence, budget | model turn, function call, continuation | each call is answered once, budgets hold, no call is repeated |
| Policy, plans, capabilities (`actions/policies.py`, `operation_plan.py`, `capability_*.py`) | none | pure decisions | agree with their reference definitions |
| Preflight and verification (`actions/preflight.py`, `verifier.py`, `generic_operation.py`) | none | a sequence of probes | an observation that fails is never a success |
| Inspection and incidents (`services/inspection.py`, `diagnostics/`) | observations, tool runs, incidents | inspect and record | one open incident per host and signature |
| Bot lifecycle (`runtime.py`, `app.py`) | pid file, process | start, stop, reconcile at start | one bot; never another process terminated |
| Migrations (`storage/migrations.py`) | `schema_version` | migrate | an interrupted migration can be resumed |
| Configuration (`config.py`, `host_config.py`, `capabilities.py`, ...) | YAML files | load, replace | no half-written file |
| READ validators, router, resolvers, Gemini client, external tools, formatting | none | text processing, external calls | outside these models; see the last section |

Who calls whom: Discord messages become tasks of one asyncio loop (`discord_app/gateway.py`),
each a turn of `AgentService`. A turn creates a job, stores the conversation row and reads the
host in a thread, under the host lock in class READ or HEAVY_READ with the job's token. A turn
that should change something ends in a proposal. A click on a proposal runs
`ActionCoordinator.approve` in a thread of its own, which takes the same host lock as WRITE.
Everything durable is SQLite; every method of `Database` is one transaction. `start`, `stop` and `restart`
are processes of their own that find the bot through a pid file. At start the bot migrates the
database and reconciles jobs and actions left by the process before it; every other command that
opens the database migrates it, too.

Hard parts: threads on one lock with cancellation from another thread; clicks that race for
one row; a host that changes between what the owner saw and what is executed; a process that
dies between two transactions; commands whose answer is lost; turns that hold a copy of a row
over an await; a preflight of a dozen probes, each of another moment and any of them lost;
processes that come and go over one pid file and one schema. They are listed, line by line, in `PROJECT.json` under `hazards`.

## The modules

| Module | Models |
| --- | --- |
| `RWLock` | what the lock of one host promises: the abstract specification |
| `HostLock` | `_HostState` and `CancellationToken`, at the grain of the Condition's mutex |
| `HostLockProofs` | its inductive invariant, its safety, and that it implements `RWLock` |
| `SingleUseApproval` | what the approval ledger promises: the abstract specification |
| `ActionCoordinator` | proposals from preflight to result, over the ledger's transactions |
| `ActionCoordinatorProofs` | its inductive invariant, its safety, and that it implements `SingleUseApproval` |
| `JobLedger` | what the jobs table promises the owner: the abstract specification |
| `JobManager` | what each method of `JobManager` does to the row and the token of a job |
| `AgentService` | the turns of one conversation; instantiates `JobManager` |
| `AgentServiceProofs` | its inductive invariants, its safety, and that its jobs implement `JobLedger` |
| `WorkerPool` | who waits for whom: slots of fleet READs, threads of the executor, host locks |
| `WorkerPoolProofs` | that they are never waited for in a circle |
| `InvestigationLoop` | one READ investigation: the model's calls, their results, continuations and budgets |
| `InvestigationLoopProofs` | its inductive invariants, its safety, and that its steps run out |
| `HostProbes` | a host, the probes, what the parsers make of their answers |
| `ActionPolicy` | the snapshot of a preflight, the policy, the verifier, the judgement of a reboot |
| `SoftwareGap` | from the READs of an investigation to the request to install a package |
| `TypedAction` | one typed action end to end, over the three modules above |
| `TypedActionProofs` | types, that no command goes to a host with what blocks it, a success was seen, a gap is true |
| `PidFile` | `start`, `stop` and `restart` over the pid file |
| `SchemaMigration` | `Database.migrate` by several processes |
| `BotLifecycle` | the processes over one database: composes `PidFile` and `SchemaMigration` |
| `BotLifecycleProofs` | their inductive invariants and their safety |
| `MCHostLock`, `MCActionCoordinator`, `MCAgentService`, `MCWorkerPool`, `MCInvestigationLoop`, `MCTypedAction`, `MCBotLifecycle` | the instances TLC checks |

Operators named "seeded fault" stand next to the definition they distort. No specification uses
them; substituted for that definition, each makes one property fail, which shows that the
property depends on the code it is about.

### HostLock

`readers`, `heavy`, `writer` and `waiting_writers` are the fields of `_HostState`; `owner` is the
thread inside `with self.condition`; `pc`, `kind`, `token` and `callbacks` are a request's
position, its arguments and its registered `wake_waiter`; `canceller` is the thread inside
`cancel()`. A request runs `Register`, `Enter`, `Test` (one evaluation of the `wait_for`
predicate, going to sleep when it fails), `Resume`, then `Grant` or `Refuse`, then `Leave`;
`Release` is the end of the `with` block. `cancel()` has three moments, because its event is set
outside every lock: `CancelSet`, `CancelSwap`, `CancelCall`.

### ActionCoordinator

`status`, `run`, `audit` and `snapshot` are the database; they survive `Crash`. `pc`, `target`,
`late`, `fresh`, `verdict` are the locals of the calls; `command`, `world` and `expired` the
outside. `sent`, `seen` and `raised` are history: how often a command was dispatched, which
commands had been dispatched when a call looked at its host, and whose call ended in an
exception. One action stands for one transaction, one remote interaction or one lock operation,
in the order of `_consume` and `_consume_operation`, so a death or another thread may come
between any two. Three kinds of proposal take the three branches of the code: `typed` (executor
and verifier), `operation` (generic runtime, verification may be unavailable) and `reboot`.
A preflight is an element of `Worlds`; equality of fingerprints is equality of worlds, and the
policy's BLOCK is membership in `Blocked`. The lock is used through its contract: a call waits
until `WriteAdmissible`, and jobs take the lock as readers (`StartReading`), which
`HostLockProofs!Refinement` justifies.

### JobManager and AgentService

`row`, `tokens` and `cancelled` are a job's status, `_tokens` and the events of its token. `conv`
is the row of `conversation_state`, of which the model keeps `last_host` and
`write_context_host`, the columns that decide where a WRITE may go, and `last_job_id`, which tells
what a cancel without a number is for (`Meant`; the model lets a cancel go to any job, since it may
give a number, and `CancelFindsIt` says when `Meant` is the job that runs). `copy` is the
`ConversationState` a turn read at its start, and every save is a save of the whole row from it.
`loop` is the turn that has the event loop: the places in `InLoop` run without giving it away,
those in `InAwait` are awaits, during which other turns run. That is why `create`, `start`,
`finish` and `cancel` never meet inside one another, although each is several statements:
`JobManager` itself would allow it. `worker` is the thread of a turn on each host, from the
semaphore (`waiting`) over the lock (`queue`) to its answer; the host lock is used through its
contract. `Crash` may come between any two transactions; `Raise` is an exception nobody in the
service catches. `serial`, `due`, `subject`, `asked`, `shown`, `acked` and `raised` are history.

Not every reader takes the host lock: the investigations at `agent_service.py:138`, `157` and `340`
and `_fleet_traffic` call the agent without `locks.acquire`, so they may read a host while an approved
command runs on it, although `src/README.md:62` says that a WRITE is exclusive on its host. `StartWrite` therefore
waits for `LockedRead` only, and `peek` for nothing.

`JobLedger` is what is left of this for the owner: a job is queued, begun and ended once, and after
"cancellation requested" it neither begins nor concludes. `JobPromise` is its specification with
the rows and the acknowledgements of `AgentService` in it. No method of `JobManager` alone keeps
it, since `start` and `finish` write without reading.

A message is chosen freely among the kinds in `Kinds` and the hosts, standing for any text that
routes there; only a WRITE that names no host depends on the conversation, in one of two ways. If it
is planned, `WriteHost` asks for `remember_last_host` and for `write_context_host` to be the last
host. If it is a typed action ("C.5 再起動して", `agent_service.py:117` with `resolver.py:34-37`, and
"それやって", `agent_service.py:107-112`), `TypedHost` is `last_host` and asks for neither, so that after a READ
of h1 and a general question such an action is proposed for h1, where a planned WRITE would be for
no host. `WriteGrounded` says of both where they go. Three
code paths share one chain of actions where they do the same: `_fleet_adaptive`, `_fleet` and
`_fleet_traffic` differ in the lock and in whether they save before `finish`; the typed actions
and the reboot assessment (`agent_service.py:153-162`) differ in nothing the model keeps. A synthesis of
fleet answers belongs to the await of the threads.

Worth knowing: `last_recommended_action` is kept with no host and never reset (`agent_service.py:160`
is its only assignment). After an assessment of h1 that recommends a reboot and a READ of h2,
"それやって" proposes a reboot of h2, which nobody assessed. The model leaves the column out, and a typed
action that names no host may follow anything that set `last_host`; for `WriteGrounded` that is right,
since the host it goes to is the one the conversation is about.

### WorkerPool

`asyncio.to_thread` hands every blocking call to one default executor with a fixed number of
threads (`Workers`; the executor is external and modelled as a queue, first come first served, and
`Busy` threads). A request is a READ, an approved command, or something that takes no lock; a call
is a request on a host, and `place` says where it is: waiting for a slot of the semaphore of its
fleet READ, in the executor's queue, in a thread and blocked in the host lock, or running. The lock is
`RWLock` itself, instantiated for each host with the calls that are in a thread. What a request
does before and after its call, and its several calls one after another (an investigation, a plan,
a proposal), are in `AgentService`; here each request hands over once, which is all that matters
to a wait: between two calls it holds no slot, thread or lock. `max_parallel_hosts` is taken to be
positive; `config.py:37` does not check that, and with 0 every fleet READ would wait for ever.

The code is safe here for a reason that is nowhere written down: the lock is taken inside the
thread, not before the call is handed over, so that who holds a lock also has a thread to run in.
`NeverWedged` depends on it (`HoldsBeforehand` takes it away).

### InvestigationLoop

`place` is where the thread of `investigate` is: before a question (`ask`), in
`client.interact` (`reply`), at the next function call (`call`), in `functions.execute` for it
(`read`) or for its continuation (`next`), after the loop (`conclude`), in the last question
(`synth`). `llm` is `llm_calls`, which equals `session.round` whenever a guard reads either;
`batch`, `i` and `carried` are `response.function_calls`, the loop's index and
`continued_call_ids`; `made`, `recent` and `used` are the session's `tool_calls`, what
`_discovery_continuation` looks for in `selected_calls`, and `evidence_chars`. `told` is what the
replayed inputs say of each call of the last answer. `ran`, `again` and `since` are history: how a
call was executed, how many READs were executed a second time, how many began after the
cancellation; `cancelled` records where the thread was when the token was set.

A call is a record of what the code looks at: its tool, the executable it is about, whether that
is an absolute path, its argument list. `form` stands for everything else in its arguments (the
reason given, sudo), so that two calls may read the same without being duplicates to `call_key`.
The model's answers are free: any batch over `Asked`, any conclusion, nothing, an error; so are
the sizes of the records and whether a discovery finds a path. `session.stop_reason` and the
reason named in the last prompt are left out, as only the prompt and the trace show them.

Two things this code does are worth knowing. A continuation does not ask `has_call`: a READ that
was already made runs again and its result is discarded, in spite of the duplicate detection of
`src/README.md:94`; `RepeatsBounded` says how often at most. And a call that a continuation has
answered may be answered a second time, with `read_executed: false`, when the batch is stopped
before the loop reaches it (`orchestrator.py:440`, `455`, `477`); `AnswersTrue` says that this is
the only way in which an executed READ is reported as unexecuted.

### HostProbes, ActionPolicy, SoftwareGap and TypedAction

What `ActionCoordinator` takes as data is worked out here. `world` is the host: its drivers,
containers, units, package and so on. `Run` is one probe on it, `Inspect` the inspection with
what follows it in `preflight.py`; a reply that is lost may hold the first part of an answer
(`Leftovers`), which the parsers read all the same. `Snapshot` is `PreflightSnapshot`, field by
field, as far as a decision looks at it; it stands for the fingerprint as well, containers by their
number and not by their name (`Tally`), and is coarser: two snapshots that are equal here may differ in
the code (an uptime class, a device's name), which only invalidates more. `Blocks` is `PolicyEngine.evaluate`, `Verifies` the verifier, `Recovered` the
judgement of the reboot monitor. A request holds a GPU's index, as in the code, not a GPU. A host
that is disabled in `hosts.yaml` is left out: every snapshot of it is blocked.

In `TypedAction`, `pc` follows one request: the investigation that may lead to it (`ReadHost`,
`Ground`), `Propose`, `Approve`, `Recheck`, then `Execute` and `Verify`, or `Dispatch`, `Poll`,
`Deadline` and `Postcheck` of the reboot monitor. The host drifts between any two of them, and
during a preflight between any two probes (`View`). A command may leave behind anything in
`Effects`, whatever it answers: a timeout says nothing of what it did. `watched` and `proof` are
history: the hosts that the recheck and the verification looked at, and which of the two answers that a
change of VM mode can do without (`Witnesses`) the recheck had.

`QuietHost` is what `policies.py` does keep off a busy host, `WorkloadBlocks` what it ought to and does
not: a GPU reset is not blocked by a container at all, a change of VM mode only if the docker answer
was not lost. The run `typed_busy` refutes it.

Worth knowing, as read in the code: a package of which only the configuration is left
is missing to `ground_capability_gap` and `installed` unknown to `preflight.py`: it can be
requested and is blocked for ever. A `which` that answers no after a lost `test -x` makes
`query_executable` say no although the program is there (`GapTruthful` therefore claims only that
it is not on the PATH). A dispatch that fails with the word `sudo:` in its output counts as not
dispatched, even if the host goes down. And the monitor has no boot id: a network blip after a
dispatch that did nothing is a reboot to it.

### PidFile, SchemaMigration and BotLifecycle

`at` is the pid of each bot, `strangers` those of other processes, `file` what `process.json`
holds. Each command of `runtime.py` is a process with a `pc` and the pid it has read; it reads the
file (`ReadFile`), asks ps (`Status`, `Relook`: "none" is possible for any process, as ps can fail),
signals (`Term`, `Kill`), waits (`Wait`, `Sure`), and unlinks or not (`Gone`, `Unlink`). `restart`
is `stop` and then `start`. A start spawns (`Spawn`), truncates the file (`OpenFile`) and fills it
(`Record`). Commands and bots die anywhere, and the system uses pids again.

`version`, `applied` and `hand` are `schema_version`, the statements of each script that were
executed, and where each process is in `migrate`. `executescript` commits statement by statement,
the `UPDATE` of the version comes after it.

`BotLifecycle` composes them: `Launch` is a spawn that opens the database, a migration that fails
ends its process, `ReconcileJobs` and `ReconcileActions` come before a bot serves. The writes are
as conditional as in `database.py`: `FinishJob` and `Conclude` do not ask what the row says,
`Approve` does.

`calm` and `orderly` are history: they become false at what this code cannot cope with, and the
properties say what holds until then. `calm` ends when a command that may start a bot runs beside
another command, when a start dies between the spawn and the record, and when ps fails as start
asks for a bot that is there; `orderly` when a process begins to migrate while another one does, or dies
within a script. Each is needed: without any one of them TLC shows a bot that no command can reach,
or tables ahead of the version (then every later migration fails on a column that exists). Two
first migrations side by side can even set the version back to 1. A bot started by hand with
`run-discord` writes no pid file and is outside of this.

## The runs

| Run | Instance | Shows |
| --- | --- | --- |
| `host_lock` | 3 threads that keep coming back, 2 may write and read, 1 reads only, one of the writers may be cancelled in any class | mutual exclusion, no leaked count, no lost wake-up, refinement of `RWLock`; a cancelled request leaves; a writer is served |
| `coordinator` | a typed action and a reboot on one host, 2 threads, 2 worlds of which one is blocked for the first proposal, operations enabled or not, exceptions for one proposal, crashes and restarts | the ledger's invariants, final statuses, refinement of `SingleUseApproval` |
| `coordinator_live` | a generic operation and a reboot, no reboot coordinator | every approved proposal settles; a run shown as EXECUTING is under way, or is that of a reboot nobody could take |
| `service` | 3 turns of 7 kinds, 2 hosts, commands on both, exceptions, crashes and restarts | an active job has a token and a turn; turn by turn, a WRITE that names no host goes to the host the conversation is about, or is refused, and a cancel without a number to the READ that runs; refinement of `JobLedger` |
| `service_live` | 2 turns of all 9 kinds, 2 hosts, one semaphore slot | every turn ends |
| `service_fleet` | one investigation, one fleet inspection | **violated**: the fleet was asked and answered last, and the conversation still gives WRITE authority for a host |
| `pool` | 3 requests of 3 kinds, 2 hosts, 2 threads, one semaphore slot, cancellations | slots, threads and locks are never waited for in a circle; every call comes to its end |
| `investigation` | 3 calls, 2 questions before the last one, batches of up to 3 calls of 6 kinds, room for 3 units of evidence in records of 1 or 2, cancellation, deadline and exceptions at any moment | every call is answered and truly, the budgets hold, a carried call does not run twice, repetitions are bounded, a cancellation stops the READs and is the outcome, its steps run out, the investigation ends |
| `typed_action` | 20 scenes with one action each, 2 GPUs, 1 container, up to 3 kinds of change of the host, one lost answer per preflight, investigations of up to 3 READs | no command to a host that had all along what `policies.py` blocks it on; a success was there to be seen; a package is requested only if missing and asked for; an approved action concludes |
| `typed_unseen` | the same | **violated**: a success is reported though the verification could not see all GPUs |
| `typed_busy` | the same | **violated**: a GPU is reset on a host whose container ran all through the recheck |
| `lifecycle` | 2 bots, an ask, 3 commands, 2 pids, a stranger, 2 scripts of 3 and 2 statements | no bot is lost; the schema version tells the truth; a starting bot interrupts only what dead bots left |

Three properties are violated: two state sentences of the repository's README (`src/README.md:81` and
`156`), one states a sentence of `actions/verifier.py:19`. In the first, an investigation of h1 is under way when the owner asks for
the GPU state of all hosts. `_fleet` clears `write_context_host`; the investigation ends and
saves its copy, which still has h1, to add its findings (`agent_service.py:243-247`); `_fleet`
ends without saving again. The next message that says what to change and not where is planned
for h1, on the strength of a question the owner has since left behind. A proposal still names
the host and needs approval. `WriteGrounded` shows that neither a planned nor a typed WRITE takes a host
from the time before a fleet READ as long as each message is sent after the answer to the one before. In the second,
`VM_MODE_ENABLE` binds one of two GPUs to vfio and answers ok; the `lspci` of the verification is
lost after the first GPU; `verify` does not look at `evidence_complete`, counts no GPU on nvidia,
and the action is a success. `SuccessWasSeen` shows that this is the only way: with complete
evidence, or for any action but the reset and the VM modes, a success was true of the host while it
was looked at.

In the third, the owner asks for the reset of a GPU while a container runs on the host. Every probe
answers, the snapshot says `workload`, and neither the proposal nor the recheck is blocked:
`policies.py:32-36` looks at the driver, the processes on the GPUs and the VMs. `src/README.md:156`
says that a GPU reset and a host reboot are blocked by active workload; of the reboot `QuietHost` shows
it. `WorkloadBlocks` also fails for the VM modes, which `policies.py:45` means to block: with
`Scenes <- MCVmScenes` in `MCTypedActionBusy.cfg`, TLC shows a preflight that loses the docker answer, a
container that starts before the approval, and a recheck that loses the answer again. The snapshots are
equal (no container, `preflight.py:132-135`), the evidence is complete without docker (`250-254`), and
the command goes out.

Bounds and why they are enough. Three threads are the least with a writer between two readers,
and with a second writer that must not see the first. One of them may be cancelled, as a reader or as a
writer; two cancellations at once are left to the theorems, which take any number. Two proposals on one host are the least
for which one command changes what the other was shown; two calls the least that race for a row
(a third could only do again what one of them does, as a call keeps no state between clicks);
two worlds the least in which a host can change and change back. Threads are symmetric in
`coordinator`, which has no liveness property. No counter needs a bound: every counter of the
code is bounded by the number of threads or proposals. A coordinator without a
`RebootCoordinator` is what its constructor's default gives; the bot always passes one. In
`service`, three turns are the least that ask, change and then rely on the context; two hosts
the least a fleet can have and the least for which an authority can be for the wrong one. Turns
and hosts are symmetric there. Two kinds that differ from another one only in their lock are left
to `service_live`, whose two turns and single slot make every wait for a slot, a lock or a
cancelled thread happen. A conversation longer than three turns is
not checked; the theorems cover it. In `investigation`, a batch of three is the least that has a
discovery, a call planned for it and a call between them; two questions before the last are the
least for which a READ of one answer is continued in the next; with three calls the bound falls
before, between and after a discovery and its continuation; with room for three, two records may
fit, one may fit only without its facts, or none. One executable is enough, as the code never
compares calls about different ones other than to pass over them. In `pool`,
two threads are the least of which one can block in a lock that the other holds, and three requests the
least for which a call then waits in the queue behind both while another of its fleet waits for a slot; fewer
threads and slots only make waits more frequent than in the program, whose executor has at least
five threads and whose semaphores have three slots by default. In
`typed_action`, every action
type has a scene and every reason to block it a change that brings it about or takes it away; two
GPUs are the least of which one can be left behind, or out of a listing. A preflight sees at most
one change of the host, at one of the moments `MCCuts` between probes that matter to the same
decision, or loses at most one answer, but not both (`Looks`): two lost answers are two reasons to
block, and no condition of `policies.py` or `verifier.py` needs two to be fooled. `MaxRecords`
READs ask each of the three queries once, or one of them again, which `Sole` must notice. In
`lifecycle`, two pids are the least for which an id can be used again while another is in use; two
bots and three commands the least for a stop or a start after a restart; the scripts of three and two
statements stand for the eight of `migrations.py`: the first is special, one after it is not. `Few`
bounds the instance: three commands, or two and an ask, and one stranger at a time. Bots, commands
and pids are symmetric there. The theorems need none of these bounds.

Fairness. For the lock: a thread that can take a step inside the monitor takes it; the mutex is
given to a thread that asks again and again (strong fairness on `Enter`, `Resume`, `CallNow`,
`CancelCall`, `Release`); nobody has to ask for the lock or to cancel. Releases are fair since
every command carries a timeout. For the coordinator: the steps of a call are weakly fair, a job
stops reading in the end, and `Lock` is strongly fair, which `WriterServed` justifies. Clicks,
crashes, restarts, exceptions and changes of the host are never fair. For the service: the loop
runs a turn that is ready, and threads run and answer, since tools and the model have timeouts;
all of it weakly fair, as no commands run in `service_live` (a stream of WRITEs may starve READs,
by the design of the lock). Messages, cancellations and restarts are not fair. For the pool: the
executor takes the next call when a thread is free and a call that can go on does, weakly fair; no
request and no cancellation has to come. For
the investigation: its thread takes its next step, as the model and the executor carry timeouts;
neither the cancellation nor the deadline has to come. For the typed action: the thread that serves
an approval takes its next step, as every probe and command carries a timeout, and the monitor's
deadline comes (`Deadline`), as `clock` goes on; no fairness makes a host come up or a poll see it.
The owner need not approve and the investigation need not end. `lifecycle` has no liveness
property: nothing there has to happen.

Deadlock is checked in every run but `pool`, `investigation`, `typed_action`, `typed_unseen`, `typed_busy`
and `lifecycle`, whose requests, one investigation, one action, or last command end. In
`pool` the invariant `NeverWedged` takes its place: it names the guards of the calls (`CanGo`) and
so stands for what `ENABLED` would say, in a form that can be proved.

## What is proved

`tlapm` checks the seven proof modules; the constants are constrained by `RequestsAssumption`,
`ConstantsAssumption`, `ServiceAssumption`, `PoolAssumption`, `LoopAssumption`, `ScenesAssumption`,
`BoundsAssumption`, `PidsAssumption`, `StatementsAssumption` and `BotsAssumption` only, so the
theorems hold for any number of threads, slots, hosts, proposals, worlds and turns, for any calls, batches
and budgets, for any scenes, lost answers and moments of change, and for any number of bots,
commands, pids, processes and scripts.

* `HostLockProofs`: `TypeCorrect`, `MutualExclusion`, `CountersExact`, `WakeupsArrive`,
  `NobodyStranded`, `Refinement` (Spec implements `RWLock!Spec`). The invariant `IInv` adds to the checked
  properties who may hold the mutex and what a thread between decision and grant knows.
  Exclusion alone is not inductive: a grant looks at counters, not at threads, so the counters
  must be known to count. `NobodyStranded` needs the other direction: a counter above zero has a
  thread behind it (`CountedOnes`), and that thread is not asleep behind the sleeper.
* `ActionCoordinatorProofs`: `TypeCorrect`, `DispatchAuthorised`, `DispatchCurrent`,
  `AuditSound`, `LedgerSound`, `SuccessSound`, `RunsOwned`, `InOneHand`, `FinalStays`, `Refinement` (Spec implements
  `SingleUseApproval!Spec`). `IInv` says, place by place, what a call knows: the two rows of its
  proposal (`RowsOfCall`), the events it has written (`TrailOfCall`), that what it collected is
  still current (`SightOfCall`), that its verdict follows from the command (`VerdictOfCall`),
  that it is the only call consuming the proposal (`OneConsumer`) and alone on its host
  (`HostAlone`). `OneConsumer` carries the rest: `set_proposal_status` writes without looking, so
  everything about the rows depends on there being one writer. `RunsOwned` says that an EXECUTING run
  has its call: it names the one path that leaves a run behind, a reboot without a
  `RebootCoordinator`, and shows that there is no other but an exception.
* `AgentServiceProofs`: `TypeCorrect`, `JobsHaveOwners`, `CancellationsKept`, `ResultsStay`,
  `WritesGrounded`, `CancelsFind`, `Refinement` (Spec implements `JobLedger!Spec`). `start` and `finish` write the row without looking at it and `cancel` looks
  only at the tokens, so the first three rest on what `JobInv` adds: where a turn is tells the row
  of its job (`RowOfTurn`), and a token tells that the row is active (`TokenOfJob`). The refinement adds
  that the turn of a queued job is not beyond its start (`Begun`) and that a row says CANCELLING only if the owner was told
  so (`AskedIfCancelling`): the token and the row are written by two calls, and `finish` believes the
  token. In `WritesGrounded`, `SerialInv` says what the copies hold while each message waits for the answer
  before it: one turn is in flight, its copy is the row once its context is stored, the row
  gives authority for the host of the last READ or for none, and `last_host` is the host the conversation
  is about, which a typed action takes. It bounds neither the number of
  turns nor where between them the process dies. `CancelsFind` rests on the same invariant: from the
  save to the end of its threads the row names the job of the one turn there is (`JobIsLast`), and
  only there is a job active while the loop is free.
* `WorkerPoolProofs`: `TypeCorrect`, `DeadlockFree`. That the queue holds each waiting call exactly
  once is needed first: a call missing in it would wait for a thread for ever. `NeverWedged` then
  follows from the state alone, from the end of the chain backwards: a call that runs can go on;
  where one blocks, the lock of its host is held by a call that runs, or a WRITE that blocks there may
  take it, or, without a WRITE, anyone may (`LockIsServed`); if none is in a thread, a thread is free, and
  if none is queued either, a slot is (`NothingTaken`). It holds for an executor of one thread.
* `InvestigationLoopProofs`: `TypeCorrect`, `ReplayComplete`, `ReplayTrue`, `RunsOnce`,
  `ReadsStop`, `CancellationWins`, `BudgetsHold`, `RepeatsFew`, `RunsOut`. `ReplayInv` follows the batch:
  calls before the index and carried calls are answered (`Told`), only those have been executed,
  and those a continuation executed are none of those read as written (`Executed`). `CancelInv` is the same for the token: what may still begin depends on the
  place. `Spent` says that a READ is under way only if there was room for it, and that a
  continuation asks again; `Questions` that the loop leaves one question. `RunsOut` is as near to termination
  as a proof without liveness comes: every step of the thread lowers `Fuel`, questions left times the
  places of a round plus what is left of this one, and `Fuel` is a natural number; that the thread
  does take its steps (`Ends`) stays with TLC.
* `TypedActionProofs`: `TypeCorrect`, `BusyHostsSpared`, `SuccessSeen`, `GapSound`. A snapshot that is not blocked had every required answer,
  and each of them shows the host as it was before or after the change that the recheck may meet; so
  does an answer that is not required and came, which is why `BusyHostsSpared` claims workload for a
  change of VM mode only then, and nothing of workload for a GPU reset (`WorkloadBlocks` is refuted). The proof goes danger by danger from the probe that shows it to the condition that blocks it. It
  is for any set of lost answers and any moment of change, so that the bound of one lost answer in
  the run is none of the theorem. `SuccessSeen` goes the other way: from what the verifier or the
  monitor asks (`VerifiedSeen`, `RecoverySeen`), action by action, to the probe that showed it, with
  `Shows` saying what an answer cut short may show. `GapSound` rests on `Grounded`, that each record
  is the answer of a host that was read: neither the verdict nor the records are inductive by
  themselves. It bounds no number of READs but `MaxRecords`, which is any natural number.
* `BotLifecycleProofs`: `TypeCorrect`, `PidFileLeads`, `SingleBot`, `VersionTruthful`, `LivingSpared`. `PidInv`
  says what a command knows, place by place (`Knows`): one that asked for a bot has the pid of any
  bot there is, one about to spawn or to unlink knows that there is none; and, while `calm`, that a
  command that may start a bot is alone. `SchemaInv` relates where a process is in a script to what
  was executed (`Midway`). `RowInv` brings them together: a bot that reconciles is, while `calm`,
  the only one, since the command that spawned it knew that there was none. None of the checked
  properties is inductive without them.

Some invariants are proved and part of no run, since they follow from what the runs check or are
contained in the inductive invariants: the type invariants but for that of the service, `NobodyStranded` (from
`NoLostWakeup` and `CountersMatch`), `CancellationsKept` and `ResultsStay` (from `JobPromise`),
`SingleBot`. That an acknowledged cancellation takes effect, if the process lives and no exception
took the turn, follows from `TurnsEnd` and `JobsOwned`.

Only model-checked: the liveness properties (`CancelledLeaves`, `WriterServed`, `Settles`,
`TurnsEnd`, `CallsEnd`, `Ends`, `Concludes`), which need fairness. Every other property
of a passing run is the statement of a theorem.

## Not modelled

* Of `AgentService`: the frozen host set of a fleet follow-up, the evidence kept between turns.
* Beside `investigate`: `answer_general` over the general tools, which reads no host and changes
  nothing; the grounding of plans; the synthesis of fleet answers.
* Of the decisions: `operation_plan.py` and the READ validators (`generic_read.py`, `host_read.py`
  but for three queries), which compare words of a command line with lists; the risk classes of the
  registry; all of the package catalogue but the shape of one entry. They are functions of text
  without state, and a model of them would be a copy of the lists.
* Of the inspection: the incident and observation tables and the composite diagnosis, which are
  written and shown and decide nothing; and the text of the parsers.
* The ssh child process with its termination by a cancellation: a command ends with an answer or
  without one.
* Of the lifecycle: a SIGKILL that meets a pid used again between ps and the signal (the signalled
  stranger's fate is no variable); a `database is locked` that outlasts sqlite's timeout; `install`
  and `status`, which migrate as `ask` does; bots started by hand.
* `hosts.yaml`, loaded once per process and replaced in one step by two commands; two at the same
  moment lose an update.
* Prompts and the Gemini client (an external model that may answer anything its schema allows),
  text matching in the router and the resolvers, formatting, redaction, HTTP reads.
