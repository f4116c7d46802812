------------------------------ MODULE PidFile -------------------------------
(***************************************************************************)
(* The commands start, stop and restart of the bot (runtime.py): every     *)
(* command is a process of its own, and what they know of the bot is a     *)
(* file with a process id and what ps says of that id.  Ids are used again *)
(* by the system, a process may die at any moment, the commands included,  *)
(* and a ps that cannot be run looks like a process that is not there.     *)
(***************************************************************************)
EXTENDS Naturals

CONSTANTS Bots,     \* the processes that start may spawn, each used once
          Commands, \* the commands, each given once
          Pids

ASSUME PidsAssumption == {"unborn", "gone", "none"} \cap Pids = {}

VARIABLES at,        \* the pid of each bot, or "unborn" or "gone"
          strangers, \* the pids of processes that are not bots
          file,      \* the pid in process.json, or "none": no file, or half a file
          cmd,       \* where each command stands, and the pid it works on
          calm       \* history: commands did not disturb each other (see Disturb)
pidVars == <<at, strangers, file, cmd, calm>>

\* restart is stop, then start (again) if stop reports success.
Fresh(mode, again) == [pc |-> "read", mode |-> mode, again |-> again, pid |-> "none"]
Idle == [pc |-> "idle", mode |-> "stop", again |-> FALSE, pid |-> "none"]

IsBot(p)  == \E b \in Bots : at[b] = p
Exists(p) == IsBot(p) \/ p \in strangers
Free      == {p \in Pids : ~Exists(p)}
Alive(b)  == at[b] \in Pids
InFlight(c) == cmd[c].pc \notin {"idle", "done"}
MayStart(k) == k.mode = "start" \/ k.again

\* _command_line: "none" also when ps could not be run.
CommandLine(p) ==
  {"none", IF IsBot(p) THEN "marker" ELSE IF p \in strangers THEN "other" ELSE "none"}

PidInit ==
  /\ at = [b \in Bots |-> "unborn"] /\ strangers = {} /\ file = "none"
  /\ cmd = [c \in Commands |-> Idle] /\ calm = TRUE

Become(c, k) == cmd' = [cmd EXCEPT ![c] = k]
Go(c, pc)    == Become(c, [cmd[c] EXCEPT !.pc = pc])
\* stop has returned (True, ...): the end, or the start of a restart
Stopped(c)   == IF cmd[c].again THEN Become(c, Fresh("start", FALSE)) ELSE Go(c, "done")
\* What a command cannot cope with: a start beside it, its death with a bot
\* spawned and not recorded, a ps that fails when start asks for the bot.
Disturb(bad) == calm' = (calm /\ ~bad)
-----------------------------------------------------------------------------
Give(c) ==
  /\ cmd[c].pc = "idle"
  /\ \E k \in {Fresh("start", FALSE), Fresh("stop", FALSE), Fresh("stop", TRUE)} :
       /\ Become(c, k)
       /\ Disturb(\E d \in Commands : InFlight(d) /\ (MayStart(k) \/ MayStart(cmd[d])))
  /\ UNCHANGED <<at, strangers, file>>

\* _state
ReadFile(c) ==
  /\ cmd[c].pc = "read"
  /\ \/ file # "none" /\ Become(c, [cmd[c] EXCEPT !.pc = "status", !.pid = file])
     \/ file = "none" /\ cmd[c].mode = "start" /\ Go(c, "spawn")
     \/ file = "none" /\ cmd[c].mode = "stop" /\ Stopped(c)
  /\ UNCHANGED <<at, strangers, file, calm>>

\* status, and what start and stop make of it
Status(c) ==
  /\ cmd[c].pc = "status"
  /\ \E answer \in CommandLine(cmd[c].pid) :
       /\ Go(c, CASE cmd[c].mode = "start" -> IF answer = "marker" THEN "done" ELSE "spawn"
                  [] OTHER                 -> IF answer = "marker" THEN "term" ELSE "gone")
       /\ Disturb(cmd[c].mode = "start" /\ answer = "none" /\ IsBot(cmd[c].pid))
  /\ UNCHANGED <<at, strangers, file>>

\* os.kill raises for a process that is gone, or is not ours; taskkill may not.
Signal(c, next) ==
  /\ Go(c, next) \/ (~IsBot(cmd[c].pid) /\ Go(c, "gone"))
  /\ UNCHANGED <<at, strangers, file, calm>>

Term(c) == cmd[c].pc = "term" /\ Signal(c, "wait")

\* One round of the wait: ps, and if it shows nothing a signal 0.
Wait(c) ==
  /\ cmd[c].pc = "wait"
  /\ \E answer \in CommandLine(cmd[c].pid) : answer = "none" /\ Go(c, "sure")
  /\ UNCHANGED <<at, strangers, file, calm>>

Sure(c) ==
  /\ cmd[c].pc = "sure"
  /\ Go(c, IF Exists(cmd[c].pid) THEN "wait" ELSE "unlink")
  /\ UNCHANGED <<at, strangers, file, calm>>

\* The grace is over: who is it that is still there?
Relook(c) ==
  /\ cmd[c].pc = "wait"
  /\ \E answer \in CommandLine(cmd[c].pid) :
       Go(c, CASE answer = "none"   -> "gone"
               [] answer = "marker" -> "kill"
               [] OTHER             -> "done")
  /\ UNCHANGED <<at, strangers, file, calm>>

Kill(c) == cmd[c].pc = "kill" /\ Signal(c, "gone")

\* seeded fault: a process that was told to go is taken for gone
GoneOnTrust(c) ==
  /\ cmd[c].pc = "gone"
  /\ Go(c, "unlink")
  /\ UNCHANGED <<at, strangers, file, calm>>

\* Every end of stop: nothing is unlinked, and no success reported, while a
\* process has the pid.
Gone(c) ==
  /\ cmd[c].pc = "gone"
  /\ Go(c, IF Exists(cmd[c].pid) THEN "done" ELSE "unlink")
  /\ UNCHANGED <<at, strangers, file, calm>>

Unlink(c) ==
  /\ cmd[c].pc = "unlink"
  /\ file' = "none"
  /\ Stopped(c)
  /\ UNCHANGED <<at, strangers, calm>>

Spawn(c, b) ==
  /\ cmd[c].pc = "spawn" /\ at[b] = "unborn"
  /\ \E p \in Free : /\ at' = [at EXCEPT ![b] = p]
                     /\ Become(c, [cmd[c] EXCEPT !.pc = "open", !.pid = p])
  /\ UNCHANGED <<strangers, file, calm>>

\* write_text empties the file, then fills it.
OpenFile(c) ==
  /\ cmd[c].pc = "open"
  /\ file' = "none" /\ Go(c, "record")
  /\ UNCHANGED <<at, strangers, calm>>

Record(c) ==
  /\ cmd[c].pc = "record"
  /\ file' = cmd[c].pid /\ Go(c, "done")
  /\ UNCHANGED <<at, strangers, calm>>

\* The terminal is closed, ps exceeds its timeout, the disk is full.
CommandDies(c) ==
  /\ InFlight(c)
  /\ Go(c, "done")
  /\ Disturb(cmd[c].pc \in {"open", "record"})
  /\ UNCHANGED <<at, strangers, file>>

\* A bot ends: told to, by SIGKILL, or by itself.
BotDies(b) ==
  /\ Alive(b)
  /\ at' = [at EXCEPT ![b] = "gone"]
  /\ UNCHANGED <<strangers, file, cmd, calm>>

StrangerComes == /\ \E p \in Free : strangers' = strangers \cup {p}
                 /\ UNCHANGED <<at, file, cmd, calm>>
StrangerGoes  == /\ \E p \in strangers : strangers' = strangers \ {p}
                 /\ UNCHANGED <<at, file, cmd, calm>>

CommandStep(c) ==
  \/ Give(c) \/ ReadFile(c) \/ Status(c) \/ Term(c) \/ Wait(c) \/ Sure(c) \/ Relook(c)
  \/ Kill(c) \/ Gone(c) \/ Unlink(c) \/ OpenFile(c) \/ Record(c) \/ CommandDies(c)
-----------------------------------------------------------------------------
Runs == [pc : {"idle", "read", "status", "term", "wait", "sure", "kill", "gone", "unlink",
               "spawn", "open", "record", "done"},
         mode : {"start", "stop"}, again : BOOLEAN, pid : Pids \cup {"none"}]

PidTypeOK ==
  /\ at \in [Bots -> Pids \cup {"unborn", "gone"}]
  /\ strangers \subseteq Pids /\ file \in Pids \cup {"none"} /\ calm \in BOOLEAN
  /\ cmd \in [Commands -> Runs]
  \* one process to a pid
  /\ \A b \in Bots : Alive(b) => at[b] \notin strangers /\ \A d \in Bots : at[d] = at[b] => d = b

\* As long as commands that may start a bot do not run beside others, no
\* command dies between the spawn and the record, and ps answers, the pid file
\* leads to every bot that runs: stop can reach it, start sees it.
BotNamed ==
  calm => \A b \in Bots : Alive(b) =>
            \/ file = at[b]
            \/ \E c \in Commands : cmd[c].pc \in {"open", "record"} /\ cmd[c].pid = at[b]
=============================================================================
