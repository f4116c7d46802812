------------------------- MODULE BotLifecycleProofs -------------------------
(***************************************************************************)
(* What holds of the pid file, the schema and the rows for any number of   *)
(* bots, one-off commands, start/stop commands, pids and scripts.          *)
(***************************************************************************)
EXTENDS BotLifecycle, TLAPS

PidNext ==
  \/ \E c \in Commands : CommandStep(c)
  \/ \E c \in Commands, b \in Bots : Spawn(c, b)
  \/ \E b \in Bots : BotDies(b)
  \/ StrangerComes \/ StrangerGoes

SchemaNext == \E p \in Processes : Connect(p) \/ MigrationStep(p) \/ Exit(p)

\* A command that has asked for a bot knows the pid of every bot there is;
\* one about to spawn or to unlink knows that there is none.
Knows(c) ==
  /\ cmd[c].pc \in {"status", "term", "wait", "sure", "kill", "gone", "open", "record"} =>
       \A b \in Bots : Alive(b) => at[b] = cmd[c].pid
  /\ cmd[c].pc \in {"spawn", "unlink"} => \A b \in Bots : ~Alive(b)

Alone == \A c, d \in Commands : InFlight(c) /\ MayStart(cmd[c]) /\ InFlight(d) => c = d

PidInv ==
  /\ PidTypeOK
  /\ \A c \in Commands : cmd[c].pc \in {"spawn", "open", "record"} => cmd[c].mode = "start"
  /\ calm => Alone /\ BotNamed /\ \A c \in Commands : Knows(c)

\* The work of a process on the script k, with n statements done.
Clean(v) == \A k \in Versions : IF k <= v THEN Whole(k) ELSE applied[k] = 0
Midway(k, n) ==
  /\ \A j \in Versions : (j < k => Whole(j)) /\ (j > k => applied[j] = 0)
  /\ applied[k] = n
  /\ version = IF k = 1 THEN (IF n >= 2 THEN 1 ELSE 0) ELSE k - 1

SchemaInv ==
  /\ SchemaTypeOK
  /\ \A k \in 2..version : Whole(k)
  /\ version > 0 <=> applied[1] >= 2
  /\ \A p \in Processes : InScript(p) =>
       /\ \A j \in 2..(Script(p) - 1) : Whole(j)
       /\ hand[p].done <= applied[Script(p)]
       /\ Script(p) >= 2 => version > 0
       /\ hand[p].at = "bump" => hand[p].done = Statements[Script(p)]
       /\ hand[p].at = "script" => hand[p].done < Statements[Script(p)]
  /\ orderly =>
       /\ \A p, q \in Processes : InScript(p) /\ InScript(q) => p = q
       /\ (\A p \in Processes : ~InScript(p)) => Clean(version)
       /\ \A p \in Processes : InScript(p) => Midway(Script(p), hand[p].done)

\* A row is of a process that has come to serve.
RowInv ==
  /\ TypeOK
  /\ \A b \in Bots : stage[b] # "serving" => job[b] = "none" /\ proposal[b] = "none"
  /\ \A b \in Bots : at[b] = "unborn" => stage[b] = "starting"
  /\ OnlyTheDeadInterrupted

Inv == PidInv /\ SchemaInv /\ RowInv
-----------------------------------------------------------------------------
(***************************************************************************)
(* The pid file.                                                           *)
(***************************************************************************)
USE DEF Alive, IsBot, Exists, Free, InFlight, MayStart, Become, Go, Disturb, Stopped, Fresh

LEMMA FreshRuns ==
  ASSUME NEW m \in {"start", "stop"}, NEW a \in BOOLEAN PROVE Fresh(m, a) \in Runs
BY DEF Runs

LEMMA GiveKeeps == ASSUME PidInv, NEW c \in Commands, Give(c) PROVE PidInv'
<1>1. PidTypeOK'
  <2>1. PICK k \in {Fresh("start", FALSE), Fresh("stop", FALSE), Fresh("stop", TRUE)} :
          cmd' = [cmd EXCEPT ![c] = k]
    BY DEF Give
  <2>2. k \in Runs
    <3>1. k = Fresh("start", FALSE) \/ k = Fresh("stop", FALSE) \/ k = Fresh("stop", TRUE)
      BY <2>1
    <3> QED
      BY <3>1, FreshRuns
  <2>3. UNCHANGED <<at, strangers, file>> /\ calm' \in BOOLEAN
    BY DEF Give, PidInv, PidTypeOK
  <2> QED
    BY <2>1, <2>2, <2>3 DEF PidInv, PidTypeOK
<1>2. \A d \in Commands : cmd'[d].pc \in {"spawn", "open", "record"} => cmd'[d].mode = "start"
  BY DEF PidInv, PidTypeOK, Runs, Give, CommandLine
<1>3. calm' => calm /\ Alone'
  <2>1. PICK k \in {Fresh("start", FALSE), Fresh("stop", FALSE), Fresh("stop", TRUE)} :
          /\ cmd' = [cmd EXCEPT ![c] = k]
          /\ calm' = (calm /\ ~(\E d \in Commands : InFlight(d) /\ (MayStart(k) \/ MayStart(cmd[d]))))
    BY DEF Give
  <2>2. \A d \in Commands : d # c => cmd'[d] = cmd[d]
    BY <2>1
  <2>3. cmd'[c] = k /\ ~InFlight(c)
    BY <2>1 DEF PidInv, PidTypeOK, Runs, Give
  <2> QED
    BY <2>1, <2>2, <2>3 DEF PidInv, PidTypeOK, Alone
<1>4. calm' => BotNamed'
  BY PidsAssumption, <1>3 DEF PidInv, PidTypeOK, Runs, Alone, BotNamed, Knows, Give, CommandLine
<1>5. calm' => \A d \in Commands : Knows(d)'
  BY PidsAssumption, <1>3 DEF PidInv, PidTypeOK, Runs, Alone, BotNamed, Knows, Give, CommandLine
<1> QED
  BY <1>1, <1>2, <1>3, <1>4, <1>5 DEF PidInv

LEMMA ReadFileKeeps == ASSUME PidInv, NEW c \in Commands, ReadFile(c) PROVE PidInv'
<1>1. /\ UNCHANGED <<at, strangers, file, calm>> /\ cmd[c] \in Runs /\ cmd[c].pc = "read"
      /\ cmd \in [Commands -> Runs] /\ file \in Pids \cup {"none"}
  BY DEF ReadFile, PidInv, PidTypeOK
<1>2. CASE file # "none"
  <2> DEFINE k == [cmd[c] EXCEPT !.pc = "status", !.pid = file]
  <2>1. cmd' = [cmd EXCEPT ![c] = k]
    BY <1>2 DEF ReadFile
  <2>2. k \in Runs /\ k.pc = "status" /\ k.pid = file /\ k.mode = cmd[c].mode /\ k.again = cmd[c].again
    BY <1>1, <1>2 DEF Runs
  <2> HIDE DEF k
  <2>3. cmd' \in [Commands -> Runs] /\ cmd'[c] = k /\ \A d \in Commands : d # c => cmd'[d] = cmd[d]
    BY <1>1, <2>1, <2>2
  <2>4. calm => \A b \in Bots : Alive(b) => at[b] = file
    BY <1>1 DEF PidInv, BotNamed, Alone
  <2> QED
    BY <1>1, <2>2, <2>3, <2>4 DEF PidInv, PidTypeOK, Alone, BotNamed, Knows
<1>3. CASE file = "none" /\ cmd[c].mode = "start"
  <2> DEFINE k == [cmd[c] EXCEPT !.pc = "spawn"]
  <2>1. cmd' = [cmd EXCEPT ![c] = k]
    BY <1>3 DEF ReadFile
  <2>2. k \in Runs /\ k.pc = "spawn" /\ k.mode = "start" /\ k.again = cmd[c].again
    BY <1>1, <1>3 DEF Runs
  <2> HIDE DEF k
  <2>3. cmd' \in [Commands -> Runs] /\ cmd'[c] = k /\ \A d \in Commands : d # c => cmd'[d] = cmd[d]
    BY <1>1, <2>1, <2>2
  <2>4. calm => \A b \in Bots : ~Alive(b)
    BY <1>1, <1>3, PidsAssumption DEF PidInv, BotNamed, Alone
  <2>5. PidTypeOK' /\ \A d \in Commands : cmd'[d].pc \in {"spawn", "open", "record"} => cmd'[d].mode = "start"
    BY <1>1, <2>2, <2>3 DEF PidInv, PidTypeOK
  <2>6. calm' => Alone'
    BY <1>1, <1>3, <2>2, <2>3 DEF PidInv, Alone
  <2>7. calm' => BotNamed' /\ \A d \in Commands : Knows(d)'
    BY <1>1, <2>2, <2>3, <2>4 DEF PidInv, BotNamed, Knows
  <2> QED
    BY <2>5, <2>6, <2>7 DEF PidInv
<1>4. CASE file = "none" /\ cmd[c].mode # "start" /\ cmd[c].again
  <2>1. cmd' = [cmd EXCEPT ![c] = Fresh("start", FALSE)]
    BY <1>4 DEF ReadFile
  <2>2. cmd' \in [Commands -> Runs] /\ cmd'[c] = Fresh("start", FALSE)
        /\ \A d \in Commands : d # c => cmd'[d] = cmd[d]
    BY <1>1, <2>1, FreshRuns
  <2> QED
    BY <1>1, <1>4, <2>2 DEF PidInv, PidTypeOK, Alone, BotNamed, Knows
<1>5. CASE file = "none" /\ cmd[c].mode # "start" /\ ~cmd[c].again
  <2> DEFINE k == [cmd[c] EXCEPT !.pc = "done"]
  <2>1. cmd' = [cmd EXCEPT ![c] = k]
    BY <1>5 DEF ReadFile
  <2>2. k \in Runs /\ k.pc = "done"
    BY <1>1 DEF Runs
  <2> HIDE DEF k
  <2>3. cmd' \in [Commands -> Runs] /\ cmd'[c] = k /\ \A d \in Commands : d # c => cmd'[d] = cmd[d]
    BY <1>1, <2>1, <2>2
  <2> QED
    BY <1>1, <2>2, <2>3 DEF PidInv, PidTypeOK, Alone, BotNamed, Knows
<1> QED
  BY <1>2, <1>3, <1>4, <1>5

LEMMA StatusKeeps == ASSUME PidInv, NEW c \in Commands, Status(c) PROVE PidInv'
<1>1. PidTypeOK'
  BY PidsAssumption DEF PidInv, PidTypeOK, Runs, Status, CommandLine
<1>2. \A d \in Commands : cmd'[d].pc \in {"spawn", "open", "record"} => cmd'[d].mode = "start"
  BY DEF PidInv, PidTypeOK, Runs, Status, CommandLine
<1>3. calm' => calm /\ Alone'
  BY DEF PidInv, PidTypeOK, Runs, Alone, Status, CommandLine
<1>4. calm' => BotNamed'
  BY PidsAssumption, <1>3 DEF PidInv, PidTypeOK, Runs, Alone, BotNamed, Knows, Status, CommandLine
<1>5. ASSUME calm', NEW d \in Commands PROVE Knows(d)'
  <2>1. UNCHANGED <<at, strangers, file>> /\ calm /\ Knows(d) /\ Knows(c)
    BY <1>3, <1>5 DEF Status, PidInv
  <2>2. CASE d # c
    <3>1. cmd'[d] = cmd[d]
      BY <2>2 DEF Status, PidInv, PidTypeOK
    <3> QED
      BY <2>1, <3>1 DEF Knows
  <2>3. CASE d = c
    <3>1. PICK answer \in CommandLine(cmd[c].pid) :
            /\ cmd' = [cmd EXCEPT ![c].pc = CASE cmd[c].mode = "start" ->
                                                 IF answer = "marker" THEN "done" ELSE "spawn"
                                            [] OTHER -> IF answer = "marker" THEN "term" ELSE "gone"]
            /\ calm' = (calm /\ ~(cmd[c].mode = "start" /\ answer = "none" /\ IsBot(cmd[c].pid)))
      BY DEF Status
    <3>2. \A b \in Bots : Alive(b) => at[b] = cmd[c].pid
      BY <2>1 DEF Knows, Status
    <3>3. cmd'[c].pid = cmd[c].pid
      BY <3>1 DEF PidInv, PidTypeOK, Runs
    <3>4. cmd'[c].pc = "spawn" => \A b \in Bots : ~Alive(b)
      BY <1>5, <3>1, <3>2 DEF PidInv, PidTypeOK, Runs, CommandLine
    <3>5. cmd'[c].pc # "unlink"
      BY <3>1 DEF PidInv, PidTypeOK, Runs
    <3> QED
      BY <2>1, <2>3, <3>2, <3>3, <3>4, <3>5 DEF Knows
  <2> QED
    BY <2>2, <2>3
<1> QED
  BY <1>1, <1>2, <1>3, <1>4, <1>5 DEF PidInv

LEMMA SignalKeeps == ASSUME PidInv, NEW c \in Commands, NEW next \in {"wait", "gone"}, Signal(c, next), cmd[c].pc \in {"term", "kill"} PROVE PidInv'
<1>1. PidTypeOK'
  BY PidsAssumption DEF PidInv, PidTypeOK, Runs, Signal, CommandLine
<1>2. \A d \in Commands : cmd'[d].pc \in {"spawn", "open", "record"} => cmd'[d].mode = "start"
  BY DEF PidInv, PidTypeOK, Runs, Signal, CommandLine
<1>3. calm' => calm /\ Alone'
  BY DEF PidInv, PidTypeOK, Runs, Alone, Signal, CommandLine
<1>4. calm' => BotNamed'
  BY PidsAssumption, <1>3 DEF PidInv, PidTypeOK, Runs, Alone, BotNamed, Knows, Signal, CommandLine
<1>5. calm' => \A d \in Commands : Knows(d)'
  BY PidsAssumption, <1>3 DEF PidInv, PidTypeOK, Runs, Alone, BotNamed, Knows, Signal, CommandLine
<1> QED
  BY <1>1, <1>2, <1>3, <1>4, <1>5 DEF PidInv

LEMMA WaitKeeps == ASSUME PidInv, NEW c \in Commands, Wait(c) PROVE PidInv'
<1>1. PidTypeOK'
  BY PidsAssumption DEF PidInv, PidTypeOK, Runs, Wait, CommandLine
<1>2. \A d \in Commands : cmd'[d].pc \in {"spawn", "open", "record"} => cmd'[d].mode = "start"
  BY DEF PidInv, PidTypeOK, Runs, Wait, CommandLine
<1>3. calm' => calm /\ Alone'
  BY DEF PidInv, PidTypeOK, Runs, Alone, Wait, CommandLine
<1>4. calm' => BotNamed'
  BY PidsAssumption, <1>3 DEF PidInv, PidTypeOK, Runs, Alone, BotNamed, Knows, Wait, CommandLine
<1>5. calm' => \A d \in Commands : Knows(d)'
  BY PidsAssumption, <1>3 DEF PidInv, PidTypeOK, Runs, Alone, BotNamed, Knows, Wait, CommandLine
<1> QED
  BY <1>1, <1>2, <1>3, <1>4, <1>5 DEF PidInv

LEMMA SureKeeps == ASSUME PidInv, NEW c \in Commands, Sure(c) PROVE PidInv'
<1>1. PidTypeOK'
  BY PidsAssumption DEF PidInv, PidTypeOK, Runs, Sure, CommandLine
<1>2. \A d \in Commands : cmd'[d].pc \in {"spawn", "open", "record"} => cmd'[d].mode = "start"
  BY DEF PidInv, PidTypeOK, Runs, Sure, CommandLine
<1>3. calm' => calm /\ Alone'
  BY DEF PidInv, PidTypeOK, Runs, Alone, Sure, CommandLine
<1>4. calm' => BotNamed'
  BY PidsAssumption, <1>3 DEF PidInv, PidTypeOK, Runs, Alone, BotNamed, Knows, Sure, CommandLine
<1>5. calm' => \A d \in Commands : Knows(d)'
  BY PidsAssumption, <1>3 DEF PidInv, PidTypeOK, Runs, Alone, BotNamed, Knows, Sure, CommandLine
<1> QED
  BY <1>1, <1>2, <1>3, <1>4, <1>5 DEF PidInv

LEMMA RelookKeeps == ASSUME PidInv, NEW c \in Commands, Relook(c) PROVE PidInv'
<1>1. PidTypeOK'
  BY PidsAssumption DEF PidInv, PidTypeOK, Runs, Relook, CommandLine
<1>2. \A d \in Commands : cmd'[d].pc \in {"spawn", "open", "record"} => cmd'[d].mode = "start"
  BY DEF PidInv, PidTypeOK, Runs, Relook, CommandLine
<1>3. calm' => calm /\ Alone'
  BY DEF PidInv, PidTypeOK, Runs, Alone, Relook, CommandLine
<1>4. calm' => BotNamed'
  BY PidsAssumption, <1>3 DEF PidInv, PidTypeOK, Runs, Alone, BotNamed, Knows, Relook, CommandLine
<1>5. calm' => \A d \in Commands : Knows(d)'
  BY PidsAssumption, <1>3 DEF PidInv, PidTypeOK, Runs, Alone, BotNamed, Knows, Relook, CommandLine
<1> QED
  BY <1>1, <1>2, <1>3, <1>4, <1>5 DEF PidInv

LEMMA GoneKeeps == ASSUME PidInv, NEW c \in Commands, Gone(c) PROVE PidInv'
<1>1. PidTypeOK'
  BY PidsAssumption DEF PidInv, PidTypeOK, Runs, Gone, CommandLine
<1>2. \A d \in Commands : cmd'[d].pc \in {"spawn", "open", "record"} => cmd'[d].mode = "start"
  BY DEF PidInv, PidTypeOK, Runs, Gone, CommandLine
<1>3. calm' => calm /\ Alone'
  BY DEF PidInv, PidTypeOK, Runs, Alone, Gone, CommandLine
<1>4. calm' => BotNamed'
  BY PidsAssumption, <1>3 DEF PidInv, PidTypeOK, Runs, Alone, BotNamed, Knows, Gone, CommandLine
<1>5. calm' => \A d \in Commands : Knows(d)'
  BY PidsAssumption, <1>3 DEF PidInv, PidTypeOK, Runs, Alone, BotNamed, Knows, Gone, CommandLine
<1> QED
  BY <1>1, <1>2, <1>3, <1>4, <1>5 DEF PidInv

LEMMA UnlinkKeeps == ASSUME PidInv, NEW c \in Commands, Unlink(c) PROVE PidInv'
<1>1. PidTypeOK'
  <2>1. cmd[c] \in Runs
    BY DEF PidInv, PidTypeOK
  <2>2. cmd' = [cmd EXCEPT ![c] = Fresh("start", FALSE)]
        \/ cmd' = [cmd EXCEPT ![c] = [cmd[c] EXCEPT !.pc = "done"]]
    BY DEF Unlink
  <2>3. [cmd[c] EXCEPT !.pc = "done"] \in Runs
    BY <2>1 DEF Runs
  <2>4. cmd' \in [Commands -> Runs]
    BY <2>2, <2>3, FreshRuns DEF PidInv, PidTypeOK
  <2> QED
    BY <2>4 DEF PidInv, PidTypeOK, Unlink
<1>2. \A d \in Commands : cmd'[d].pc \in {"spawn", "open", "record"} => cmd'[d].mode = "start"
  BY DEF PidInv, PidTypeOK, Runs, Unlink, CommandLine
<1>3. calm' => calm /\ Alone'
  BY DEF PidInv, PidTypeOK, Runs, Alone, Unlink, CommandLine
<1>4. calm' => BotNamed'
  BY PidsAssumption, <1>3 DEF PidInv, PidTypeOK, Runs, Alone, BotNamed, Knows, Unlink, CommandLine
<1>5. calm' => \A d \in Commands : Knows(d)'
  BY PidsAssumption, <1>3 DEF PidInv, PidTypeOK, Runs, Alone, BotNamed, Knows, Unlink, CommandLine
<1> QED
  BY <1>1, <1>2, <1>3, <1>4, <1>5 DEF PidInv

LEMMA OpenFileKeeps == ASSUME PidInv, NEW c \in Commands, OpenFile(c) PROVE PidInv'
<1>1. PidTypeOK'
  BY PidsAssumption DEF PidInv, PidTypeOK, Runs, OpenFile, CommandLine
<1>2. \A d \in Commands : cmd'[d].pc \in {"spawn", "open", "record"} => cmd'[d].mode = "start"
  BY DEF PidInv, PidTypeOK, Runs, OpenFile, CommandLine
<1>3. calm' => calm /\ Alone'
  BY DEF PidInv, PidTypeOK, Runs, Alone, OpenFile, CommandLine
<1>4. calm' => BotNamed'
  BY PidsAssumption, <1>3 DEF PidInv, PidTypeOK, Runs, Alone, BotNamed, Knows, OpenFile, CommandLine
<1>5. calm' => \A d \in Commands : Knows(d)'
  BY PidsAssumption, <1>3 DEF PidInv, PidTypeOK, Runs, Alone, BotNamed, Knows, OpenFile, CommandLine
<1> QED
  BY <1>1, <1>2, <1>3, <1>4, <1>5 DEF PidInv

LEMMA RecordKeeps == ASSUME PidInv, NEW c \in Commands, Record(c) PROVE PidInv'
<1>1. PidTypeOK'
  BY PidsAssumption DEF PidInv, PidTypeOK, Runs, Record, CommandLine
<1>2. \A d \in Commands : cmd'[d].pc \in {"spawn", "open", "record"} => cmd'[d].mode = "start"
  BY DEF PidInv, PidTypeOK, Runs, Record, CommandLine
<1>3. calm' => calm /\ Alone'
  BY DEF PidInv, PidTypeOK, Runs, Alone, Record, CommandLine
<1>4. calm' => BotNamed'
  BY PidsAssumption, <1>3 DEF PidInv, PidTypeOK, Runs, Alone, BotNamed, Knows, Record, CommandLine
<1>5. calm' => \A d \in Commands : Knows(d)'
  BY PidsAssumption, <1>3 DEF PidInv, PidTypeOK, Runs, Alone, BotNamed, Knows, Record, CommandLine
<1> QED
  BY <1>1, <1>2, <1>3, <1>4, <1>5 DEF PidInv

LEMMA CommandDiesKeeps == ASSUME PidInv, NEW c \in Commands, CommandDies(c) PROVE PidInv'
<1>1. PidTypeOK'
  BY PidsAssumption DEF PidInv, PidTypeOK, Runs, CommandDies, CommandLine
<1>2. \A d \in Commands : cmd'[d].pc \in {"spawn", "open", "record"} => cmd'[d].mode = "start"
  BY DEF PidInv, PidTypeOK, Runs, CommandDies, CommandLine
<1>3. calm' => calm /\ Alone'
  BY DEF PidInv, PidTypeOK, Runs, Alone, CommandDies, CommandLine
<1>4. calm' => BotNamed'
  BY PidsAssumption, <1>3 DEF PidInv, PidTypeOK, Runs, Alone, BotNamed, Knows, CommandDies, CommandLine
<1>5. calm' => \A d \in Commands : Knows(d)'
  BY PidsAssumption, <1>3 DEF PidInv, PidTypeOK, Runs, Alone, BotNamed, Knows, CommandDies, CommandLine
<1> QED
  BY <1>1, <1>2, <1>3, <1>4, <1>5 DEF PidInv

LEMMA SpawnKeeps == ASSUME PidInv, NEW c \in Commands, NEW b \in Bots, Spawn(c, b) PROVE PidInv'
<1>1. PidTypeOK'
  <2>1. PICK p \in Free : /\ at' = [at EXCEPT ![b] = p]
                         /\ cmd' = [cmd EXCEPT ![c] = [cmd[c] EXCEPT !.pc = "open", !.pid = p]]
    BY DEF Spawn
  <2>2. [cmd[c] EXCEPT !.pc = "open", !.pid = p] \in Runs
    BY DEF PidInv, PidTypeOK, Runs
  <2> QED
    BY <2>1, <2>2, PidsAssumption DEF PidInv, PidTypeOK, Spawn
<1>2. \A d \in Commands : cmd'[d].pc \in {"spawn", "open", "record"} => cmd'[d].mode = "start"
  BY DEF PidInv, PidTypeOK, Runs, Spawn
<1>3. calm' => calm /\ Alone'
  BY DEF PidInv, PidTypeOK, Alone, Spawn
<1>4. calm' => BotNamed'
  BY PidsAssumption, <1>3 DEF PidInv, PidTypeOK, Alone, BotNamed, Knows, Spawn
<1>5. calm' => \A d \in Commands : Knows(d)'
  BY PidsAssumption, <1>3 DEF PidInv, PidTypeOK, Alone, BotNamed, Knows, Spawn
<1> QED
  BY <1>1, <1>2, <1>3, <1>4, <1>5 DEF PidInv

LEMMA OthersKeep ==
  ASSUME PidInv, \/ \E b \in Bots : BotDies(b)
                 \/ StrangerComes \/ StrangerGoes
  PROVE  PidInv'
<1>1. PidTypeOK'
  BY PidsAssumption DEF PidInv, PidTypeOK, Runs, BotDies, StrangerComes, StrangerGoes
<1>2. cmd' = cmd /\ file' = file /\ calm' = calm /\ \A b \in Bots : Alive(b)' => Alive(b) /\ at'[b] = at[b]
  BY PidsAssumption DEF PidInv, PidTypeOK, Runs, BotDies, StrangerComes, StrangerGoes
<1> QED
  BY <1>1, <1>2 DEF PidInv, Alone, BotNamed, Knows

LEMMA PidKeeps == PidInv /\ [PidNext]_pidVars => PidInv'
<1> SUFFICES ASSUME PidInv, [PidNext]_pidVars PROVE PidInv'
  OBVIOUS
<1>1. CASE \E c \in Commands : CommandStep(c)
  <2>1. PICK c \in Commands : CommandStep(c)
    BY <1>1
  <2>2. Term(c) => cmd[c].pc = "term" /\ Signal(c, "wait")
    BY DEF Term
  <2>3. Kill(c) => cmd[c].pc = "kill" /\ Signal(c, "gone")
    BY DEF Kill
  <2> QED
    BY <2>1, <2>2, <2>3, GiveKeeps, ReadFileKeeps, StatusKeeps, SignalKeeps, WaitKeeps, SureKeeps,
       RelookKeeps, GoneKeeps, UnlinkKeeps, OpenFileKeeps, RecordKeeps, CommandDiesKeeps
       DEF CommandStep
<1>2. CASE \E c \in Commands, b \in Bots : Spawn(c, b)
  BY <1>2, SpawnKeeps
<1>3. CASE (\E b \in Bots : BotDies(b)) \/ StrangerComes \/ StrangerGoes
  BY <1>3, OthersKeep
<1>4. CASE UNCHANGED pidVars
  BY <1>4 DEF pidVars, PidInv, PidTypeOK, Alone, BotNamed, Knows
<1> QED
  BY <1>1, <1>2, <1>3, <1>4 DEF PidNext

LEMMA PidStarts == PidInit => PidInv
BY PidsAssumption DEF PidInit, PidInv, PidTypeOK, Runs, Idle, Alone, BotNamed, Knows

-----------------------------------------------------------------------------
(***************************************************************************)
(* The schema.                                                             *)
(***************************************************************************)
LEMMA ScriptFacts ==
  /\ Last \in Nat /\ Last >= 1 /\ 1 \in Versions /\ Statements[1] >= 2
  /\ \A k \in Versions : Statements[k] \in Nat /\ Statements[k] >= 1 /\ k \in Nat /\ k >= 1 /\ k <= Last
BY StatementsAssumption DEF Last, Versions

USE DEF InScript, Script, Whole, At

LEMMA ConnectKeeps == ASSUME SchemaInv, NEW p \in Processes, Connect(p) PROVE SchemaInv'
<1>1. SchemaTypeOK'
  BY ScriptFacts DEF SchemaInv, SchemaTypeOK, Hands, Versions, Connect, Place
<1>2. \A k \in 2..version' : Whole(k)'
  BY ScriptFacts DEF SchemaInv, SchemaTypeOK, Hands, Versions, Connect, Place
<1>3. version' > 0 <=> applied'[1] >= 2
  BY ScriptFacts DEF SchemaInv, SchemaTypeOK, Hands, Versions, Connect, Place
<1>4. \A q \in Processes : InScript(q)' =>
       /\ \A j \in 2..(Script(q)' - 1) : Whole(j)'
       /\ hand'[q].done <= applied'[Script(q)']
       /\ Script(q)' >= 2 => version' > 0
       /\ hand'[q].at = "bump" => hand'[q].done = Statements[Script(q)']
       /\ hand'[q].at = "script" => hand'[q].done < Statements[Script(q)']
  BY ScriptFacts DEF SchemaInv, SchemaTypeOK, Hands, Versions, Connect, Place
<1>5. orderly' => \A q, r \in Processes : InScript(q)' /\ InScript(r)' => q = r
  BY ScriptFacts DEF SchemaInv, SchemaTypeOK, Hands, Versions, Connect, Place
<1>6. orderly' /\ (\A q \in Processes : ~InScript(q)') => Clean(version)'
  BY ScriptFacts DEF SchemaInv, SchemaTypeOK, Hands, Versions, Clean, Midway, Connect, Place
<1>7. orderly' => \A q \in Processes : InScript(q)' => Midway(Script(q), hand[q].done)'
  BY ScriptFacts DEF SchemaInv, SchemaTypeOK, Hands, Versions, Clean, Midway, Connect, Place
<1> QED
  BY <1>1, <1>2, <1>3, <1>4, <1>5, <1>6, <1>7 DEF SchemaInv

LEMMA ExitKeeps == ASSUME SchemaInv, NEW p \in Processes, Exit(p) PROVE SchemaInv'
<1>1. SchemaTypeOK'
  BY ScriptFacts DEF SchemaInv, SchemaTypeOK, Hands, Versions, Exit, Place, Torn
<1>2. \A k \in 2..version' : Whole(k)'
  BY ScriptFacts DEF SchemaInv, SchemaTypeOK, Hands, Versions, Exit, Place, Torn
<1>3. version' > 0 <=> applied'[1] >= 2
  BY ScriptFacts DEF SchemaInv, SchemaTypeOK, Hands, Versions, Exit, Place, Torn
<1>4. \A q \in Processes : InScript(q)' =>
       /\ \A j \in 2..(Script(q)' - 1) : Whole(j)'
       /\ hand'[q].done <= applied'[Script(q)']
       /\ Script(q)' >= 2 => version' > 0
       /\ hand'[q].at = "bump" => hand'[q].done = Statements[Script(q)']
       /\ hand'[q].at = "script" => hand'[q].done < Statements[Script(q)']
  BY ScriptFacts DEF SchemaInv, SchemaTypeOK, Hands, Versions, Exit, Place, Torn
<1>5. orderly' => \A q, r \in Processes : InScript(q)' /\ InScript(r)' => q = r
  BY ScriptFacts DEF SchemaInv, SchemaTypeOK, Hands, Versions, Exit, Place, Torn
<1>6. orderly' /\ (\A q \in Processes : ~InScript(q)') => Clean(version)'
  <2> SUFFICES ASSUME orderly', \A q \in Processes : ~InScript(q)' PROVE Clean(version)'
    OBVIOUS
  <2>1. orderly /\ ~Torn(p) /\ version' = version /\ applied' = applied
    BY DEF Exit
  <2>2. \A q \in Processes : q # p => ~InScript(q)
    BY DEF SchemaInv, SchemaTypeOK, Exit, Place
  <2>3. CASE ~InScript(p)
    BY <2>1, <2>2, <2>3 DEF SchemaInv, Clean
  <2>4. CASE InScript(p)
    <3>1. hand[p].done = 0 /\ Script(p) \in Versions
      BY <2>1, <2>4 DEF SchemaInv, SchemaTypeOK, Hands, Torn
    <3>2. Midway(Script(p), 0)
      BY <2>1, <2>4, <3>1 DEF SchemaInv
    <3> QED
      BY <2>1, <3>1, <3>2, ScriptFacts DEF Midway, Clean, Versions
  <2> QED
    BY <2>3, <2>4
<1>7. orderly' => \A q \in Processes : InScript(q)' => Midway(Script(q), hand[q].done)'
  BY ScriptFacts DEF SchemaInv, SchemaTypeOK, Hands, Versions, Clean, Midway, Exit, Place, Torn
<1> QED
  BY <1>1, <1>2, <1>3, <1>4, <1>5, <1>6, <1>7 DEF SchemaInv

LEMMA ReadVersionKeeps == ASSUME SchemaInv, NEW p \in Processes, ReadVersion(p) PROVE SchemaInv'
<1>1. /\ UNCHANGED <<version, applied>> /\ hand[p].at = "reading" /\ version \in 0..Last
      /\ hand \in [Processes -> Hands]
      /\ orderly' = (orderly /\ (version < Last => \A q \in Processes : ~InScript(q)))
  BY DEF ReadVersion, SchemaInv, SchemaTypeOK
<1>2. PICK h \in Hands : /\ hand' = [hand EXCEPT ![p] = h]
                        /\ \/ h.at \in {"gone", "migrated"}
                           \/ h = At("script", version + 1, 0) /\ version < Last
  <2>1. At("gone", 0, 0) \in Hands /\ At("migrated", 0, 0) \in Hands
    BY ScriptFacts DEF Hands
  <2>2. version < Last => At("script", version + 1, 0) \in Hands
    BY <1>1, ScriptFacts DEF Hands
  <2>3. CASE applied[1] = 1
    BY <2>1, <2>3 DEF ReadVersion, Place
  <2>4. CASE applied[1] # 1 /\ version < Last
    BY <2>2, <2>4 DEF ReadVersion, Place, After
  <2>5. CASE applied[1] # 1 /\ ~(version < Last)
    BY <2>1, <2>5 DEF ReadVersion, Place, After
  <2> QED
    BY <2>3, <2>4, <2>5
<1>3. /\ hand' \in [Processes -> Hands] /\ hand'[p] = h
      /\ \A q \in Processes : q # p => hand'[q] = hand[q]
  BY <1>1, <1>2
<1>4. InScript(p)' => h = At("script", version + 1, 0) /\ version < Last
  BY <1>2, <1>3
<1>5. SchemaTypeOK'
  <2>1. \A q \in Processes : InScript(q)' => Script(q)' \in Versions /\ hand'[q].done <= Statements[Script(q)']
    BY <1>1, <1>3, <1>4, ScriptFacts DEF SchemaInv, SchemaTypeOK, Versions
  <2> QED
    BY <1>1, <1>3, <2>1 DEF SchemaInv, SchemaTypeOK
<1>6. \A q \in Processes : InScript(q)' =>
       /\ \A j \in 2..(Script(q)' - 1) : Whole(j)'
       /\ hand'[q].done <= applied'[Script(q)']
       /\ Script(q)' >= 2 => version' > 0
       /\ hand'[q].at = "bump" => hand'[q].done = Statements[Script(q)']
       /\ hand'[q].at = "script" => hand'[q].done < Statements[Script(q)']
  <2> SUFFICES ASSUME NEW q \in Processes, InScript(q)'
               PROVE  /\ \A j \in 2..(Script(q)' - 1) : Whole(j)'
                      /\ hand'[q].done <= applied'[Script(q)']
                      /\ Script(q)' >= 2 => version' > 0
                      /\ hand'[q].at = "bump" => hand'[q].done = Statements[Script(q)']
                      /\ hand'[q].at = "script" => hand'[q].done < Statements[Script(q)']
    OBVIOUS
  <2>1. CASE q # p
    BY <1>1, <1>3, <2>1 DEF SchemaInv
  <2>2. CASE q = p
    <3>1. hand'[q] = At("script", version + 1, 0) /\ version + 1 \in Versions
      BY <1>1, <1>3, <1>4, <2>2, ScriptFacts DEF Versions
    <3>2. applied[version + 1] \in Nat
      BY <3>1 DEF SchemaInv, SchemaTypeOK
    <3> QED
      BY <1>1, <3>1, <3>2, ScriptFacts DEF SchemaInv
  <2> QED
    BY <2>1, <2>2
<1>7. orderly' =>
       /\ \A q, r \in Processes : InScript(q)' /\ InScript(r)' => q = r
       /\ (\A q \in Processes : ~InScript(q)') => Clean(version)'
       /\ \A q \in Processes : InScript(q)' => Midway(Script(q), hand[q].done)'
  <2> SUFFICES ASSUME orderly'
               PROVE  /\ \A q, r \in Processes : InScript(q)' /\ InScript(r)' => q = r
                      /\ (\A q \in Processes : ~InScript(q)') => Clean(version)'
                      /\ \A q \in Processes : InScript(q)' => Midway(Script(q), hand[q].done)'
    OBVIOUS
  <2>1. CASE ~InScript(p)'
    <3>1. \A q \in Processes : InScript(q)' <=> InScript(q)
      BY <1>1, <1>3, <2>1
    <3>2. \A q \in Processes : InScript(q)' => Midway(Script(q), hand[q].done) /\ hand'[q] = hand[q]
      BY <1>1, <1>3, <2>1, <3>1 DEF SchemaInv
    <3>3. \A q \in Processes : InScript(q)' => Midway(Script(q), hand[q].done)'
      BY <1>1, <3>2 DEF Midway
    <3> QED
      BY <1>1, <3>1, <3>3 DEF SchemaInv, Clean
  <2>2. CASE InScript(p)'
    <3>1. orderly /\ \A q \in Processes : ~InScript(q)
      BY <1>1, <1>4, <2>2
    <3>2. \A q \in Processes : InScript(q)' => q = p
      BY <1>3, <3>1
    <3>3. Clean(version)
      BY <3>1 DEF SchemaInv
    <3>4. Midway(version + 1, 0)
      BY <1>1, <1>4, <2>2, <3>3, ScriptFacts DEF Clean, Midway, Versions, SchemaInv, SchemaTypeOK
    <3>5. Midway(Script(p), hand[p].done)'
      BY <1>1, <1>3, <1>4, <2>2, <3>4 DEF Midway
    <3> QED
      BY <2>2, <3>2, <3>5
  <2> QED
    BY <2>1, <2>2
<1> QED
  BY <1>1, <1>5, <1>6, <1>7 DEF SchemaInv

LEMMA ExecuteKeeps == ASSUME SchemaInv, NEW p \in Processes, Execute(p) PROVE SchemaInv'
<1> DEFINE k == Script(p)
           n == hand[p].done + 1
<1>1. /\ hand[p].at = "script" /\ InScript(p) /\ k \in Versions /\ hand[p].done \in Nat
      /\ hand[p].done < Statements[k] /\ hand[p].done <= applied[k]
      /\ applied \in [Versions -> Nat] /\ applied[k] \in Nat /\ applied[1] \in Nat
      /\ hand \in [Processes -> Hands] /\ version \in 0..Last /\ orderly' = orderly
  BY ScriptFacts DEF Execute, SchemaInv, SchemaTypeOK, Hands
<1>2. orderly => Midway(k, hand[p].done) /\ \A q \in Processes : InScript(q) => q = p
  BY <1>1 DEF SchemaInv
<1>3. CASE applied[k] >= n
  <2>1. hand' = [hand EXCEPT ![p] = At("gone", 0, 0)] /\ UNCHANGED <<version, applied>>
    BY <1>3 DEF Execute, Place
  <2>2. At("gone", 0, 0) \in Hands
    BY ScriptFacts DEF Hands
  <2>3. /\ hand' \in [Processes -> Hands] /\ ~InScript(p)'
        /\ \A q \in Processes : q # p => hand'[q] = hand[q]
    BY <1>1, <2>1, <2>2
  <2>4. ~orderly
    BY <1>1, <1>2, <1>3 DEF Midway
  <2>5. SchemaTypeOK'
    BY <1>1, <2>1, <2>3 DEF SchemaInv, SchemaTypeOK
  <2> QED
    BY <1>1, <2>1, <2>3, <2>4, <2>5 DEF SchemaInv
<1>4. CASE ~(applied[k] >= n)
  <2> DEFINE h == At(IF n = Statements[k] THEN "bump" ELSE "script", k, n)
  <2>1. /\ applied' = [applied EXCEPT ![k] = n]
        /\ version' = IF k = 1 /\ n = 2 THEN 1 ELSE version
        /\ hand' = [hand EXCEPT ![p] = h]
    BY <1>4 DEF Execute, Place
  <2>2. h \in Hands
    BY <1>1, ScriptFacts DEF Hands, Versions
  <2>3. /\ hand' \in [Processes -> Hands] /\ hand'[p] = h
        /\ \A q \in Processes : q # p => hand'[q] = hand[q]
    BY <1>1, <2>1, <2>2
  <2>4. applied[k] = hand[p].done /\ ~Whole(k) /\ n \in Nat /\ n >= 1 /\ n <= Statements[k]
    BY <1>1, <1>4, ScriptFacts
  <2>5. /\ applied' \in [Versions -> Nat] /\ applied'[k] = n
        /\ \A j \in Versions : j # k => applied'[j] = applied[j]
        /\ \A j \in Versions : applied[j] <= applied'[j] /\ applied'[j] \in Nat
        /\ \A j \in Versions : Whole(j) => Whole(j)'
    BY <1>1, <2>1, <2>4
  <2>6. h.at \in {"script", "bump"} /\ h.script = k /\ h.done = n
        /\ (h.at = "bump" <=> n = Statements[k])
    OBVIOUS
  <2> HIDE DEF k, n, h
  <2>7. SchemaTypeOK'
    <3>1. \A q \in Processes : InScript(q)' => Script(q)' \in Versions /\ hand'[q].done <= Statements[Script(q)']
      BY <1>1, <2>3, <2>4, <2>6 DEF SchemaInv, SchemaTypeOK
    <3>2. version' \in 0..Last /\ orderly' \in BOOLEAN
      BY <1>1, <2>1, ScriptFacts DEF SchemaInv, SchemaTypeOK
    <3>3. \A j \in Versions : applied'[j] <= Statements[j]
      BY <2>4, <2>5 DEF SchemaInv, SchemaTypeOK
    <3> QED
      BY <2>3, <2>5, <3>1, <3>2, <3>3 DEF SchemaTypeOK
  <2>8. \A j \in 2..version' : Whole(j)'
    <3> SUFFICES ASSUME NEW j \in 2..version' PROVE Whole(j)'
      OBVIOUS
    <3>1. j \in 2..version /\ j \in Versions
      BY <1>1, <2>1, ScriptFacts DEF Versions
    <3> QED
      BY <2>5, <3>1 DEF SchemaInv
  <2>9. (version' > 0 <=> applied'[1] >= 2) /\ (version > 0 => version' > 0)
    <3>1. CASE k = 1
      BY <1>1, <2>1, <2>4, <2>5, <3>1 DEF SchemaInv, n
    <3>2. CASE k # 1
      BY <1>1, <2>1, <2>5, <3>2, ScriptFacts DEF SchemaInv
    <3> QED
      BY <3>1, <3>2
  <2>10. \A q \in Processes : InScript(q)' =>
            /\ \A j \in 2..(Script(q)' - 1) : Whole(j)'
            /\ hand'[q].done <= applied'[Script(q)']
            /\ Script(q)' >= 2 => version' > 0
            /\ hand'[q].at = "bump" => hand'[q].done = Statements[Script(q)']
            /\ hand'[q].at = "script" => hand'[q].done < Statements[Script(q)']
    <3> SUFFICES ASSUME NEW q \in Processes, InScript(q)'
                 PROVE  /\ \A j \in 2..(Script(q)' - 1) : Whole(j)'
                        /\ hand'[q].done <= applied'[Script(q)']
                        /\ Script(q)' >= 2 => version' > 0
                        /\ hand'[q].at = "bump" => hand'[q].done = Statements[Script(q)']
                        /\ hand'[q].at = "script" => hand'[q].done < Statements[Script(q)']
      OBVIOUS
    <3>1. InScript(q) /\ Script(q)' = Script(q) /\ Script(q) \in Versions
      BY <1>1, <2>3, <2>6 DEF k, SchemaInv, SchemaTypeOK
    <3>2. \A j \in 2..(Script(q)' - 1) : Whole(j)'
      <4> SUFFICES ASSUME NEW j \in 2..(Script(q)' - 1) PROVE Whole(j)'
        OBVIOUS
      <4>1. j \in Versions
        BY <3>1, ScriptFacts DEF Versions
      <4> QED
        BY <2>5, <3>1, <4>1 DEF SchemaInv
    <3>3. Script(q)' >= 2 => version' > 0
      BY <2>9, <3>1 DEF SchemaInv
    <3>4. CASE q = p
      <4>1. hand'[q] = h /\ Script(q)' = k /\ applied'[Script(q)'] = n
        BY <2>3, <2>5, <2>6, <3>4
      <4>2. Statements[k] \in Nat
        BY <1>1, ScriptFacts
      <4> QED
        BY <2>4, <2>6, <3>2, <3>3, <4>1, <4>2
    <3>5. CASE q # p
      <4>1. hand[q].done <= applied[Script(q)] /\ hand[q].done \in Nat /\ applied[Script(q)] \in Nat
        BY <1>1, <3>1 DEF SchemaInv, Hands
      <4>2. hand'[q] = hand[q] /\ applied[Script(q)] <= applied'[Script(q)] /\ applied'[Script(q)] \in Nat
        BY <2>3, <2>5, <3>1, <3>5
      <4> QED
        BY <3>1, <3>2, <3>3, <4>1, <4>2 DEF SchemaInv
    <3> QED
      BY <3>4, <3>5
  <2>11. orderly' =>
       /\ \A q, r \in Processes : InScript(q)' /\ InScript(r)' => q = r
       /\ (\A q \in Processes : ~InScript(q)') => Clean(version)'
       /\ \A q \in Processes : InScript(q)' => Midway(Script(q), hand[q].done)'
    <3> SUFFICES ASSUME orderly'
                 PROVE  /\ InScript(p)' /\ \A q \in Processes : InScript(q)' => q = p
                        /\ Midway(Script(p), hand[p].done)'
      OBVIOUS
    <3>1. Midway(k, hand[p].done) /\ \A q \in Processes : InScript(q) => q = p
      BY <1>1, <1>2
    <3>2. InScript(p)' /\ \A q \in Processes : InScript(q)' => q = p
      BY <2>3, <2>6, <3>1
    <3>3. Script(p)' = k /\ hand'[p].done = n
      BY <2>3, <2>6
    <3>4. \A j \in Versions : (j < k => Whole(j)') /\ (j > k => applied'[j] = 0)
      BY <1>1, <2>5, <3>1, ScriptFacts DEF Midway
    <3>5. version' = IF k = 1 THEN (IF n >= 2 THEN 1 ELSE 0) ELSE k - 1
      BY <1>1, <2>1, <3>1 DEF Midway, n
    <3> QED
      BY <2>5, <3>2, <3>3, <3>4, <3>5 DEF Midway
  <2> QED
    BY <2>7, <2>8, <2>9, <2>10, <2>11 DEF SchemaInv
<1> QED
  BY <1>3, <1>4

LEMMA BumpKeeps == ASSUME SchemaInv, NEW p \in Processes, Bump(p) PROVE SchemaInv'
<1> DEFINE k == Script(p)
           h == IF k < Last THEN At("script", k + 1, 0) ELSE At("migrated", 0, 0)
<1>1. /\ hand[p].at = "bump" /\ InScript(p) /\ k \in Versions
      /\ hand[p].done = Statements[k] /\ hand[p].done <= applied[k] /\ applied[k] <= Statements[k]
      /\ applied \in [Versions -> Nat] /\ applied[k] \in Nat /\ applied[1] \in Nat
      /\ hand \in [Processes -> Hands] /\ version \in 0..Last
      /\ orderly' = orderly /\ applied' = applied /\ version' = k
  BY ScriptFacts DEF Bump, SchemaInv, SchemaTypeOK, Hands
<1>2. Whole(k)
  BY <1>1, ScriptFacts
<1>3. hand' = [hand EXCEPT ![p] = h]
  BY DEF Bump, After, Place
<1>4. h \in Hands
  <2>1. k < Last => k + 1 \in 0..Last
    BY <1>1, ScriptFacts
  <2> QED
    BY <2>1, ScriptFacts DEF Hands
<1>5. /\ hand' \in [Processes -> Hands] /\ hand'[p] = h
      /\ \A q \in Processes : q # p => hand'[q] = hand[q]
  BY <1>1, <1>3, <1>4
<1>6. \/ k < Last /\ h.at = "script" /\ h.script = k + 1 /\ h.done = 0 /\ k + 1 \in Versions
      \/ k = Last /\ h.at = "migrated"
  BY <1>1, ScriptFacts DEF Versions
<1> HIDE DEF h
<1>7. \A j \in 2..k : Whole(j)
  <2> SUFFICES ASSUME NEW j \in 2..k PROVE Whole(j)
    OBVIOUS
  <2>1. j = k \/ j \in 2..(k - 1)
    BY <1>1, ScriptFacts
  <2> QED
    BY <1>1, <1>2, <2>1 DEF SchemaInv
<1>8. SchemaTypeOK'
  <2>1. \A q \in Processes : InScript(q)' => Script(q)' \in Versions /\ hand'[q].done <= Statements[Script(q)']
    BY <1>5, <1>6, ScriptFacts DEF SchemaInv, SchemaTypeOK
  <2>2. version' \in 0..Last /\ orderly' \in BOOLEAN
    BY <1>1, ScriptFacts DEF SchemaInv, SchemaTypeOK
  <2> QED
    BY <1>1, <1>5, <2>1, <2>2 DEF SchemaInv, SchemaTypeOK
<1>9. version' > 0 <=> applied'[1] >= 2
  <2>1. CASE k = 1
    BY <1>1, <1>2, <2>1, ScriptFacts
  <2>2. CASE k # 1
    <3>1. k >= 2 /\ k > 0
      BY <1>1, <2>2, ScriptFacts
    <3> QED
      BY <1>1, <3>1 DEF SchemaInv
  <2> QED
    BY <2>1, <2>2
<1>10. \A q \in Processes : InScript(q)' =>
          /\ \A j \in 2..(Script(q)' - 1) : Whole(j)'
          /\ hand'[q].done <= applied'[Script(q)']
          /\ Script(q)' >= 2 => version' > 0
          /\ hand'[q].at = "bump" => hand'[q].done = Statements[Script(q)']
          /\ hand'[q].at = "script" => hand'[q].done < Statements[Script(q)']
  <2> SUFFICES ASSUME NEW q \in Processes, InScript(q)'
               PROVE  /\ \A j \in 2..(Script(q)' - 1) : Whole(j)'
                      /\ hand'[q].done <= applied'[Script(q)']
                      /\ Script(q)' >= 2 => version' > 0
                      /\ hand'[q].at = "bump" => hand'[q].done = Statements[Script(q)']
                      /\ hand'[q].at = "script" => hand'[q].done < Statements[Script(q)']
    OBVIOUS
  <2>1. CASE q = p
    <3>1. k < Last /\ hand'[q].at = "script" /\ Script(q)' = k + 1 /\ hand'[q].done = 0 /\ k + 1 \in Versions
      BY <1>5, <1>6, <2>1
    <3>2. applied'[k + 1] \in Nat /\ Statements[k + 1] \in Nat /\ Statements[k + 1] >= 1 /\ k \in Nat /\ k >= 1
      BY <1>1, <3>1, ScriptFacts
    <3>3. (k + 1) - 1 = k
      BY <3>2
    <3> QED
      BY <1>1, <1>7, <3>1, <3>2, <3>3
  <2>2. CASE q # p
    <3>1. version' > 0
      BY <1>1, ScriptFacts
    <3> QED
      BY <1>1, <1>5, <2>2, <3>1 DEF SchemaInv
  <2> QED
    BY <2>1, <2>2
<1>11. orderly' =>
       /\ \A q, r \in Processes : InScript(q)' /\ InScript(r)' => q = r
       /\ (\A q \in Processes : ~InScript(q)') => Clean(version)'
       /\ \A q \in Processes : InScript(q)' => Midway(Script(q), hand[q].done)'
  <2> SUFFICES ASSUME orderly'
               PROVE  /\ \A q \in Processes : InScript(q)' => q = p
                      /\ ~InScript(p)' => Clean(version)'
                      /\ InScript(p)' => Midway(Script(p), hand[p].done)'
    OBVIOUS
  <2>1. Midway(k, Statements[k]) /\ \A q \in Processes : InScript(q) => q = p
    BY <1>1 DEF SchemaInv
  <2>2. \A q \in Processes : InScript(q)' => q = p
    BY <1>5, <2>1
  <2>3. ~InScript(p)' => Clean(version)'
    BY <1>1, <1>2, <1>5, <1>6, <2>1, ScriptFacts DEF Clean, Midway
  <2>4. InScript(p)' => Midway(Script(p), hand[p].done)'
    <3> SUFFICES ASSUME InScript(p)' PROVE Midway(Script(p), hand[p].done)'
      OBVIOUS
    <3>1. k < Last /\ k + 1 \in Versions
      BY <1>5, <1>6
    <3>2. \A j \in Versions : (j < k + 1 => Whole(j)) /\ (j > k + 1 => applied[j] = 0)
      BY <1>1, <1>2, <2>1, ScriptFacts DEF Midway
    <3>3. applied[k + 1] = 0
      BY <1>1, <2>1, <3>1, ScriptFacts DEF Midway
    <3>4. version' = IF k + 1 = 1 THEN 0 ELSE (k + 1) - 1
      BY <1>1, ScriptFacts
    <3>5. Script(p)' = k + 1 /\ hand'[p].done = 0
      BY <1>5, <1>6
    <3>6. \A j \in Versions : (j < Script(p)' => Whole(j)') /\ (j > Script(p)' => applied'[j] = 0)
      BY <1>1, <3>2, <3>5
    <3>7. applied'[Script(p)'] = 0
      BY <1>1, <3>3, <3>5
    <3>8. version' = IF Script(p)' = 1 THEN 0 ELSE Script(p)' - 1
      BY <3>4, <3>5
    <3> QED
      BY <3>5, <3>6, <3>7, <3>8 DEF Midway
  <2> QED
    BY <2>2, <2>3, <2>4
<1> QED
  BY <1>1, <1>7, <1>8, <1>9, <1>10, <1>11 DEF SchemaInv

LEMMA SchemaKeeps == SchemaInv /\ [SchemaNext]_schemaVars => SchemaInv'
<1> SUFFICES ASSUME SchemaInv, [SchemaNext]_schemaVars PROVE SchemaInv'
  OBVIOUS
<1>1. CASE SchemaNext
  BY <1>1, ConnectKeeps, ExitKeeps, ReadVersionKeeps, ExecuteKeeps, BumpKeeps
     DEF SchemaNext, MigrationStep
<1>2. CASE UNCHANGED schemaVars
  BY <1>2 DEF schemaVars, SchemaInv, SchemaTypeOK, Clean, Midway
<1> QED
  BY <1>1, <1>2

LEMMA SchemaStarts == SchemaInit => SchemaInv
BY ScriptFacts DEF SchemaInit, SchemaInv, SchemaTypeOK, Hands, Versions, Clean

-----------------------------------------------------------------------------
(***************************************************************************)
(* The rows, and the whole.                                                *)
(***************************************************************************)
USE DEF Serving, Asks

Linked ==
  \A b \in Bots : /\ at[b] = "unborn" <=> hand[b].at = "off"
                  /\ at[b] = "gone"   <=> hand[b].at = "gone"

RowTypes ==
  /\ stage \in [Bots -> {"starting", "jobs", "serving"}]
  /\ job \in [Processes -> {"none", "ACTIVE", "INTERRUPTED", "FINISHED"}]
  /\ proposal \in [Bots -> {"none", "PENDING", "ACTIVE", "INTERRUPTED", "INTERRUPTED_UNKNOWN",
                            "CONCLUDED"}]

RowStep ==
  \/ \E p \in Processes : ReconcileJobs(p) \/ CreateJob(p) \/ FinishJob(p)
  \/ \E b \in Bots : ReconcileActions(b) \/ Propose(b) \/ Approve(b) \/ Conclude(b)

LEMMA Parts ==
  ASSUME [Next]_vars
  PROVE  [PidNext]_pidVars /\ [SchemaNext]_schemaVars /\ (RowStep \/ UNCHANGED rowVars)
<1>1. CASE \E c \in Commands : CommandStep(c) /\ UNCHANGED <<schemaVars, rowVars>>
  BY <1>1 DEF PidNext
<1>2. CASE \E c \in Commands, b \in Bots : Launch(c, b)
  BY <1>2, BotsAssumption DEF PidNext, SchemaNext, Launch
<1>3. CASE (StrangerComes \/ StrangerGoes) /\ UNCHANGED <<schemaVars, rowVars>>
  BY <1>3 DEF PidNext
<1>4. CASE \E p \in Processes : Ask(p) \/ Migrate(p) \/ Die(p)
  BY <1>4 DEF PidNext, SchemaNext, Ask, Migrate, Die
<1>5. CASE RowStep
  BY <1>5 DEF RowStep, ReconcileJobs, CreateJob, FinishJob, ReconcileActions, Propose, Approve, Conclude
<1>6. CASE UNCHANGED vars
  BY <1>6 DEF vars
<1> QED
  BY <1>1, <1>2, <1>3, <1>4, <1>5, <1>6 DEF Next, RowStep

\* A bot that runs is the one of the file, or the one just spawned; the start
\* that spawned it had made sure that no other was there.
LEMMA BotsAgree ==
  ASSUME PidInv, calm, NEW b \in Bots, NEW d \in Bots, Alive(b), Alive(d) PROVE b = d
<1>1. at[b] = at[d]
  <2>1. /\ file = at[b] \/ \E c \in Commands : cmd[c].pc \in {"open", "record"} /\ cmd[c].pid = at[b]
        /\ file = at[d] \/ \E c \in Commands : cmd[c].pc \in {"open", "record"} /\ cmd[c].pid = at[d]
    BY DEF PidInv, BotNamed
  <2>2. \A c \in Commands : cmd[c].pc \in {"open", "record"} => at[b] = cmd[c].pid /\ at[d] = cmd[c].pid
    BY DEF PidInv, Knows
  <2> QED
    BY <2>1, <2>2
<1> QED
  BY <1>1 DEF PidInv, PidTypeOK

LEMMA LinkKeeps == ASSUME PidInv, SchemaInv, Linked, [Next]_vars PROVE Linked'
<1>0. at \in [Bots -> Pids \cup {"unborn", "gone"}] /\ hand \in [Processes -> Hands]
  BY DEF PidInv, PidTypeOK, SchemaInv, SchemaTypeOK
<1>1. CASE \E c \in Commands : CommandStep(c) /\ UNCHANGED <<schemaVars, rowVars>>
  BY <1>1 DEF Linked, schemaVars, CommandStep, Give, ReadFile, Status, Term, Kill, Signal, Wait, Sure,
     Relook, Gone, Unlink, OpenFile, Record, CommandDies
<1>2. CASE \E c \in Commands, b \in Bots : Launch(c, b)
  <2>1. PICK c \in Commands, b \in Bots : Launch(c, b)
    BY <1>2
  <2>2. PICK p \in Pids : at' = [at EXCEPT ![b] = p]
    BY <2>1 DEF Launch, Spawn
  <2>3. hand' = [hand EXCEPT ![b] = At("reading", 0, 0)]
    BY <2>1 DEF Launch, Connect, Place
  <2>4. at'[b] = p /\ hand'[b].at = "reading"
        /\ \A d \in Bots : d # b => at'[d] = at[d] /\ hand'[d] = hand[d]
    BY <1>0, <2>2, <2>3, BotsAssumption
  <2> QED
    BY <2>4, PidsAssumption DEF Linked
<1>3. CASE (StrangerComes \/ StrangerGoes) /\ UNCHANGED <<schemaVars, rowVars>>
  BY <1>3 DEF Linked, schemaVars, StrangerComes, StrangerGoes
<1>4. ASSUME NEW p \in Processes, Ask(p) PROVE Linked'
  <2>1. at' = at /\ p \notin Bots /\ hand' = [hand EXCEPT ![p] = At("reading", 0, 0)]
    BY <1>4 DEF Ask, Connect, Place, pidVars
  <2> QED
    BY <1>0, <2>1, BotsAssumption DEF Linked
<1>5. ASSUME NEW p \in Processes, Migrate(p) PROVE Linked'
  <2>1. \A q \in Processes : q # p => hand'[q] = hand[q]
    BY <1>0, <1>5 DEF Migrate, MigrationStep, ReadVersion, Execute, Bump, Place, After
  <2>2. hand[p].at \in {"reading", "script", "bump"}
    BY <1>5 DEF Migrate, MigrationStep, ReadVersion, Execute, Bump
  <2>3. hand'[p].at \in {"script", "bump", "migrated", "gone"}
    BY <1>0, <1>5 DEF Migrate, MigrationStep, ReadVersion, Execute, Bump, Place, After
  <2>4. CASE hand'[p].at = "gone" /\ p \in Bots
    <3>1. at' = [at EXCEPT ![p] = "gone"]
      BY <1>5, <2>4 DEF Migrate, BotDies
    <3> QED
      BY <1>0, <2>1, <2>4, <3>1, BotsAssumption DEF Linked
  <2>5. CASE ~(hand'[p].at = "gone" /\ p \in Bots)
    <3>1. at' = at
      BY <1>5, <2>5 DEF Migrate, pidVars
    <3> QED
      BY <2>1, <2>2, <2>3, <2>5, <3>1, BotsAssumption DEF Linked
  <2> QED
    BY <2>4, <2>5
<1>6. ASSUME NEW p \in Processes, Die(p) PROVE Linked'
  <2>1. hand' = [hand EXCEPT ![p] = At("gone", 0, 0)]
    BY <1>6 DEF Die, Exit, Place
  <2>2. at' = IF p \in Bots THEN [at EXCEPT ![p] = "gone"] ELSE at
    BY <1>6 DEF Die, BotDies, pidVars
  <2> QED
    BY <1>0, <2>1, <2>2, BotsAssumption DEF Linked
<1>7. CASE RowStep
  BY <1>7 DEF RowStep, Linked, pidVars, schemaVars, ReconcileJobs, CreateJob, FinishJob,
     ReconcileActions, Propose, Approve, Conclude
<1>8. CASE UNCHANGED vars
  BY <1>8 DEF Linked, vars, pidVars, schemaVars
<1> QED
  BY <1>1, <1>2, <1>3, <1>4, <1>5, <1>6, <1>7, <1>8 DEF Next, RowStep

LEMMA RowsKeep == ASSUME PidInv, SchemaInv, RowInv, [Next]_vars, TypeOK' PROVE RowInv'
<1>0. /\ RowTypes /\ Linked /\ at \in [Bots -> Pids \cup {"unborn", "gone"}]
      /\ hand \in [Processes -> Hands] /\ RowTypes'
  BY DEF RowInv, TypeOK, RowTypes, Linked, PidInv, PidTypeOK, SchemaInv, SchemaTypeOK
<1>1. CASE UNCHANGED rowVars
  <2>1. /\ UNCHANGED <<stage, job, proposal>>
        /\ calm' => calm
        /\ \A b \in Bots : (at[b] = "gone" => at'[b] = "gone") /\ (at'[b] = "unborn" => at[b] = "unborn")
    <3>1. calm' => calm
      BY Parts DEF PidNext, pidVars, CommandStep, Give, ReadFile, Status, Term, Kill, Signal, Wait,
         Sure, Relook, Gone, Unlink, OpenFile, Record, CommandDies, Spawn, BotDies, StrangerComes,
         StrangerGoes
    <3>2. \A b \in Bots : (at[b] = "gone" => at'[b] = "gone") /\ (at'[b] = "unborn" => at[b] = "unborn")
      <4>1. at' = at \/ (\E b \in Bots : BotDies(b)) \/ (\E c \in Commands, b \in Bots : Spawn(c, b))
        BY Parts DEF PidNext, pidVars, CommandStep, Give, ReadFile, Status, Term, Kill, Signal, Wait,
           Sure, Relook, Gone, Unlink, OpenFile, Record, CommandDies, StrangerComes, StrangerGoes
      <4>2. ASSUME NEW b \in Bots, BotDies(b)
            PROVE  \A d \in Bots : (at[d] = "gone" => at'[d] = "gone") /\ (at'[d] = "unborn" => at[d] = "unborn")
        BY <1>0, <4>2 DEF BotDies
      <4>3. ASSUME NEW c \in Commands, NEW b \in Bots, Spawn(c, b)
            PROVE  \A d \in Bots : (at[d] = "gone" => at'[d] = "gone") /\ (at'[d] = "unborn" => at[d] = "unborn")
        <5>1. PICK p \in Pids : at' = [at EXCEPT ![b] = p]
          BY <4>3 DEF Spawn
        <5>2. at[b] = "unborn"
          BY <4>3 DEF Spawn
        <5> QED
          BY <1>0, <5>1, <5>2
      <4> QED
        BY <4>1, <4>2, <4>3
    <3> QED
      BY <1>1, <3>1, <3>2 DEF rowVars
  <2>2. OnlyTheDeadInterrupted'
    BY <2>1 DEF RowInv, OnlyTheDeadInterrupted
  <2>3. \A b \in Bots : stage'[b] # "serving" => job'[b] = "none" /\ proposal'[b] = "none"
    BY <2>1 DEF RowInv
  <2>4. \A b \in Bots : at'[b] = "unborn" => stage'[b] = "starting"
    BY <2>1 DEF RowInv
  <2> QED
    BY <2>2, <2>3, <2>4 DEF RowInv
<1>2. ASSUME NEW b \in Bots, ReconcileJobs(b) \/ ReconcileActions(b) PROVE RowInv'
  <2>1. /\ UNCHANGED <<at, calm, hand>> /\ hand[b].at = "migrated" /\ stage[b] # "serving"
        /\ \A d \in Bots : d # b => stage'[d] = stage[d]
    BY <1>0, <1>2 DEF ReconcileJobs, ReconcileActions, RowTypes, pidVars, schemaVars
  <2>2. Alive(b)
    BY <1>0, <2>1 DEF Linked
  <2>3. calm => \A d \in Bots : d # b => at[d] \in {"unborn", "gone"}
    BY <1>0, <2>2, BotsAgree
  <2>4. \A d \in Bots : /\ job[d] = "none" => job'[d] = "none"
                        /\ proposal[d] = "none" => proposal'[d] = "none"
    BY <1>0, <1>2, BotsAssumption DEF ReconcileJobs, ReconcileActions, RowTypes
  <2>5. job[b] = "none" /\ proposal[b] = "none"
    BY <2>1 DEF RowInv
  <2>6. \A d \in Bots : at[d] = "unborn" => job[d] = "none" /\ proposal[d] = "none"
    BY <1>0 DEF RowInv
  <2>7. OnlyTheDeadInterrupted'
    BY <2>1, <2>3, <2>4, <2>5, <2>6 DEF OnlyTheDeadInterrupted
  <2>8. \A d \in Bots : stage'[d] # "serving" => job'[d] = "none" /\ proposal'[d] = "none"
    BY <2>1, <2>4, <2>5 DEF RowInv
  <2>9. \A d \in Bots : at'[d] = "unborn" => stage'[d] = "starting"
    BY <2>1, <2>2, PidsAssumption DEF RowInv
  <2> QED
    BY <2>7, <2>8, <2>9 DEF RowInv
<1>3. ASSUME NEW p \in Processes, CreateJob(p) \/ FinishJob(p) PROVE RowInv'
  <2>1. /\ UNCHANGED <<at, calm, stage, proposal>>
        /\ p \in Bots => stage[p] = "serving"
        /\ \A q \in Processes : q # p => job'[q] = job[q]
        /\ job'[p] \in {"ACTIVE", "FINISHED"}
    BY <1>0, <1>3 DEF CreateJob, FinishJob, RowTypes, pidVars
  <2>2. OnlyTheDeadInterrupted'
    BY <2>1, BotsAssumption DEF RowInv, OnlyTheDeadInterrupted
  <2>3. \A b \in Bots : stage'[b] # "serving" => job'[b] = "none" /\ proposal'[b] = "none"
    BY <2>1, BotsAssumption DEF RowInv
  <2>4. \A b \in Bots : at'[b] = "unborn" => stage'[b] = "starting"
    BY <2>1 DEF RowInv
  <2> QED
    BY <2>2, <2>3, <2>4 DEF RowInv
<1>4. ASSUME NEW b \in Bots, Propose(b) \/ Approve(b) \/ Conclude(b) PROVE RowInv'
  <2>1. /\ UNCHANGED <<at, calm, stage, job>> /\ stage[b] = "serving"
        /\ \A d \in Bots : d # b => proposal'[d] = proposal[d]
        /\ proposal'[b] \in {"PENDING", "ACTIVE", "CONCLUDED"}
    BY <1>0, <1>4 DEF Propose, Approve, Conclude, RowTypes, pidVars
  <2> QED
    BY <2>1 DEF RowInv, OnlyTheDeadInterrupted
<1>5. \A p \in Processes : ReconcileJobs(p) => p \in Bots
  BY DEF ReconcileJobs
<1> QED
  BY <1>1, <1>2, <1>3, <1>4, <1>5, Parts DEF RowStep

LEMMA InvHolds == Spec => []Inv
<1>1. Init => Inv
  <2> SUFFICES ASSUME Init PROVE Inv
    OBVIOUS
  <2>1. PidInv /\ SchemaInv
    BY PidStarts, SchemaStarts DEF Init
  <2>2. RowTypes /\ Linked
    BY BotsAssumption DEF Init, PidInit, SchemaInit, RowTypes, Linked
  <2>3. RowInv
    BY <2>1, <2>2, BotsAssumption
       DEF Init, PidInv, SchemaInv, RowInv, TypeOK, RowTypes, Linked, OnlyTheDeadInterrupted
  <2> QED
    BY <2>1, <2>3 DEF Inv
<1>2. Inv /\ [Next]_vars => Inv'
  <2> SUFFICES ASSUME Inv, [Next]_vars PROVE Inv'
    OBVIOUS
  <2>1. PidInv' /\ SchemaInv'
    BY Parts, PidKeeps, SchemaKeeps DEF Inv
  <2>2. Linked'
    BY LinkKeeps DEF Inv, RowInv, TypeOK, Linked
  <2>3. RowTypes'
    <3>1. RowTypes
      BY DEF Inv, RowInv, TypeOK, RowTypes
    <3>2. CASE UNCHANGED rowVars
      BY <3>1, <3>2 DEF RowTypes, rowVars
    <3>3. CASE RowStep
      BY <3>1, <3>3 DEF RowTypes, RowStep, ReconcileJobs, CreateJob, FinishJob, ReconcileActions,
         Propose, Approve, Conclude
    <3> QED
      BY <3>2, <3>3, Parts
  <2>4. TypeOK'
    BY <2>1, <2>2, <2>3 DEF PidInv, SchemaInv, TypeOK, Linked, RowTypes
  <2> QED
    BY <2>1, <2>4, RowsKeep DEF Inv
<1> QED
  BY <1>1, <1>2, PTL DEF Spec

\* TypeOK: each pid has one process, and a process has a pid while it is at
\* something.
THEOREM TypeCorrect == Spec => []TypeOK
<1>1. Inv => TypeOK
  BY DEF Inv, RowInv
<1> QED
  BY <1>1, InvHolds, PTL

\* BotNamed: start and stop never lose a bot, for any number of commands given
\* one after the other.
THEOREM PidFileLeads == Spec => []BotNamed
<1>1. Inv => BotNamed
  BY DEF Inv, PidInv, BotNamed
<1> QED
  BY <1>1, InvHolds, PTL

\* Under the same conditions two bots never run side by side: a start or a
\* restart spawns one only when the last is gone, whatever became of its pid.
OneBot == calm => \A b, d \in Bots : Alive(b) /\ Alive(d) => b = d

\* start, stop and restart keep at most one bot running, for any number of
\* commands, bots and strangers that take over a pid.
THEOREM SingleBot == Spec => []OneBot
<1>1. Inv => OneBot
  BY BotsAgree DEF Inv, OneBot
<1> QED
  BY <1>1, InvHolds, PTL

\* SchemaHonest: the version tells the truth of the tables, whichever
\* processes migrate side by side and wherever they die.
THEOREM VersionTruthful == Spec => []SchemaHonest
<1>1. Inv => SchemaHonest
  BY DEF Inv, SchemaInv, SchemaHonest, Clean
<1> QED
  BY <1>1, InvHolds, PTL

\* OnlyTheDeadInterrupted: no bot finds its own work called interrupted.
THEOREM LivingSpared == Spec => []OnlyTheDeadInterrupted
<1>1. Inv => OnlyTheDeadInterrupted
  BY DEF Inv, RowInv
<1> QED
  BY <1>1, InvHolds, PTL
=============================================================================
