---------------------- MODULE InvestigationLoopProofs ----------------------
(***************************************************************************)
(* The safety properties of InvestigationLoop, for any budgets, any calls  *)
(* the model may choose and any length of a batch.                         *)
(***************************************************************************)
EXTENDS InvestigationLoop, FiniteSetTheorems, TLAPS

\* Where the thread is tells what it knows of the call it looks at.
Position ==
  /\ place \in {"read", "next"} => i <= Len(batch)
  /\ place = "read" => /\ i \notin carried /\ ran[i] # {}
                       /\ batch[i] \notin made /\ batch[i].tool # "unknown"
  /\ place = "next" => /\ cont.call \in Call /\ cont.call.tool = "run"
                       /\ cont.for # 0 => cont.for \in carried /\ ran[cont.for] # {}

\* The actions that move the thread and touch neither the batch nor the
\* session.
Moves == /\ UNCHANGED <<session, batch, carried, i, cont, again>>
         /\ \/ Ask \/ NoReply \/ Concluded \/ Silence \/ BatchDone \/ GiveUp \/ Stop
            \/ Unregistered \/ Conclude \/ Synthesized \/ Raise \/ Cancel \/ TimePasses
            \/ UNCHANGED vars

\* Every step is one of these.
LEMMA Cases ==
  ASSUME [Next]_vars
  PROVE  \/ Moves \/ Skip \/ Read
         \/ \E b \in Batches : Called(b)
         \/ \E full \in Sizes, bare \in Sizes, found \in BOOLEAN : Retained(full, bare, found)
         \/ \E full \in Sizes, bare \in Sizes : Dropped(full, bare) \/ Continued(full, bare)
<1>1. Ask \/ NoReply \/ Concluded \/ Silence \/ BatchDone \/ GiveUp \/ Unregistered \/ Conclude
      \/ Synthesized \/ Raise \/ Cancel \/ TimePasses \/ UNCHANGED vars
        => UNCHANGED <<session, batch, carried, i, cont, again>>
  BY DEF Ask, NoReply, Concluded, Silence, BatchDone, GiveUp, Unregistered, Conclude, Synthesized,
         Raise, Cancel, TimePasses, vars, calls
<1>2. Stop => UNCHANGED <<session, batch, carried, i, cont, again>>
  BY DEF Stop
<1>3. QED
  BY <1>1, <1>2 DEF Moves, Next, Step, Model, Look, Execute

LEMMA BatchTypes ==
  ASSUME NEW b \in Batches
  PROVE  b \in Seq(Asked) /\ Len(b) \in Indices /\ \A j \in 1 .. Len(b) : b[j] \in Call
<1>1. PICK n \in Indices : b \in [1 .. n -> Asked]
  BY DEF Batches
<1>2. b \in Seq(Asked) /\ Len(b) = n
  BY <1>1, LoopAssumption DEF Indices
<1>3. QED
  BY <1>1, <1>2, LoopAssumption

\* What a discovery can be continued with.
LEMMA ContinuationTypes ==
  ASSUME TypeOK, i <= Len(batch), NEW s \in Continuation(batch[i])
  PROVE  /\ s \in [call : Call \cup {None}, for : 0 .. MaxBatch]
         /\ s.call \in Call /\ s.call.tool = "run" /\ batch[i].tool = "find"
         /\ s.for # 0 => s.for \in Indices /\ s.for > i
<1>1. batch[i] \in Asked /\ batch[i] \in Call /\ \A j \in 1 .. Len(batch) : batch[j] \in Call
  BY LoopAssumption DEF TypeOK
<1>2. s \in Selected(batch[i]) /\ batch[i].tool = "find" /\ s.call.argv \in Argvs
  BY LoopAssumption DEF Continuation, Selected
<1>3. batch[i].exe \in Names
  BY <1>1, <1>2, LoopAssumption
<1>4. \A argv, form : argv \in Argvs /\ form \in {"full", "brief", "code"}
        => OnPath(batch[i].exe, argv, form) \in Call /\ OnPath(batch[i].exe, argv, form).tool = "run"
  BY <1>3 DEF OnPath, Call
<1>5. CASE batch[i].argv # None
  <2>1. s = [call |-> OnPath(batch[i].exe, batch[i].argv, "code"), for |-> 0]
    BY <1>2, <1>5 DEF Selected
  <2>2. s.call = OnPath(batch[i].exe, batch[i].argv, "code") /\ s.for = 0
    BY <2>1
  <2>3. s.call \in Call /\ s.call.tool = "run"
    BY <1>2, <1>4, <2>2 DEF OnPath
  <2>4. QED
    BY <1>2, <2>1, <2>2, <2>3, LoopAssumption
<1>6. CASE batch[i].argv = None /\ Pending(batch[i].exe) # {}
  <2>1. PICK j \in Pending(batch[i].exe) :
          s = [call |-> OnPath(batch[i].exe, batch[j].argv, batch[j].form), for |-> j]
    BY <1>2, <1>6 DEF Selected
  <2>2. j \in Indices /\ j > i /\ batch[j] \in Call /\ j \in 0 .. MaxBatch
    BY <1>1, <2>1, LoopAssumption DEF Pending, Indices
  <2>3. s.call = OnPath(batch[i].exe, batch[j].argv, batch[j].form) /\ s.for = j
    BY <2>1
  <2>4. batch[j].argv \in Argvs /\ batch[j].form \in {"full", "brief", "code"}
    BY <1>2, <2>2, <2>3 DEF OnPath, Call
  <2>5. s.call \in Call /\ s.call.tool = "run"
    BY <1>4, <2>3, <2>4
  <2>6. s \in [call : Call \cup {None}, for : 0 .. MaxBatch]
    BY <2>1, <2>2, <2>3, <2>5
  <2>7. QED
    BY <1>2, <2>2, <2>3, <2>5, <2>6
<1>7. CASE batch[i].argv = None /\ Pending(batch[i].exe) = {}
  <2>1. recent[batch[i].exe] \in Call
        /\ s = [call |-> OnPath(batch[i].exe, recent[batch[i].exe].argv,
                                recent[batch[i].exe].form), for |-> 0]
    BY <1>2, <1>3, <1>7 DEF Selected, TypeOK
  <2>2. s.call = OnPath(batch[i].exe, recent[batch[i].exe].argv, recent[batch[i].exe].form)
        /\ s.for = 0
    BY <2>1
  <2>3. s.call \in Call /\ s.call.tool = "run"
    BY <1>2, <1>4, <2>1, <2>2 DEF OnPath, Call
  <2>4. QED
    BY <1>2, <2>1, <2>2, <2>3, LoopAssumption
<1>8. QED
  BY <1>5, <1>6, <1>7
-----------------------------------------------------------------------------
LEMMA InitTypes ==
  ASSUME Init
  PROVE  TypeOK /\ Position
<1>1. cont \in [call : Call \cup {None}, for : 0 .. MaxBatch]
  BY LoopAssumption DEF Init, Nothing
<1>2. batch \in Seq(Asked) /\ Len(batch) <= MaxBatch /\ i \in 1 .. MaxBatch + 1
  BY LoopAssumption DEF Init
<1>3. /\ recent \in [Names -> Call \cup {None}]
      /\ told \in [Indices -> SUBSET {"result", "dropped", "unexecuted"}]
      /\ ran \in [Indices -> SUBSET {"itself", "carried"}]
  BY DEF Init
<1>4. place \in Places /\ (place = "done" <=> outcome # "none") /\ late \in BOOLEAN
      /\ cancelled \in {"no"} \cup (Places \ {"done"})
      /\ outcome \in Reasons \cup {"none", "RAISED"}
  BY DEF Init, Places
<1>5. llm \in Nat /\ used \in Nat /\ again \in Nat /\ since \in Nat /\ carried \subseteq Indices
      /\ made \subseteq Call
  BY DEF Init
<1>6. Position
  BY DEF Init, Position
<1>7. QED
  BY <1>1, <1>2, <1>3, <1>4, <1>5, <1>6 DEF TypeOK

LEMMA AddTypes ==
  ASSUME TypeOK, NEW c \in Call, NEW full \in Sizes, NEW bare \in Sizes, Add(c, full, bare)
  PROVE  made' \subseteq Call /\ recent' \in [Names -> Call \cup {None}] /\ used' \in Nat
<1>1. made' \subseteq Call
  BY DEF Add, TypeOK
<1>2. recent' \in [Names -> Call \cup {None}]
  BY DEF Add, Noted, TypeOK
<1>3. used' \in Nat
  BY LoopAssumption DEF Add, Stored, TypeOK
<1>4. QED
  BY <1>1, <1>2, <1>3

LEMMA MoveTypes ==
  ASSUME TypeOK, Position, Moves
  PROVE  TypeOK' /\ Position'
<1>1. llm' \in Nat /\ since' = since /\ ran' = ran
  BY DEF Moves, Ask, NoReply, Concluded, Silence, BatchDone, GiveUp, Stop, Unregistered, Conclude,
         Synthesized, Raise, Cancel, TimePasses, vars, calls, TypeOK
<1>a. late' \in BOOLEAN /\ cancelled' \in {"no"} \cup (Places \ {"done"})
  BY DEF Moves, Ask, NoReply, Concluded, Silence, BatchDone, GiveUp, Stop, Unregistered, Conclude,
         Synthesized, Raise, Cancel, TimePasses, vars, calls, TypeOK
<1>2. /\ place' \in Places /\ outcome' \in Reasons \cup {"none", "RAISED"}
      /\ (place' = "done") <=> (outcome' # "none")
      /\ place' \notin {"read", "next"} \/ place' = place
  BY DEF Moves, Ask, NoReply, Concluded, Silence, BatchDone, GiveUp, Stop, Unregistered, Conclude,
         Synthesized, Raise, Cancel, TimePasses, vars, Return, TypeOK, Reasons, Places, Current
<1>3. told' \in [Indices -> SUBSET {"result", "dropped", "unexecuted"}]
  BY DEF Moves, Ask, NoReply, Concluded, Silence, BatchDone, GiveUp, Stop, Unregistered, Conclude,
         Synthesized, Raise, Cancel, TimePasses, vars, calls, TypeOK, TellRest
<1>4. TypeOK'
  BY <1>1, <1>a, <1>2, <1>3 DEF Moves, TypeOK, session
<1>5. Position'
  BY <1>1, <1>2 DEF Moves, Position, session
<1>6. QED
  BY <1>4, <1>5

LEMMA BatchStepTypes ==
  ASSUME TypeOK, Position, Skip \/ Read \/ \E b \in Batches : Called(b)
  PROVE  TypeOK' /\ Position'
<1>1. CASE Skip
  BY <1>1, LoopAssumption DEF Skip, TypeOK, Position, session, calls, Indices
<1>2. CASE Read
  <2>1. i \in Indices /\ ran' = [ran EXCEPT ![i] = @ \cup {"itself"}]
        /\ again' \in Nat /\ since' \in Nat
    BY <1>2, LoopAssumption DEF Read, Current, Begin, TypeOK, Indices
  <2>2. ran' \in [Indices -> SUBSET {"itself", "carried"}] /\ ran'[i] # {}
    BY <2>1 DEF TypeOK
  <2>3. QED
    BY <1>2, <2>1, <2>2 DEF Read, Current, TypeOK, Position, Places, session
<1>3. ASSUME NEW b \in Batches, Called(b)  PROVE TypeOK' /\ Position'
  <2>1. b \in Seq(Asked) /\ Len(b) \in Indices
    BY BatchTypes
  <2>2. QED
    BY <1>3, <2>1, LoopAssumption
    DEF Called, TypeOK, Position, Places, Indices, Nothing, session
<1>4. QED
  BY <1>1, <1>2, <1>3

LEMMA ReadTypes ==
  ASSUME TypeOK, Position, NEW full \in Sizes, NEW bare \in Sizes,
         \/ \E found \in BOOLEAN : Retained(full, bare, found)
         \/ Dropped(full, bare) \/ Continued(full, bare)
  PROVE  TypeOK' /\ Position'
<1>1. i \in Indices /\ i <= Len(batch) /\ batch[i] \in Call
  BY LoopAssumption DEF Retained, Dropped, Continued, Position, TypeOK, Indices
<1>2. ASSUME NEW found \in BOOLEAN, Retained(full, bare, found)  PROVE TypeOK' /\ Position'
  <2>1. Add(batch[i], full, bare) /\ told' \in [Indices -> SUBSET {"result", "dropped", "unexecuted"}]
    BY <1>1, <1>2 DEF Retained, Tell, TypeOK
  <2>2. made' \subseteq Call /\ recent' \in [Names -> Call \cup {None}] /\ used' \in Nat
    BY <1>1, <2>1, AddTypes
  <2>3. CASE \E s \in Continuation(batch[i]) : Continue(s)
    <3>1. PICK s \in Continuation(batch[i]) : Continue(s)
      BY <2>3
    <3>2. /\ s \in [call : Call \cup {None}, for : 0 .. MaxBatch]
          /\ s.call \in Call /\ s.call.tool = "run"
          /\ s.for # 0 => s.for \in Indices
      BY <1>1, ContinuationTypes
    <3>3. carried' \subseteq Indices /\ again' \in Nat /\ since' \in Nat
      BY <3>1, <3>2 DEF Continue, Begin, TypeOK
    <3>4. /\ ran' \in [Indices -> SUBSET {"itself", "carried"}]
          /\ s.for # 0 => s.for \in carried' /\ ran'[s.for] # {}
      <4>1. CASE s.for = 0
        BY <3>1, <4>1 DEF Continue, Begin, TypeOK
      <4>2. CASE s.for # 0
        <5>1. ran' = [ran EXCEPT ![s.for] = @ \cup {"carried"}] /\ s.for \in carried'
          BY <3>1, <4>2 DEF Continue, Begin
        <5>2. ran \in [Indices -> SUBSET {"itself", "carried"}] /\ s.for \in Indices
          BY <3>2, <4>2 DEF TypeOK
        <5>3. ran'[s.for] = ran[s.for] \cup {"carried"}
          BY <5>1, <5>2
        <5>4. ran' \in [Indices -> SUBSET {"itself", "carried"}]
          BY <5>1, <5>2
        <5>5. QED
          BY <5>1, <5>3, <5>4
      <4>3. QED
        BY <4>1, <4>2
    <3>5. QED
      BY <1>2, <2>1, <2>2, <3>1, <3>2, <3>3, <3>4
      DEF Retained, Continue, TypeOK, Position, Places
  <2>4. CASE place' = "call" /\ i' = i + 1 /\ UNCHANGED <<cont, carried, ran, again, since>>
    BY <1>1, <1>2, <2>1, <2>2, <2>4, LoopAssumption
    DEF Retained, TypeOK, Position, Places, Indices
  <2>5. QED
    BY <1>2, <2>3, <2>4 DEF Retained
<1>3. CASE Dropped(full, bare)
  <2>1. told' \in [Indices -> SUBSET {"result", "dropped", "unexecuted"}]
    BY <1>1, <1>3 DEF Dropped, Tell, TellRest, TypeOK
  <2>2. made' \subseteq Call /\ recent' \in [Names -> Call \cup {None}] /\ used' \in Nat
    BY <1>1, <1>3, AddTypes DEF Dropped
  <2>3. QED
    BY <1>3, <2>1, <2>2 DEF Dropped, TypeOK, Position, Places
<1>4. CASE Continued(full, bare)
  <2>1. cont.call \in Call /\ cont.for \in 0 .. MaxBatch
    BY <1>4 DEF Continued, Position, TypeOK
  <2>2. told' \in [Indices -> SUBSET {"result", "dropped", "unexecuted"}]
    BY <1>4, <2>1 DEF Continued, Tell, TypeOK
  <2>3. made' \subseteq Call /\ recent' \in [Names -> Call \cup {None}] /\ used' \in Nat
    BY <1>4, <2>1, AddTypes DEF Continued, TypeOK, session
  <2>4. QED
    BY <1>1, <1>4, <2>2, <2>3, LoopAssumption
    DEF Continued, TypeOK, Position, Places, Indices
<1>5. QED
  BY <1>2, <1>3, <1>4

LEMMA Typed == Spec => [](TypeOK /\ Position)
<1>1. TypeOK /\ Position /\ [Next]_vars => TypeOK' /\ Position'
  BY Cases, MoveTypes, BatchStepTypes, ReadTypes
<1>2. QED
  BY InitTypes, <1>1, PTL DEF Spec

\* Whatever the model asks for, every variable keeps its type; there is an
\* outcome exactly when the investigation is over.
THEOREM TypeCorrect == Spec => []TypeOK
BY Typed, PTL
-----------------------------------------------------------------------------
\* What has been said and done about each call of the batch.
Reading == place \in {"call", "read", "next"}
Behind(j) == \/ j < i \/ j \in carried
             \/ j = i /\ place = "next"
Told ==
  /\ Reading => \A j \in 1 .. Len(batch) :
                  Behind(j) /\ ~(place = "next" /\ j = cont.for) => told[j] # {}
  /\ Reading => \A j \in Indices : "unexecuted" \notin told[j]
Executed ==
  /\ Reading => \A j \in Indices :
                  ran[j] # {} => j < i \/ j \in carried \/ (j = i /\ place # "call")
  /\ \A j \in Indices : /\ "itself" \in ran[j] => j \notin carried
                        /\ "carried" \in ran[j] => j \in carried
ReplayInv == CallsAnswered /\ AnswersTrue /\ Told /\ Executed

LEMMA ExecutedOnce == TypeOK /\ Executed => CarriedNotRerun
BY DEF TypeOK, Executed, CarriedNotRerun

LEMMA InitReplay == Init => ReplayInv
BY DEF Init, ReplayInv, CallsAnswered, AnswersTrue, Told, Executed, Reading, Behind

LEMMA MoveReplay ==
  ASSUME TypeOK, Position, ReplayInv, Moves
  PROVE  ReplayInv'
<1>1. CASE Stop
  <2>1. told' = TellRest(told, i) /\ place = "call" /\ place' = "conclude" /\ ran' = ran
        /\ i \in Indices /\ i \notin carried /\ Len(batch) <= MaxBatch /\ Len(batch) \in Nat
    BY <1>1, LoopAssumption DEF Stop, Current, TypeOK, Indices
  <2>2. \A j \in Indices : told'[j] = IF j \in i .. Len(batch) THEN told[j] \cup {"unexecuted"}
                                      ELSE told[j]
    BY <2>1 DEF TellRest
  <2>a. UNCHANGED <<batch, carried, i>>
    BY DEF Moves
  <2>3. CallsAnswered'
    <3>1. ASSUME NEW j \in 1 .. Len(batch)  PROVE told'[j] # {}
      <4>1. j \in Indices /\ (j < i \/ j \in i .. Len(batch))
        BY <2>1, LoopAssumption DEF Indices
      <4>2. j < i => told[j] # {}
        BY <2>1 DEF ReplayInv, Told, Reading, Behind
      <4>3. QED
        BY <2>2, <4>1, <4>2
    <3>2. QED
      BY <2>a, <3>1 DEF CallsAnswered
  <2>4. AnswersTrue'
    <3>1. ASSUME NEW j \in Indices
          PROVE  /\ told'[j] \cap {"result", "dropped"} = told[j] \cap {"result", "dropped"}
                 /\ "unexecuted" \in told'[j] => j \in i .. Len(batch)
      BY <2>1, <2>2 DEF ReplayInv, Told, Reading
    <3>2. \A j \in Indices : (ran[j] # {} /\ j \in i .. Len(batch)) => j \in carried
      BY <2>1 DEF ReplayInv, Executed, Reading, Indices
    <3>3. QED
      BY <2>1, <2>a, <3>1, <3>2 DEF ReplayInv, AnswersTrue
  <2>5. QED
    BY <2>1, <2>3, <2>4 DEF Moves, ReplayInv, Told, Executed, Reading
<1>2. CASE BatchDone
  BY <1>2, LoopAssumption
  DEF BatchDone, calls, ReplayInv, CallsAnswered, AnswersTrue, Told, Executed, Reading, Behind,
      TypeOK
<1>3. CASE Cancel \/ TimePasses \/ UNCHANGED vars
  BY <1>3 DEF Cancel, TimePasses, vars, calls, ReplayInv, CallsAnswered, AnswersTrue, Told,
              Executed, Reading, Behind
<1>4. CASE \/ Ask \/ NoReply \/ Concluded \/ Silence \/ GiveUp \/ Unregistered \/ Conclude
           \/ Synthesized \/ Raise
  <2>1. /\ UNCHANGED calls
        /\ place' \in {"ask", "reply", "conclude", "synth", "done"}
        /\ place' # "done" => place \in {"ask", "reply", "conclude", "synth"}
    BY <1>4 DEF Ask, NoReply, Concluded, Silence, GiveUp, Unregistered, Conclude, Synthesized,
                Raise, Return
  <2>2. QED
    BY <2>1 DEF calls, ReplayInv, CallsAnswered, AnswersTrue, Told, Executed, Reading
<1>5. QED
  BY <1>1, <1>2, <1>3, <1>4 DEF Moves

LEMMA BatchReplay ==
  ASSUME TypeOK, Position, ReplayInv, Skip \/ Read \/ \E b \in Batches : Called(b)
  PROVE  ReplayInv'
<1>1. CASE Skip
  BY <1>1, LoopAssumption
  DEF Skip, calls, ReplayInv, CallsAnswered, AnswersTrue, Told, Executed, Reading, Behind, TypeOK
<1>2. CASE Read
  <2>1. /\ i \in Indices /\ i <= Len(batch) /\ i \notin carried /\ place = "call" /\ place' = "read"
        /\ ran' = [ran EXCEPT ![i] = @ \cup {"itself"}] /\ UNCHANGED <<batch, i, carried, told>>
    BY <1>2, LoopAssumption DEF Read, Current, Begin, TypeOK, Indices
  <2>2. ran'[i] = ran[i] \cup {"itself"} /\ \A j \in Indices \ {i} : ran'[j] = ran[j]
    BY <2>1 DEF TypeOK
  <2>3. Told'
    <3>1. \A j \in 1 .. Len(batch) : Behind(j)' => Behind(j)
      BY <2>1 DEF Behind
    <3>2. QED
      BY <2>1, <3>1 DEF ReplayInv, Told, Reading
  <2>a. CallsAnswered'
    BY <2>1 DEF CallsAnswered
  <2>4. Executed'
    <3>1. \A j \in Indices : ran'[j] # {} => j < i \/ j \in carried \/ j = i
      BY <2>1, <2>2 DEF ReplayInv, Executed, Reading
    <3>2. \A j \in Indices : /\ "itself" \in ran'[j] => j \notin carried
                             /\ "carried" \in ran'[j] => j \in carried
      BY <2>1, <2>2 DEF ReplayInv, Executed
    <3>3. QED
      BY <2>1, <3>1, <3>2 DEF Executed, Reading
  <2>5. AnswersTrue'
    BY <2>1, <2>2 DEF ReplayInv, AnswersTrue, Told, Reading
  <2>6. QED
    BY <2>3, <2>a, <2>4, <2>5 DEF ReplayInv
<1>3. ASSUME NEW b \in Batches, Called(b)  PROVE ReplayInv'
  BY <1>3, BatchTypes
  DEF Called, ReplayInv, CallsAnswered, AnswersTrue, Told, Executed, Reading, Behind, Indices
<1>4. QED
  BY <1>1, <1>2, <1>3

\* A READ of the batch answers.
LEMMA ReadReplay ==
  ASSUME TypeOK, Position, ReplayInv, NEW full \in Sizes, NEW bare \in Sizes,
         (\E found \in BOOLEAN : Retained(full, bare, found)) \/ Dropped(full, bare)
  PROVE  ReplayInv'
<1>1. /\ place = "read" /\ i \in Indices /\ i <= Len(batch) /\ Len(batch) \in Nat
      /\ Len(batch) <= MaxBatch /\ i \notin carried /\ ran[i] # {} /\ batch' = batch
  BY LoopAssumption DEF Retained, Dropped, Position, TypeOK, Indices
<1>2. ASSUME NEW found \in BOOLEAN, Retained(full, bare, found)  PROVE ReplayInv'
  <2>1. told' = [told EXCEPT ![i] = @ \cup {"result"}]
    BY <1>2 DEF Retained, Tell
  <2>2. told'[i] = told[i] \cup {"result"} /\ \A j \in Indices \ {i} : told'[j] = told[j]
    BY <1>1, <2>1 DEF TypeOK
  <2>3. CASE place' = "call" /\ i' = i + 1 /\ UNCHANGED <<cont, carried, ran, again, since>>
    <3>1. Told'
      <4>1. \A j \in 1 .. Len(batch) : Behind(j)' => j = i \/ Behind(j)
        BY <1>1, <2>3 DEF Behind, Indices
      <4>2. QED
        BY <1>1, <2>2, <2>3, <4>1, LoopAssumption DEF ReplayInv, Told, Reading, Indices
    <3>2. Executed'
      BY <1>1, <2>3 DEF ReplayInv, Executed, Reading, Indices
    <3>3. AnswersTrue' /\ CallsAnswered'
      BY <1>1, <2>2, <2>3 DEF ReplayInv, AnswersTrue, CallsAnswered, Told, Reading
    <3>4. QED
      BY <3>1, <3>2, <3>3 DEF ReplayInv
  <2>4. CASE \E s \in Continuation(batch[i]) : Continue(s)
    <3>1. PICK s \in Continuation(batch[i]) : Continue(s)
      BY <2>4
    <3>2. s.for # 0 => s.for \in Indices /\ s.for > i
      BY <1>1, ContinuationTypes
    <3>3. place' = "next" /\ i' = i /\ cont' = s
      BY <3>1 DEF Continue
    <3>4. CASE s.for = 0
      <4>1. UNCHANGED <<carried, ran>>
        BY <3>1, <3>4 DEF Continue, Begin
      <4>2. Told'
        <5>1. \A j \in 1 .. Len(batch) : Behind(j)' => j = i \/ Behind(j)
          BY <3>3, <4>1 DEF Behind
        <5>2. QED
          BY <1>1, <2>2, <3>3, <5>1, LoopAssumption DEF ReplayInv, Told, Reading, Indices
      <4>3. Executed' /\ AnswersTrue' /\ CallsAnswered'
        BY <1>1, <2>2, <3>3, <4>1
        DEF ReplayInv, AnswersTrue, CallsAnswered, Told, Executed, Reading
      <4>4. QED
        BY <4>2, <4>3 DEF ReplayInv
    <3>5. CASE s.for # 0
      <4>1. carried' = carried \cup {s.for} /\ ran' = [ran EXCEPT ![s.for] = @ \cup {"carried"}]
        BY <3>1, <3>5 DEF Continue, Begin
      <4>2. ran'[s.for] = ran[s.for] \cup {"carried"}
            /\ \A j \in Indices \ {s.for} : ran'[j] = ran[j]
        BY <3>2, <3>5, <4>1 DEF TypeOK
      <4>3. Told'
        <5>1. \A j \in 1 .. Len(batch) : Behind(j)' => j = i \/ j = s.for \/ Behind(j)
          BY <3>3, <4>1 DEF Behind
        <5>2. QED
          BY <1>1, <2>2, <3>3, <5>1, LoopAssumption DEF ReplayInv, Told, Reading, Indices
      <4>4. "itself" \notin ran[s.for]
        BY <1>1, <3>2, <3>5 DEF ReplayInv, Executed, Reading, Indices, TypeOK
      <4>5. Executed'
        BY <1>1, <3>2, <3>3, <3>5, <4>1, <4>2, <4>4 DEF ReplayInv, Executed, Reading
      <4>6. AnswersTrue' /\ CallsAnswered'
        BY <1>1, <2>2, <3>3, <4>1, <4>2
        DEF ReplayInv, AnswersTrue, CallsAnswered, Told, Reading
      <4>7. QED
        BY <4>3, <4>5, <4>6 DEF ReplayInv
    <3>6. QED
      BY <3>4, <3>5
  <2>5. QED
    BY <1>2, <2>3, <2>4 DEF Retained
<1>3. CASE Dropped(full, bare)
  <2>1. told' = TellRest(Tell(i, "dropped"), i + 1) /\ place' = "conclude"
        /\ UNCHANGED <<batch, i, carried, ran>>
    BY <1>3 DEF Dropped
  <2>2. \A j \in Indices :
          told'[j] = IF j = i THEN told[j] \cup {"dropped"}
                     ELSE IF j \in i + 1 .. Len(batch) THEN told[j] \cup {"unexecuted"}
                     ELSE told[j]
    <3>1. \A j \in Indices : Tell(i, "dropped")[j] = IF j = i THEN told[j] \cup {"dropped"}
                                                     ELSE told[j]
      BY <1>1 DEF Tell, TypeOK
    <3>2. \A j \in Indices :
            told'[j] = IF j \in i + 1 .. Len(batch) THEN Tell(i, "dropped")[j] \cup {"unexecuted"}
                       ELSE Tell(i, "dropped")[j]
      BY <2>1 DEF TellRest
    <3>3. i \notin i + 1 .. Len(batch)
      BY <1>1 DEF Indices
    <3>4. QED
      BY <3>1, <3>2, <3>3
  <2>3. CallsAnswered'
    <3>1. ASSUME NEW j \in 1 .. Len(batch)  PROVE told'[j] # {}
      <4>1. j \in Indices /\ (j < i \/ j = i \/ j \in i + 1 .. Len(batch))
        BY <1>1, LoopAssumption DEF Indices
      <4>2. j < i => told[j] # {}
        BY <1>1 DEF ReplayInv, Told, Reading, Behind
      <4>3. QED
        BY <2>2, <4>1, <4>2
    <3>2. QED
      BY <2>1, <3>1 DEF CallsAnswered
  <2>4. AnswersTrue'
    <3>1. ASSUME NEW j \in Indices
          PROVE  /\ j # i => told'[j] \cap {"result", "dropped"} = told[j] \cap {"result", "dropped"}
                 /\ "unexecuted" \in told'[j] => j \in i + 1 .. Len(batch)
      <4>1. "unexecuted" \notin told[j]
        BY <1>1 DEF ReplayInv, Told, Reading
      <4>2. "unexecuted" \in told'[j] => j \in i + 1 .. Len(batch)
        <5>1. CASE j = i
          <6>1. told'[j] = told[j] \cup {"dropped"}
            BY <2>2, <5>1
          <6>2. QED
            BY <4>1, <6>1
        <5>2. CASE j # i /\ j \notin i + 1 .. Len(batch)
          <6>1. told'[j] = told[j]
            BY <2>2, <5>2
          <6>2. QED
            BY <4>1, <6>1
        <5>3. QED
          BY <5>1, <5>2
      <4>3. CASE j # i
        <5>1. told'[j] = told[j] \/ told'[j] = told[j] \cup {"unexecuted"}
          BY <2>2, <4>3
        <5>2. QED
          BY <4>2, <5>1
      <4>4. QED
        BY <4>2, <4>3
    <3>2. \A j \in Indices : (ran[j] # {} /\ j \in i + 1 .. Len(batch)) => j \in carried
      BY <1>1 DEF ReplayInv, Executed, Reading, Indices
    <3>3. QED
      BY <1>1, <2>1, <3>1, <3>2 DEF ReplayInv, AnswersTrue
  <2>5. QED
    BY <2>1, <2>3, <2>4 DEF ReplayInv, Told, Executed, Reading
<1>4. QED
  BY <1>2, <1>3

\* A continuation answers.
LEMMA ContinuedReplay ==
  ASSUME TypeOK, Position, ReplayInv, NEW full \in Sizes, NEW bare \in Sizes,
         Continued(full, bare)
  PROVE  ReplayInv'
<1>1. /\ place = "next" /\ place' = "call" /\ i \in Indices /\ i' = i + 1
      /\ UNCHANGED <<batch, carried, ran>> /\ cont' = cont
  BY LoopAssumption DEF Continued, Position, TypeOK, Indices
<1>2. Executed'
  BY <1>1 DEF ReplayInv, Executed, Reading, Indices
<1>3. PICK what \in {"result", "dropped"} :
        told' = IF cont.for = 0 THEN told ELSE [told EXCEPT ![cont.for] = @ \cup {what}]
  BY DEF Continued, Tell
<1>4. cont.for = 0 \/ (cont.for \in Indices /\ cont.for \in carried /\ ran[cont.for] # {})
  BY <1>1 DEF Position, TypeOK
<1>5. \A j \in Indices : told'[j] = IF j = cont.for THEN told[j] \cup {what} ELSE told[j]
  <2>1. CASE cont.for = 0
    BY <1>3, <2>1, LoopAssumption DEF Indices
  <2>2. CASE cont.for # 0
    BY <1>3, <1>4, <2>2 DEF TypeOK
  <2>3. QED
    BY <2>1, <2>2
<1>6. Told'
  <2>1. \A j \in 1 .. Len(batch) : Behind(j)' => Behind(j) /\ j \in Indices
    BY <1>1, LoopAssumption DEF Behind, Indices, TypeOK
  <2>2. \A j \in 1 .. Len(batch) : Behind(j) /\ j # cont.for => told[j] # {}
    BY <1>1 DEF ReplayInv, Told, Reading
  <2>3. \A j \in 1 .. Len(batch) : Behind(j)' => told'[j] # {}
    BY <1>5, <2>1, <2>2
  <2>4. \A j \in Indices : "unexecuted" \notin told'[j]
    BY <1>1, <1>3, <1>5 DEF ReplayInv, Told, Reading
  <2>5. QED
    BY <1>1, <2>3, <2>4 DEF Told, Reading
<1>7. AnswersTrue' /\ CallsAnswered'
  <2>1. \A j \in Indices : "unexecuted" \notin told'[j]
    BY <1>1, <1>3, <1>5 DEF ReplayInv, Told, Reading
  <2>2. \A j \in Indices : told'[j] \cap {"result", "dropped"} # {} => ran[j] # {}
    BY <1>3, <1>4, <1>5 DEF ReplayInv, AnswersTrue
  <2>3. QED
    BY <1>1, <2>1, <2>2 DEF AnswersTrue, CallsAnswered
<1>8. QED
  BY <1>2, <1>6, <1>7 DEF ReplayInv

LEMMA Replay == Spec => []ReplayInv
<1>1. TypeOK /\ Position /\ ReplayInv /\ [Next]_vars => ReplayInv'
  BY Cases, MoveReplay, BatchReplay, ReadReplay, ContinuedReplay
<1>2. QED
  BY InitReplay, Typed, <1>1, PTL DEF Spec

\* When the model is asked again, every call of its last answer has a result
\* in the inputs.
THEOREM ReplayComplete == Spec => []CallsAnswered
BY Replay, PTL DEF ReplayInv

\* What the inputs say was executed was executed, and what they say was not
\* was not, or was answered before by a continuation.
THEOREM ReplayTrue == Spec => []AnswersTrue
BY Replay, PTL DEF ReplayInv

\* A call carried through discovery never runs as the model wrote it.
THEOREM RunsOnce == Spec => []CarriedNotRerun
<1>1. TypeOK /\ ReplayInv => CarriedNotRerun
  BY ExecutedOnce DEF ReplayInv
<1>2. QED
  BY <1>1, Replay, TypeCorrect, PTL
-----------------------------------------------------------------------------
\* Once cancelled the thread begins nothing, whatever it was doing.
CancelInv ==
  /\ cancelled = "no" => since = 0
  /\ cancelled # "no" /\ place = "read" => cancelled = "read" /\ since = 0
  /\ cancelled \in {"ask", "call", "read", "next", "conclude"} => place \notin {"reply", "synth"}
  /\ CancelStopsReads /\ CancelWins

LEMMA InitCancel == Init => CancelInv
BY DEF Init, CancelInv, CancelStopsReads, CancelWins

LEMMA StepCancel ==
  ASSUME TypeOK, Position, CancelInv, [Next]_vars
  PROVE  CancelInv'
<1>1. CASE Cancel
  BY <1>1 DEF Cancel, CancelInv, CancelStopsReads, CancelWins, TypeOK
<1>2. CASE TimePasses \/ UNCHANGED vars
  BY <1>2 DEF TimePasses, vars, CancelInv, CancelStopsReads, CancelWins
<1>3. CASE Ask \/ Conclude
  BY <1>3 DEF Ask, Conclude, Return, CancelInv, CancelStopsReads, CancelWins
<1>4. CASE NoReply \/ Concluded \/ Silence \/ Synthesized \/ Raise
  <2>1. /\ UNCHANGED <<cancelled, since>> /\ place' \in {"conclude", "done"}
        /\ place' = "done" => (place \in {"reply", "synth"} \/ outcome' = "RAISED")
    BY <1>4 DEF NoReply, Concluded, Silence, Synthesized, Raise, Return
  <2>2. QED
    BY <2>1 DEF CancelInv, CancelStopsReads, CancelWins
<1>5. CASE BatchDone \/ Skip \/ GiveUp \/ Stop \/ Unregistered \/ \E b \in Batches : Called(b)
  <2>1. /\ UNCHANGED <<cancelled, since>> /\ place' \in {"ask", "call", "conclude", "done"}
        /\ place' = "done" => (cancelled = "no" \/ outcome' = "CANCELLED")
    BY <1>5 DEF BatchDone, Skip, GiveUp, Stop, Unregistered, Called, Return
  <2>2. QED
    BY <2>1 DEF CancelInv, CancelStopsReads, CancelWins
<1>6. CASE Read
  BY <1>6 DEF Read, Begin, CancelInv, CancelStopsReads, CancelWins
<1>7. CASE \E full \in Sizes, bare \in Sizes, found \in BOOLEAN : Retained(full, bare, found)
  <2>1. place = "read" /\ cancelled' = cancelled /\ place' \in {"call", "next"}
    BY <1>7 DEF Retained, Continue
  <2>2. since' = since \/ (cancelled # "no" /\ since' = since + 1)
    BY <1>7 DEF Retained, Continue, Begin
  <2>3. QED
    BY <2>1, <2>2 DEF CancelInv, CancelStopsReads, CancelWins
<1>8. CASE \E full \in Sizes, bare \in Sizes : Dropped(full, bare) \/ Continued(full, bare)
  BY <1>8 DEF Dropped, Continued, CancelInv, CancelStopsReads, CancelWins
<1>9. QED
  BY <1>1, <1>2, <1>3, <1>4, <1>5, <1>6, <1>7, <1>8 DEF Next, Step, Model, Look, Execute

LEMMA Cancelled == Spec => []CancelInv
BY InitCancel, StepCancel, Typed, PTL DEF Spec

\* After the cancellation nothing is read, save one continuation.
THEOREM ReadsStop == Spec => []CancelStopsReads
BY Cancelled, PTL DEF CancelInv

\* A cancellation in time is the outcome.
THEOREM CancellationWins == Spec => []CancelWins
BY Cancelled, PTL DEF CancelInv
-----------------------------------------------------------------------------
\* What is left of each budget, place by place.
Finds(S) == {c \in S : c.tool = "find"}
Spent ==
  /\ IsFiniteSet(made) /\ Cardinality(made) <= MaxCalls
  /\ place \in {"read", "next"} => Cardinality(made) < MaxCalls
  /\ used <= EvidenceCap
  /\ again <= Cardinality(Finds(made))
Questions ==
  /\ place # "done" => llm <= Planning
  /\ place = "reply" => llm < Planning
  /\ place = "synth" => llm < Total
  /\ llm <= Total

LEMMA Totals == Total \in Nat /\ Planning \in Nat /\ Planning <= Total
                /\ (Total > 0 => Planning < Total)
BY LoopAssumption DEF Total, Planning

LEMMA MadeOne ==
  ASSUME TypeOK, Spent, NEW c \in Call \ made
  PROVE  /\ IsFiniteSet(made \cup {c}) /\ Cardinality(made \cup {c}) = Cardinality(made) + 1
         /\ Cardinality(Finds(made \cup {c})) =
              Cardinality(Finds(made)) + (IF c.tool = "find" THEN 1 ELSE 0)
         /\ Cardinality(made) \in Nat /\ Cardinality(Finds(made)) \in Nat
<1>1. /\ IsFiniteSet(made \cup {c}) /\ Cardinality(made \cup {c}) = Cardinality(made) + 1
      /\ Cardinality(made) \in Nat
  BY FS_AddElement, FS_CardinalityType DEF Spent
<1>2. IsFiniteSet(Finds(made)) /\ Cardinality(Finds(made)) \in Nat /\ c \notin Finds(made)
  BY FS_Subset, FS_CardinalityType DEF Spent, Finds
<1>3. CASE c.tool = "find"
  <2>1. Finds(made \cup {c}) = Finds(made) \cup {c}
    BY <1>3 DEF Finds
  <2>2. Cardinality(Finds(made) \cup {c}) = Cardinality(Finds(made)) + 1
    BY <1>2, FS_AddElement
  <2>3. QED
    BY <1>1, <1>2, <1>3, <2>1, <2>2
<1>4. CASE c.tool # "find"
  <2>1. Finds(made \cup {c}) = Finds(made)
    BY <1>4 DEF Finds
  <2>2. QED
    BY <1>1, <1>2, <1>4, <2>1
<1>5. QED
  BY <1>3, <1>4

LEMMA StoredBounded ==
  ASSUME TypeOK, used <= EvidenceCap, NEW full \in Sizes, NEW bare \in Sizes
  PROVE  Stored(full, bare) <= EvidenceCap
BY LoopAssumption DEF Stored, Kept, TypeOK

LEMMA InitSpent == Init => Spent /\ Questions
<1>1. Finds({}) = {}
  BY DEF Finds
<1>2. QED
  <2>1. IsFiniteSet({}) /\ Cardinality({}) = 0
    BY FS_EmptySet
  <2>2. ASSUME Init  PROVE Spent
    <3>1. made = {} /\ used = 0 /\ again = 0 /\ place = "ask"
      BY <2>2 DEF Init
    <3>2. IsFiniteSet(made) /\ Cardinality(made) = 0 /\ Cardinality(Finds(made)) = 0
      BY <1>1, <2>1, <3>1
    <3>3. QED
      BY <3>1, <3>2, LoopAssumption DEF Spent
  <2>3. Init => Questions
    BY Totals DEF Init, Questions
  <2>4. QED
    BY <2>2, <2>3

LEMMA StepSpent ==
  ASSUME TypeOK, Position, Spent, [Next]_vars
  PROVE  Spent'
<1>1. CASE Moves \/ Skip \/ \E b \in Batches : Called(b)
  <2>1. UNCHANGED <<made, used, again>> /\ (place' \in {"read", "next"} => place' = place)
    BY <1>1 DEF Moves, Ask, NoReply, Concluded, Silence, BatchDone, GiveUp, Stop, Unregistered,
                Conclude, Synthesized, Raise, Cancel, TimePasses, vars, Return, Skip, Called, session
  <2>2. QED
    BY <2>1 DEF Spent
<1>2. CASE Read
  BY <1>2 DEF Read, Begin, CanCall, session, Spent
<1>3. ASSUME NEW full \in Sizes, NEW bare \in Sizes,
             (\E found \in BOOLEAN : Retained(full, bare, found)) \/ Dropped(full, bare)
      PROVE  Spent'
  <2>1. place = "read" /\ i <= Len(batch) /\ i \in 1 .. MaxBatch + 1 /\ Add(batch[i], full, bare)
    BY <1>3 DEF Retained, Dropped, Position, TypeOK
  <2>2. batch[i] \in Call \ made
    BY <2>1, LoopAssumption DEF Position, TypeOK
  <2>3. made' = made \cup {batch[i]} /\ used' <= EvidenceCap
    BY <2>1, StoredBounded DEF Add, Spent
  <2>4. /\ again' = again \/ (again' = again + 1 /\ batch[i].tool = "find")
        /\ place' \in {"read", "next"} => Cardinality(made') < MaxCalls
    BY <1>3, <2>1, ContinuationTypes DEF Retained, Dropped, Continue, Begin, CanCall
  <2>5. QED
    <3>1. /\ IsFiniteSet(made') /\ Cardinality(made') = Cardinality(made) + 1
          /\ Cardinality(Finds(made')) =
               Cardinality(Finds(made)) + (IF batch[i].tool = "find" THEN 1 ELSE 0)
          /\ Cardinality(made) \in Nat /\ Cardinality(Finds(made)) \in Nat
      BY <2>2, <2>3, MadeOne
    <3>2. Cardinality(made') <= MaxCalls
      BY <2>1, <3>1, LoopAssumption DEF Spent
    <3>3. again' <= Cardinality(Finds(made'))
      BY <2>4, <3>1 DEF Spent, TypeOK
    <3>4. QED
      BY <2>3, <2>4, <3>1, <3>2, <3>3 DEF Spent
<1>4. ASSUME NEW full \in Sizes, NEW bare \in Sizes, Continued(full, bare)
      PROVE  Spent'
  <2>1. place = "next" /\ place' = "call" /\ again' = again /\ cont.call \in Call
    BY <1>4 DEF Continued, Position
  <2>2. CASE cont.call \in made
    BY <1>4, <2>1, <2>2 DEF Continued, session, Spent
  <2>3. CASE cont.call \notin made
    <3>1. made' = made \cup {cont.call} /\ used' <= EvidenceCap
      BY <1>4, <2>3, StoredBounded DEF Continued, Add, Spent
    <3>2. QED
      <4>1. /\ IsFiniteSet(made') /\ Cardinality(made') = Cardinality(made) + 1
            /\ Cardinality(Finds(made')) =
                 Cardinality(Finds(made)) + (IF cont.call.tool = "find" THEN 1 ELSE 0)
            /\ Cardinality(made) \in Nat /\ Cardinality(Finds(made)) \in Nat
        BY <2>1, <2>3, <3>1, MadeOne
      <4>2. Cardinality(made') <= MaxCalls
        BY <2>1, <4>1, LoopAssumption DEF Spent
      <4>3. again' <= Cardinality(Finds(made'))
        BY <2>1, <4>1 DEF Spent, TypeOK
      <4>4. QED
        BY <2>1, <3>1, <4>1, <4>2, <4>3 DEF Spent
  <2>4. QED
    BY <2>2, <2>3
<1>5. QED
  BY Cases, <1>1, <1>2, <1>3, <1>4

LEMMA StepQuestions ==
  ASSUME TypeOK, Questions, [Next]_vars
  PROVE  Questions'
<1>1. CASE Ask \/ Conclude
  BY <1>1, Totals DEF Ask, Conclude, Return, Questions, TypeOK
<1>2. CASE NoReply \/ Concluded \/ Silence \/ Synthesized \/ Raise \/ \E b \in Batches : Called(b)
  BY <1>2, Totals
  DEF NoReply, Concluded, Silence, Synthesized, Raise, Called, Return, Questions, TypeOK
<1>3. CASE BatchDone \/ Look \/ Execute
  <2>1. llm' = llm /\ place \notin {"reply", "synth", "done"} /\ place' \notin {"reply", "synth"}
    BY <1>3 DEF Look, Execute, BatchDone, Skip, GiveUp, Stop, Unregistered, Read, Retained, Dropped,
                Continued, Continue, Current, Return
  <2>2. QED
    BY <2>1 DEF Questions
<1>4. CASE Cancel \/ TimePasses \/ UNCHANGED vars
  BY <1>4 DEF Cancel, TimePasses, vars, Questions
<1>5. QED
  BY <1>1, <1>2, <1>3, <1>4 DEF Next, Step, Model

LEMMA Within == Spec => [](Spent /\ Questions)
BY InitSpent, StepSpent, StepQuestions, Typed, PTL DEF Spec

\* No path through continuations, repetitions and failures spends more than
\* a budget, and the last question is left for the conclusion.
THEOREM BudgetsHold == Spec => []Budgets
<1>1. TypeOK /\ Spent /\ Questions => Budgets
  BY Totals DEF Spent, Questions, Budgets, TypeOK
<1>2. QED
  BY <1>1, Within, TypeCorrect, PTL

\* A READ is repeated by continuations only, at most once per discovery.
THEOREM RepeatsFew == Spec => []RepeatsBounded
BY Within, PTL DEF Spent, Finds, RepeatsBounded
-----------------------------------------------------------------------------
\* Fuel goes down when the place does, or when a question is spent.
LEMMA Burnt ==
  ASSUME NEW a \in Nat, NEW b \in Nat, NEW w \in Nat, NEW x \in Nat, NEW y \in Nat,
         (b = a /\ y < x) \/ (b = a - 1 /\ y < x + w)
  PROVE  b * w + y < a * w + x /\ b * w + y >= 0
<1>1. b * w \in Nat /\ a * w \in Nat
  OBVIOUS
<1>2. b = a - 1 => b * w = a * w - w
  OBVIOUS
<1>3. QED
  BY <1>1, <1>2

LEMMA FuelTypes ==
  ASSUME TypeOK, Budgets
  PROVE  Total - llm \in Nat /\ Round \in Nat /\ Here \in Nat /\ Left \in Nat /\ Left >= 5
<1>1. Total - llm \in Nat
  BY Totals DEF TypeOK, Budgets
<1>2. Round \in Nat /\ Left \in Nat /\ Left >= 5 /\ Left <= Round + 2
  BY LoopAssumption DEF Round, Left, TypeOK
<1>3. Here \in Nat
  BY <1>2 DEF Here, TypeOK, Places
<1>4. QED
  BY <1>1, <1>2, <1>3

\* A step that asks nothing goes on to a later place of the round.
LEMMA PlaceSinks ==
  ASSUME TypeOK, Position, Next, ~(Cancel \/ TimePasses), llm' = llm
  PROVE  Here' < Here
<1>1. MaxBatch \in Nat /\ i \in 1 .. MaxBatch + 1 /\ Len(batch) \in Nat /\ Len(batch) <= MaxBatch
  BY LoopAssumption DEF TypeOK
<1>2. CASE Ask \/ NoReply \/ Conclude \/ Synthesized
  BY <1>2 DEF Ask, NoReply, Conclude, Synthesized, Return, Here
<1>3. CASE GiveUp \/ Stop \/ Unregistered
  <2>1. place = "call" /\ place' \in {"done", "conclude"}
    BY <1>3 DEF GiveUp, Stop, Unregistered, Current, Return
  <2>2. QED
    BY <1>1, <2>1 DEF Here, Left
<1>4. CASE BatchDone
  BY <1>1, <1>4 DEF BatchDone, Here, Left
<1>5. CASE Skip
  BY <1>1, <1>5 DEF Skip, Here, Left
<1>6. CASE Read
  BY <1>1, <1>6 DEF Read, Current, Here, Left
<1>7. ASSUME NEW full \in Sizes, NEW bare \in Sizes, NEW found \in BOOLEAN,
             Retained(full, bare, found)
      PROVE  Here' < Here
  <2>1. place = "read" /\ ((place' = "next" /\ i' = i) \/ (place' = "call" /\ i' = i + 1))
    BY <1>7 DEF Retained, Continue
  <2>2. QED
    BY <1>1, <2>1 DEF Here, Left
<1>8. ASSUME NEW full \in Sizes, NEW bare \in Sizes, Dropped(full, bare)
      PROVE  Here' < Here
  BY <1>1, <1>8 DEF Dropped, Here, Left
<1>9. ASSUME NEW full \in Sizes, NEW bare \in Sizes, Continued(full, bare)
      PROVE  Here' < Here
  BY <1>1, <1>9 DEF Continued, Here, Left
<1>10. CASE Raise
  BY <1>1, <1>10 DEF Raise, Return, Here, Left
<1>11. CASE Concluded \/ Silence \/ \E b \in Batches : Called(b)
  <2>1. llm' = llm + 1 /\ llm \in Nat
    BY <1>11 DEF Concluded, Silence, Called, TypeOK
  <2>2. QED
    BY <2>1
<1>12. QED
  BY <1>2, <1>3, <1>4, <1>5, <1>6, <1>7, <1>8, <1>9, <1>10, <1>11
  DEF Next, Step, Model, Look, Execute

\* A question that is answered costs one of those left, and brings back less
\* than a round.
LEMMA QuestionSpends ==
  ASSUME TypeOK, Next, ~(Cancel \/ TimePasses), llm' # llm
  PROVE  llm' = llm + 1 /\ Here' < Here + Round
<1>1. CASE Concluded \/ Silence \/ \E b \in Batches : Called(b)
  <2>1. llm' = llm + 1 /\ place = "reply"
        /\ (place' \in {"done", "conclude"} \/ (place' = "call" /\ i' = 1))
    BY <1>1 DEF Concluded, Silence, Called, Return
  <2>2. QED
    BY <2>1, LoopAssumption DEF Here, Left, Round
<1>2. CASE Synthesized
  BY <1>2, LoopAssumption DEF Synthesized, Return, Here, Round
<1>3. CASE Ask \/ NoReply \/ Look \/ Execute \/ Conclude \/ Raise
  BY <1>3
  DEF Ask, NoReply, Look, BatchDone, Skip, GiveUp, Stop, Unregistered, Read, Execute, Retained,
      Dropped, Continued, Conclude, Raise
<1>4. QED
  BY <1>1, <1>2, <1>3 DEF Next, Step, Model

\* An investigation takes no more than Total * (3 * MaxBatch + 3) + 4 steps,
\* whatever the model asks for and the host answers: every step of the
\* thread leaves less of what there was at the start.
THEOREM RunsOut == Spec => StepsRunOut
<1> DEFINE Burn == IF Cancel \/ TimePasses THEN Fuel' = Fuel ELSE Fuel' < Fuel /\ Fuel' >= 0
<1>1. ASSUME TypeOK, Position, Budgets, TypeOK', Budgets', Next  PROVE Burn
  <2>1. CASE Cancel \/ TimePasses
    BY <2>1 DEF Cancel, TimePasses, Fuel, Here, Left
  <2>2. CASE ~(Cancel \/ TimePasses)
    <3>1. Total - llm \in Nat /\ Round \in Nat /\ Here \in Nat
      BY <1>1, FuelTypes
    <3>2. (Total - llm)' \in Nat /\ Here' \in Nat
      <4>1. (TypeOK /\ Budgets => Total - llm \in Nat /\ Here \in Nat)'
        BY FuelTypes, PTL
      <4>2. QED
        BY <1>1, <4>1
    <3>3. \/ (Total - llm)' = Total - llm /\ Here' < Here
          \/ (Total - llm)' = (Total - llm) - 1 /\ Here' < Here + Round
      <4>1. llm \in Nat /\ Total' = Total /\ Total \in Nat
        BY <1>1, Totals DEF TypeOK, Total
      <4>2. CASE llm' = llm
        BY <1>1, <2>2, <4>1, <4>2, PlaceSinks
      <4>3. CASE llm' # llm
        BY <1>1, <2>2, <4>1, <4>3, QuestionSpends
      <4>4. QED
        BY <4>2, <4>3
    <3>4. Fuel = (Total - llm) * Round + Here /\ Fuel' = (Total - llm)' * Round + Here'
      BY DEF Fuel, Round
    <3>5. QED
      BY <2>2, <3>1, <3>2, <3>3, <3>4, Burnt
  <2>3. QED
    BY <2>1, <2>2
<1>2. QED
  BY <1>1, Typed, BudgetsHold, PTL DEF Spec, StepsRunOut
=============================================================================
