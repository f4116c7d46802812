------------------------- MODULE InvestigationLoop -------------------------
(***************************************************************************)
(* agent/orchestrator.py, InvestigationAgent.investigate: one READ         *)
(* investigation, in a thread of its own.  The model is asked, and answers *)
(* with function calls or a conclusion; each call reads the host; the last *)
(* question to the model is kept for a conclusion from what was read.      *)
(* Meanwhile the token of the job may be cancelled and the time run out.   *)
(*                                                                         *)
(* A call is a record of what its arguments decide.  Two calls with equal  *)
(* records are the same text to InvestigationSession.call_key; `form`      *)
(* tells apart calls that read the same and are written differently.       *)
(***************************************************************************)
EXTENDS Naturals, Sequences, FiniteSets

CONSTANTS Names,         \* executables
          Argvs,         \* argument lists that are not empty
          ReadOnly,      \* those that validate_read_argv lets pass
          Asked,         \* the calls the model chooses from
          MaxBatch,      \* calls in one answer of the model: a bound
          MaxCalls,      \* settings.max_tool_calls
          MaxSteps,      \* settings.max_agent_steps
          MaxLlm,        \* settings.max_llm_calls
          EvidenceCap,   \* max_total_evidence_chars
          Sizes,         \* of evidence records
          None           \* an argument that is not given

\* "find" is query_executable, "run" run_readonly_argv, "read" any other
\* registered READ, "bad" one whose arguments its model rejects.
Call == [tool : {"find", "run", "read", "bad", "unknown"},
         exe  : Names \cup {None},
         path : BOOLEAN,             \* the executable is an absolute path
         argv : Argvs \cup {None},
         form : {"full", "brief", "code"}]

ASSUME LoopAssumption ==
  /\ ReadOnly \subseteq Argvs
  /\ Asked \subseteq Call
  /\ \A c \in Asked : c.tool \in {"find", "run"} => c.exe \in Names
  /\ MaxBatch \in Nat /\ MaxCalls \in Nat /\ MaxSteps \in Nat /\ MaxLlm \in Nat
  /\ EvidenceCap \in Nat /\ Sizes \subseteq Nat \ {0}
  /\ None \notin Names /\ None \notin Argvs

VARIABLES
  place,      \* where the thread is
  llm,        \* questions answered by the model (llm_calls, session.round)
  batch, i,   \* response.function_calls and the index of the current one
  carried,    \* continued_call_ids, as indices
  cont,       \* the READ a discovery is continued with, and for which call
  made,       \* session.tool_calls
  recent,     \* per executable the last of session.selected_calls that ran it
  used,       \* session.evidence_chars
  told,       \* what the replayed inputs say of each call of the batch
  late,       \* agent_wall_time_seconds have passed
  cancelled,  \* where the thread was when the token was cancelled, or "no"
  outcome,    \* the stop_reason of the result
  \* facts no code reads
  ran,        \* how each call of the batch has been executed
  again,      \* executions of a READ that had been made
  since       \* executions begun after the cancellation

session == <<made, recent, used>>
calls   == <<batch, carried, told, ran>>
vars    == <<place, llm, i, cont, late, cancelled, outcome, again, since, session, calls>>

Reasons  == {"ANSWERABLE", "BOUND_REACHED", "TOOL_UNAVAILABLE", "NO_NEW_EVIDENCE",
             "CAPABILITY_GAP", "ERROR", "CANCELLED"}
Places   == {"ask", "reply", "call", "read", "next", "conclude", "synth", "done"}
Indices  == 1 .. MaxBatch
Batches  == UNION {[1 .. n -> Asked] : n \in Indices}
Nothing  == [call |-> None, for |-> 0]

Total    == IF MaxSteps < MaxLlm THEN MaxSteps ELSE MaxLlm
Planning == IF Total = 0 THEN 0 ELSE Total - 1

\* seeded fault: the bound is found exceeded one call too late
CanCallOnceMore(n) == n <= MaxCalls /\ llm < Total

\* InvestigationSession.can_call, of a session that has made so many calls.
CanCall(n) == n < MaxCalls /\ llm < Total

\* InvestigationSession.add keeps a record as it is, or without its facts;
\* if neither fits it keeps nothing.
Kept(full, bare) == {s \in {full, bare} : s <= EvidenceCap - used}
Fits(full, bare) == Kept(full, bare) # {}
Stored(full, bare) ==
  IF full \in Kept(full, bare) THEN used + full
  ELSE IF bare \in Kept(full, bare) THEN used + bare ELSE used
Noted(c) == IF c.tool = "run" /\ c.argv # None THEN [recent EXCEPT ![c.exe] = c] ELSE recent
Add(c, full, bare) ==
  /\ made' = made \cup {c}
  /\ recent' = Noted(c)
  /\ used' = Stored(full, bare)

Tell(j, what)   == [told EXCEPT ![j] = @ \cup {what}]
\* _append_unexecuted_results for calls[j:]
TellRest(t, j)  == [k \in Indices |-> IF k \in j .. Len(batch) THEN t[k] \cup {"unexecuted"}
                                      ELSE t[k]]
\* functions.execute is called with c, for the call of that index if any.
Begin(c, j, how) ==
  /\ ran' = IF j = 0 THEN ran ELSE [ran EXCEPT ![j] = @ \cup {how}]
  /\ again' = IF c \in made THEN again + 1 ELSE again
  /\ since' = IF cancelled = "no" THEN since ELSE since + 1
Return(reason)  == place' = "done" /\ outcome' = reason
-----------------------------------------------------------------------------
Init ==
  /\ place = "ask" /\ llm = 0
  /\ batch = <<>> /\ i = 1 /\ carried = {} /\ cont = Nothing
  /\ made = {} /\ recent = [e \in Names |-> None] /\ used = 0
  /\ told = [j \in Indices |-> {}] /\ ran = [j \in Indices |-> {}]
  /\ late = FALSE /\ cancelled = "no" /\ outcome = "none"
  /\ again = 0 /\ since = 0

\* The head of the loop: ask the model, give up, or conclude.
Ask ==
  /\ place = "ask"
  /\ IF llm < Planning /\ ~late
     THEN IF cancelled # "no" THEN Return("CANCELLED")
          ELSE place' = "reply" /\ UNCHANGED outcome
     ELSE place' = "conclude" /\ UNCHANGED outcome
  /\ UNCHANGED <<llm, i, cont, late, cancelled, again, since, session, calls>>

\* The model does not answer, concludes (the text may be no valid result),
\* says nothing, or calls functions.
NoReply ==
  /\ place = "reply"
  /\ Return("ERROR")
  /\ UNCHANGED <<llm, i, cont, late, cancelled, again, since, session, calls>>
Concluded ==
  /\ place = "reply"
  /\ llm' = llm + 1
  /\ \E reason \in Reasons : Return(reason)
  /\ UNCHANGED <<i, cont, late, cancelled, again, since, session, calls>>
\* seeded fault: an empty answer is asked for again and not counted
SilenceRetried ==
  /\ place = "reply" /\ place' = "ask"
  /\ UNCHANGED <<llm, i, cont, late, cancelled, outcome, again, since, session, calls>>

Silence ==
  /\ place = "reply"
  /\ llm' = llm + 1 /\ place' = "conclude"
  /\ UNCHANGED <<i, cont, late, cancelled, outcome, again, since, session, calls>>
Called(b) ==
  /\ place = "reply"
  /\ llm' = llm + 1 /\ place' = "call"
  /\ batch' = b /\ i' = 1 /\ carried' = {} /\ cont' = Nothing
  /\ told' = [j \in Indices |-> {}] /\ ran' = [j \in Indices |-> {}]
  /\ UNCHANGED <<late, cancelled, outcome, again, since, session>>
-----------------------------------------------------------------------------
\* The next call of the batch: none left, carried through discovery before,
\* or to be looked at.
Current == place = "call" /\ i <= Len(batch) /\ i \notin carried

BatchDone ==
  /\ place = "call" /\ i > Len(batch)
  /\ place' = "ask"
  /\ UNCHANGED <<llm, i, cont, late, cancelled, outcome, again, since, session, calls>>
Skip ==
  /\ place = "call" /\ i <= Len(batch) /\ i \in carried
  /\ i' = i + 1
  /\ UNCHANGED <<place, llm, cont, late, cancelled, outcome, again, since, session, calls>>

\* Cancelled; a bound or a repetition, which ends the READs; a tool nobody
\* registered; or a READ.
GiveUp ==
  /\ Current /\ cancelled # "no"
  /\ Return("CANCELLED")
  /\ UNCHANGED <<llm, i, cont, late, cancelled, again, since, session, calls>>
Stop ==
  /\ Current /\ cancelled = "no"
  /\ ~CanCall(Cardinality(made)) \/ batch[i] \in made
  /\ told' = TellRest(told, i)
  /\ place' = "conclude"
  /\ UNCHANGED <<llm, i, cont, late, cancelled, outcome, again, since, session, batch, carried,
                 ran>>
Unregistered ==
  /\ Current /\ cancelled = "no"
  /\ CanCall(Cardinality(made)) /\ batch[i].tool = "unknown"
  /\ Return("ERROR")
  /\ UNCHANGED <<llm, i, cont, late, cancelled, again, since, session, calls>>

\* seeded faults: the cancellation, or the repetition, is not looked for
ReadWhenCancelled ==
  /\ Current
  /\ CanCall(Cardinality(made)) /\ batch[i].tool # "unknown" /\ batch[i] \notin made
  /\ Begin(batch[i], i, "itself")
  /\ place' = "read"
  /\ UNCHANGED <<llm, i, cont, late, cancelled, outcome, session, batch, carried, told>>
ReadOnceMore ==
  /\ Current /\ cancelled = "no"
  /\ CanCall(Cardinality(made)) /\ batch[i].tool # "unknown"
  /\ Begin(batch[i], i, "itself")
  /\ place' = "read"
  /\ UNCHANGED <<llm, i, cont, late, cancelled, outcome, session, batch, carried, told>>

Read ==
  /\ Current /\ cancelled = "no"
  /\ CanCall(Cardinality(made)) /\ batch[i].tool # "unknown" /\ batch[i] \notin made
  /\ Begin(batch[i], i, "itself")
  /\ place' = "read"
  /\ UNCHANGED <<llm, i, cont, late, cancelled, outcome, session, batch, carried, told>>

\* _discovery_continuation: how a READ of the batch or of an earlier one, or
\* the arguments that came with the discovery, go on with the path it found.
Pending(e) == {j \in Indices : /\ j > i /\ j <= Len(batch)
                               /\ batch[j].tool = "run" /\ batch[j].exe = e
                               /\ batch[j].argv # None}
OnPath(e, argv, form) ==
  [tool |-> "run", exe |-> e, path |-> TRUE, argv |-> argv,
   form |-> IF form = "code" THEN "code" ELSE "full"]
Selected(c) ==
  IF c.tool # "find" THEN {}
  ELSE IF c.argv # None THEN {[call |-> OnPath(c.exe, c.argv, "code"), for |-> 0]}
  ELSE IF Pending(c.exe) # {}
       THEN {[call |-> OnPath(c.exe, batch[j].argv, batch[j].form), for |-> j] :
                j \in {k \in Pending(c.exe) : \A l \in Pending(c.exe) : k <= l}}
  ELSE IF recent[c.exe] # None
       THEN {[call |-> OnPath(c.exe, recent[c.exe].argv, recent[c.exe].form), for |-> 0]}
  ELSE {}
Continuation(c) == {s \in Selected(c) : s.call.argv \in ReadOnly}

\* seeded fault: the planned call counts as answered only if its result fits
CarriedWhenKept(s) ==
  /\ place' = "next" /\ cont' = s
  /\ carried' = carried
  /\ Begin(s.call, s.for, "carried")
  /\ UNCHANGED i

\* The READ answers; what it said goes into the inputs or is dropped, which
\* ends the READs; a discovery that found a path goes on at once.
Continue(s) ==
  /\ place' = "next" /\ cont' = s
  /\ carried' = IF s.for = 0 THEN carried ELSE carried \cup {s.for}
  /\ Begin(s.call, s.for, "carried")
  /\ UNCHANGED i
Retained(full, bare, found) ==
  /\ place = "read" /\ Fits(full, bare)
  /\ Add(batch[i], full, bare)
  /\ told' = Tell(i, "result")
  /\ IF found /\ CanCall(Cardinality(made')) /\ Continuation(batch[i]) # {}
     THEN \E s \in Continuation(batch[i]) : Continue(s)
     ELSE place' = "call" /\ i' = i + 1 /\ UNCHANGED <<cont, carried, ran, again, since>>
  /\ UNCHANGED <<llm, late, cancelled, outcome, batch>>
\* seeded fault: the rest begins with the call that was executed
DroppedAsUnexecuted(full, bare) ==
  /\ place = "read" /\ ~Fits(full, bare)
  /\ Add(batch[i], full, bare)
  /\ told' = TellRest(told, i)
  /\ place' = "conclude"
  /\ UNCHANGED <<llm, i, cont, late, cancelled, outcome, again, since, batch, carried, ran>>

Dropped(full, bare) ==
  /\ place = "read" /\ ~Fits(full, bare)
  /\ Add(batch[i], full, bare)
  /\ told' = TellRest(Tell(i, "dropped"), i + 1)
  /\ place' = "conclude"
  /\ UNCHANGED <<llm, i, cont, late, cancelled, outcome, again, since, batch, carried, ran>>

\* seeded fault: a continuation that is not kept is passed over in silence
ContinuedSilently(full, bare) ==
  /\ place = "next"
  /\ LET new == cont.call \notin made IN
       /\ IF new THEN Add(cont.call, full, bare) ELSE UNCHANGED session
       /\ told' = IF new /\ Fits(full, bare) /\ cont.for # 0 THEN Tell(cont.for, "result")
                  ELSE told
  /\ place' = "call" /\ i' = i + 1
  /\ UNCHANGED <<llm, cont, late, cancelled, outcome, again, since, batch, carried, ran>>

\* The continuation answers: it may have been made before, or not be kept.
Continued(full, bare) ==
  /\ place = "next"
  /\ LET new  == cont.call \notin made
         kept == new /\ Fits(full, bare) IN
       /\ IF new THEN Add(cont.call, full, bare) ELSE UNCHANGED session
       /\ told' = IF cont.for = 0 THEN told
                  ELSE Tell(cont.for, IF kept THEN "result" ELSE "dropped")
  /\ place' = "call" /\ i' = i + 1
  /\ UNCHANGED <<llm, cont, late, cancelled, outcome, again, since, batch, carried, ran>>
-----------------------------------------------------------------------------
\* seeded fault: the token is looked at within the loop only
ConcludeAnyway ==
  /\ place = "conclude"
  /\ IF Total <= llm \/ late THEN Return("BOUND_REACHED")
     ELSE place' = "synth" /\ UNCHANGED outcome
  /\ UNCHANGED <<llm, i, cont, late, cancelled, again, since, session, calls>>

\* After the loop; the question that was kept is asked without tools.
Conclude ==
  /\ place = "conclude"
  /\ IF cancelled # "no" THEN Return("CANCELLED")
     ELSE IF Total <= llm \/ late THEN Return("BOUND_REACHED")
     ELSE place' = "synth" /\ UNCHANGED outcome
  /\ UNCHANGED <<llm, i, cont, late, cancelled, again, since, session, calls>>

\* _synthesize_from_evidence: no answer, nothing usable, or a conclusion, of
\* which a bound is not a reason.
Synthesized ==
  /\ place = "synth"
  /\ \/ Return("ERROR") /\ UNCHANGED llm
     \/ \E reason \in Reasons \ {"NO_NEW_EVIDENCE"} : Return(reason) /\ llm' = llm + 1
  /\ UNCHANGED <<i, cont, late, cancelled, again, since, session, calls>>

\* What the loop does not catch: a busy database, an executor that raises.
Raise ==
  /\ place \in {"reply", "read", "next", "synth"}
  /\ Return("RAISED")
  /\ UNCHANGED <<llm, i, cont, late, cancelled, again, since, session, calls>>

Cancel ==
  /\ place # "done" /\ cancelled = "no"
  /\ cancelled' = place
  /\ UNCHANGED <<place, llm, i, cont, late, outcome, again, since, session, calls>>
TimePasses ==
  /\ place # "done" /\ ~late
  /\ late' = TRUE
  /\ UNCHANGED <<place, llm, i, cont, cancelled, outcome, again, since, session, calls>>

Model   == NoReply \/ Concluded \/ Silence \/ \E b \in Batches : Called(b)
Look    == BatchDone \/ Skip \/ GiveUp \/ Stop \/ Unregistered \/ Read
Execute == \E full \in Sizes, bare \in Sizes :
             \/ \E found \in BOOLEAN : Retained(full, bare, found)
             \/ Dropped(full, bare)
             \/ Continued(full, bare)
Step    == Ask \/ Model \/ Look \/ Execute \/ Conclude \/ Synthesized \/ Raise
Next    == Step \/ Cancel \/ TimePasses

Spec     == Init /\ [][Next]_vars
\* The thread runs, and the model and the executor have timeouts.
FairSpec == Spec /\ WF_vars(Step)
-----------------------------------------------------------------------------
TypeOK ==
  /\ place \in Places /\ llm \in Nat
  /\ batch \in Seq(Asked) /\ Len(batch) <= MaxBatch /\ i \in 1 .. MaxBatch + 1
  /\ carried \subseteq Indices
  /\ cont \in [call : Call \cup {None}, for : 0 .. MaxBatch]
  /\ made \subseteq Call /\ recent \in [Names -> Call \cup {None}] /\ used \in Nat
  /\ told \in [Indices -> SUBSET {"result", "dropped", "unexecuted"}]
  /\ ran \in [Indices -> SUBSET {"itself", "carried"}]
  /\ late \in BOOLEAN /\ cancelled \in {"no"} \cup (Places \ {"done"})
  /\ outcome \in Reasons \cup {"none", "RAISED"}
  /\ again \in Nat /\ since \in Nat
  /\ (place = "done") <=> (outcome # "none")

\* The budgets: calls, questions and evidence never exceed their bounds, by
\* no path through continuations, and one question is left for the
\* conclusion whenever the READs have stopped.
Budgets ==
  /\ Cardinality(made) <= MaxCalls
  /\ llm <= Total /\ used <= EvidenceCap
  /\ place \in {"conclude", "synth"} /\ Total > 0 => llm < Total

\* The replay protocol: when the model is asked again, every function call
\* of its last answer has a result in the inputs, also the calls passed over
\* because of a bound, a repetition, a cancellation or a continuation.
CallsAnswered ==
  place \in {"ask", "reply", "conclude", "synth"} => \A j \in 1 .. Len(batch) : told[j] # {}

\* What the inputs say of a call is true: a result, kept or not, is of a READ
\* that was executed, and a call that was executed is called unexecuted only
\* after a continuation answered it.
AnswersTrue ==
  \A j \in Indices :
    /\ told[j] \cap {"result", "dropped"} # {} => ran[j] # {}
    /\ "unexecuted" \in told[j] /\ ran[j] # {} => j \in carried

\* "so an evidence-bound result cannot cause the unresolved-name form to run
\* a second time": a call carried through discovery never runs as written.
CarriedNotRerun == \A j \in Indices : ran[j] # {"itself", "carried"}

\* A READ that was made is executed again only by the continuation of a
\* discovery, and by no more continuations than discoveries were made.
RepeatsBounded == again <= Cardinality({c \in made : c.tool = "find"})

\* After the cancellation no READ begins, save the continuation of a
\* discovery that was under way.
CancelStopsReads == since <= (IF cancelled = "read" THEN 1 ELSE 0)

\* A cancellation that comes while the host is read, or before the model is
\* asked, is the outcome, whatever the READ said.
CancelWins ==
  place = "done" /\ cancelled \in {"ask", "call", "read", "next", "conclude"}
    => outcome \in {"CANCELLED", "RAISED"}

\* How many steps the thread can still take, at most: by the questions that
\* are left, each of which may bring a batch with three steps for each call,
\* and by the place within the round.
Round == 3 * MaxBatch + 3
Left  == 5 + 3 * (MaxBatch + 1 - i)
Here  == CASE place = "done" -> 0
           [] place = "synth" -> 1
           [] place = "conclude" -> 2
           [] place = "reply" -> 3
           [] place = "ask" -> 4
           [] place = "call" -> Left
           [] place = "read" -> Left - 1
           [] place = "next" -> Left - 2
Fuel  == (Total - llm) * Round + Here

\* investigate()'s loop runs out by itself: whatever the model answers, each
\* step of the thread leaves fewer to come, on every path through batches,
\* continuations, bounds and the conclusion; a cancellation or the deadline
\* adds none.
StepsRunOut == [][IF Cancel \/ TimePasses THEN Fuel' = Fuel ELSE Fuel' < Fuel /\ Fuel' >= 0]_vars

\* The investigation ends.
Ends == <>(place = "done")
=============================================================================
