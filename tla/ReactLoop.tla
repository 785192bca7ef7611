------------------------------ MODULE ReactLoop ------------------------------
(***************************************************************************)
(* ReactAgent and SimpleChatAgent over one short-term memory: the rounds   *)
(* of model and tool calls, the compression that precedes each model call, *)
(* and manage_context, by which the model keeps its own summary and says   *)
(* whether it is done.                                                     *)
(*                                                                         *)
(* Executions of one agent follow each other on the same memory; guidance  *)
(* arrives at any time, and an execution may be cancelled at every await.  *)
(***************************************************************************)
EXTENDS Naturals, Sequences, FiniteSets, Functions, Listings

CONSTANTS
    AgentKinds,     \* subset of {"chat", "basic", "smart", "managed"}
    MaxRounds,      \* max_tool_rounds
    MaxTasks,       \* bound: executions
    MaxGuidance,    \* bound: guidance items
    Sizes,          \* tokens a tool result may take; every other message takes 1
    Window,         \* tokens the compressor may keep
    MaxCalls        \* bound: tool calls of one answer

VARIABLES
    kind,           \* the agent; "managed": SmartContext with manage_context
    stm,            \* short-term memory: a sequence of messages
    queue,          \* guidance waiting, a number of items
    given,          \* guidance submitted so far
    phase,          \* where the execution is
    run,            \* its locals
    kept,           \* what the compressor keeps, computed before its await
    fresh           \* manage_context succeeded after the last other tools (history)

vars == <<kind, stm, queue, given, phase, run, kept, fresh>>

\* A message is of the round that wrote it; no is the number of calls it makes,
\* or the call it answers.
Message(is, of, no, size) == [is |-> is, of |-> of, no |-> no, size |-> size]
Note(is) == Message(is, <<0, 0>>, 0, 1)
Marks == {"core", "complete", "incomplete"}
Results == {"result", "unpaired"}   \* named by the id of its call, or by its tool
MessageKinds == {"task", "reply", "calls", "guidance", "summary"} \union Results \union Marks

IdleRun == [task |-> 0, round |-> 0, last |-> "none", repeated |-> 0, left |-> 0,
            managed |-> FALSE]

TypeOK ==
    /\ kind \in AgentKinds
    /\ \A m \in Range(stm \o kept) : m.is \in MessageKinds /\ m.size \in Sizes \union {1}
    /\ queue \in 0..MaxGuidance /\ given \in 0..MaxGuidance
    /\ phase \in {"idle", "round", "summarising", "model", "tools", "managing"}
    /\ run.task \in 0..MaxTasks /\ run.round \in 0..MaxRounds + 1
    /\ run.repeated \in 0..2 /\ run.left \in 0..MaxCalls
    /\ run.managed \in BOOLEAN /\ fresh \in BOOLEAN

Init ==
    /\ kind \in AgentKinds
    /\ stm = <<>> /\ queue = 0 /\ given = 0 /\ kept = <<>>
    /\ phase = "idle" /\ run = IdleRun /\ fresh = FALSE

-----------------------------------------------------------------------------
(* moving_compression.                                                       *)

\* As many as there are pairs of a message and one of its tokens.
Tokens(ms) == Cardinality(UNION {{i} \X (1..ms[i].size) : i \in DOMAIN ms})

\* _split_messages_by_token_share into two parts: the length of the first, which
\* is closed before the message that takes it past half of the tokens.
FirstChunk(ms) ==
    LET total == Tokens(ms)
        over == {i \in 2..Len(ms) : 2 * Tokens(SubSeq(ms, 1, i)) > total}
    IN  IF over = {} THEN Len(ms) ELSE (CHOOSE i \in over : \A j \in over : i <= j) - 1

\* Mutant of Dropped: one chunk is dropped and the rest not looked at.
DroppedOnce(ms) ==
    IF Tokens(ms) > Window /\ FirstChunk(ms) < Len(ms) THEN FirstChunk(ms) ELSE 0

\* The loop of _compute_prune_result: how many of the oldest messages go.
Dropped(ms) ==
    LET Drop[n \in 0..Len(ms)] ==
            LET rest == SubSeq(ms, n + 1, Len(ms))
            IN  IF rest = <<>> \/ Tokens(rest) <= Window \/ FirstChunk(rest) = Len(rest)
                THEN n ELSE Drop[n + FirstChunk(rest)]
    IN  Drop[0]

\* Mutant of Keep: the results of dropped calls stay.
KeepUnpaired(ms, n) == SubSeq(ms, n + 1, Len(ms))

\* Mutant of Keep: whichever calls are dropped, results go.
KeepNoResults(ms, n) ==
    Taken(ms, {i \in n + 1..Len(ms) : ~(ms[i].is = "result" /\ \E j \in 1..n : ms[j].is = "calls")})

\* _move_tool_results_whose_calls_are_dropped, when the first n messages are: a
\* result goes with its call when that has an id it is named by, and stays otherwise.
Keep(ms, n) ==
    LET gone == {ms[i].of : i \in {i \in 1..n : ms[i].is = "calls"}}
    IN  Taken(ms, {i \in n + 1..Len(ms) : ~(ms[i].is = "result" /\ ms[i].of \in gone)})

\* Context._drain_guidance.
Drained(ms, n) == ms \o [i \in 1..n |-> Note("guidance")]

-----------------------------------------------------------------------------
(* SmartContext: the messages manage_context keeps up to date.               *)

Holds(ms, is) == \E m \in Range(ms) : m.is = is

\* update_core: the one there is, or a new one at the end.
WithCore(ms) == IF Holds(ms, "core") THEN ms ELSE Append(ms, Note("core"))

\* update_task_complete, in place or at the end.
WithComplete(ms, value) ==
    LET now == IF value THEN "complete" ELSE "incomplete"
    IN  IF Holds(ms, "complete") \/ Holds(ms, "incomplete")
        THEN [i \in DOMAIN ms |-> IF ms[i].is \in {"complete", "incomplete"}
                                  THEN Note(now) ELSE ms[i]]
        ELSE Append(ms, Note(now))

\* order_messages_for_llm: what the model must see is put in front.
Only(ms, kinds) == Taken(ms, {i \in DOMAIN ms : ms[i].is \in kinds})
Ordered(ms) ==
    Only(ms, {"core"}) \o Only(ms, {"complete", "incomplete"}) \o Only(ms, {"task"})
    \o Only(ms, MessageKinds \ (Marks \union {"task"}))

-----------------------------------------------------------------------------
(* execute, one action from await to await.                                  *)

\* The task enters the memory; a smart context is assembled once ahead of the
\* rounds, a chat agent calls the model without compressing.
Execute ==
    /\ phase = "idle" /\ run.task < MaxTasks
    /\ LET drains == kind # "basic"
       IN  /\ stm' = Drained(Append(stm, Note("task")), IF drains THEN queue ELSE 0)
           /\ queue' = IF drains THEN 0 ELSE queue
    /\ phase' = IF kind = "chat" THEN "model" ELSE "round"
    /\ run' = [IdleRun EXCEPT !.task = run.task + 1, !.round = 1]
    /\ fresh' = FALSE
    /\ UNCHANGED <<kind, given, kept>>

\* assemble_for_model up to the summary: guidance first, then what to drop.
Assembling ==
    /\ \E all \in {Drained(stm, queue)} : \E n \in {Dropped(all)} :
          /\ stm' = all
          /\ kept' = Keep(all, n)
          /\ phase' = IF n > 0 THEN "summarising" ELSE "model"
    /\ queue' = 0
    /\ UNCHANGED <<kind, given, run, fresh>>

\* Mutant of Compress: one round more than there may be.
CompressOnceMore == phase = "round" /\ run.round <= MaxRounds + 1 /\ Assembling

\* A round begins.
Compress == phase = "round" /\ run.round <= MaxRounds /\ Assembling

\* The summary, which may be blank, and what was kept replace the memory;
\* assemble then drains once more.
Summarised ==
    /\ phase = "summarising"
    /\ \E summary \in {<<>>, <<Note("summary")>>} :
          stm' = Drained(summary \o kept, queue)
    /\ queue' = 0
    /\ phase' = "model"
    /\ UNCHANGED <<kind, given, run, kept, fresh>>

Ends == phase' = "idle" /\ run' = [IdleRun EXCEPT !.task = run.task]

\* The rounds are used up: an answer for the user only.
GivesUp ==
    /\ phase = "round" /\ run.round > MaxRounds
    /\ Ends
    /\ UNCHANGED <<kind, stm, queue, given, kept, fresh>>

\* SimpleChatAgent: one answer, whatever tool calls come with it.
Chats ==
    /\ phase = "model" /\ kind = "chat"
    /\ stm' = Append(stm, Note("reply")) /\ Ends
    /\ UNCHANGED <<kind, queue, given, kept, fresh>>

\* Mutant of AnswersText: text behind an incomplete task costs no round.
AnswersTextForFree ==
    /\ phase = "model" /\ kind # "chat"
    /\ IF kind = "managed" /\ ~Holds(stm, "complete")
       THEN phase' = "round" /\ UNCHANGED <<stm, run>>
       ELSE stm' = Append(stm, Note("reply")) /\ Ends
    /\ UNCHANGED <<kind, queue, given, kept, fresh>>

\* Text ends the execution; with manage_context only a task it called complete.
AnswersText ==
    /\ phase = "model" /\ kind # "chat"
    /\ IF kind = "managed" /\ ~Holds(stm, "complete")
       THEN /\ phase' = "round" /\ run' = [run EXCEPT !.round = @ + 1]
            /\ UNCHANGED stm
       ELSE /\ stm' = Append(stm, Note("reply")) /\ Ends
    /\ UNCHANGED <<kind, queue, given, kept, fresh>>

\* The basic loop stops at the third round of the same calls.
AnswersCalls ==
    /\ phase = "model" /\ kind \in {"basic", "smart"}
    /\ \E signature \in {"same", "other"}, n \in 1..MaxCalls :
        LET again == IF signature = "same" /\ run.last = "same" THEN run.repeated + 1 ELSE 1
        IN  IF kind = "basic" /\ again >= 3
            THEN stm' = Append(stm, Note("reply")) /\ Ends
            ELSE /\ stm' = Append(stm, Message("calls", <<run.task, run.round>>, n, 1))
                 /\ phase' = "tools"
                 /\ run' = [run EXCEPT !.left = n, !.last = signature,
                                       !.repeated = IF kind = "basic" THEN again ELSE 0]
    /\ UNCHANGED <<kind, queue, given, kept, fresh>>

\* Mutant of MayRunTools: any earlier success will do, another round's too.
MayRunToolsEver == kind = "managed" /\ Holds(stm, "core")

\* manage_context_has_run: the round before this one succeeded with it.
MayRunTools == kind = "managed" /\ run.managed

\* With manage_context mounted: its call excludes all others, and others are
\* passed over unless it ran just before.
AnswersManaged ==
    /\ phase = "model" /\ kind = "managed"
    /\ \/ phase' = "managing" /\ UNCHANGED <<stm, run>>
       \/ /\ ~MayRunTools
          /\ phase' = "round"
          /\ run' = [run EXCEPT !.round = @ + 1, !.managed = FALSE]
          /\ UNCHANGED stm
       \/ /\ MayRunTools
          /\ \E n \in 1..MaxCalls :
                /\ stm' = Append(stm, Message("calls", <<run.task, run.round>>, n, 1))
                /\ run' = [run EXCEPT !.left = n, !.managed = FALSE]
          /\ phase' = "tools"
    /\ UNCHANGED <<kind, queue, given, kept, fresh>>

\* ManageContextTool.execute: arguments it refuses change nothing; what it is
\* told to discard stays.
Managed ==
    /\ phase = "managing"
    /\ \/ /\ \E complete \in BOOLEAN : stm' = WithComplete(WithCore(stm), complete)
          /\ run' = [run EXCEPT !.round = @ + 1, !.managed = TRUE]
          /\ fresh' = TRUE
       \/ /\ run' = [run EXCEPT !.round = @ + 1, !.managed = FALSE]
          /\ UNCHANGED <<stm, fresh>>
    /\ phase' = "round"
    /\ UNCHANGED <<kind, queue, given, kept>>

\* The message of a result, good or bad; a call without an id has one named by its tool.
Result(is, size) == Message(is, <<run.task, run.round>>, run.left, size)

\* A tool has answered or raised: one result either way.
ToolAnswers ==
    /\ phase = "tools"
    /\ \E is \in Results, size \in Sizes : stm' = Append(stm, Result(is, size))
    /\ run' = [run EXCEPT !.left = @ - 1, !.round = IF run.left = 1 THEN @ + 1 ELSE @]
    /\ phase' = IF run.left = 1 THEN "round" ELSE "tools"
    /\ fresh' = (fresh /\ run.left > 1)
    /\ UNCHANGED <<kind, queue, given, kept>>

\* The model raises, the budget is spent, or the execution is cancelled.
Breaks ==
    /\ phase \notin {"idle", "round"}
    /\ Ends
    /\ UNCHANGED <<kind, stm, queue, given, kept, fresh>>

\* GuidanceQueue.submit.
Guide ==
    /\ given < MaxGuidance
    /\ given' = given + 1 /\ queue' = queue + 1
    /\ UNCHANGED <<kind, stm, phase, run, kept, fresh>>

Step == Compress \/ Summarised \/ GivesUp \/ Chats \/ AnswersText \/ AnswersCalls \/ AnswersManaged
        \/ Managed \/ ToolAnswers \/ Breaks

Next == Execute \/ Step \/ Guide

Spec == Init /\ [][Next]_vars

\* Models and tools answer or fail, and the event loop runs what is ready.
Fairness == WF_vars(Step)
FairSpec == Spec /\ Fairness

-----------------------------------------------------------------------------

\* What the model is called with.
Shown == IF kind \in {"smart", "managed"} THEN Ordered(stm) ELSE stm

\* In what a model is called with, every tool result that is named by its call
\* comes after that call, and every call of this execution that is still there
\* has its result behind it, whatever compressions and cancelled executions came
\* before; nothing that was kept is over the window unless one message is, and no
\* guidance is there twice for having been drained on both sides of the compression
\* (_compute_prune_result, _move_tool_results_whose_calls_are_dropped,
\* assemble_for_model, _drain_guidance).  A result named by its tool may have lost
\* its call to the compressor, which pairs by ids alone.
ModelSeesPairs ==
    phase = "model" =>
        LET shown == Shown
        IN  /\ \A i \in DOMAIN shown : shown[i].is = "result" =>
                  \E j \in 1..i - 1 : /\ shown[j].is = "calls" /\ shown[j].of = shown[i].of
                                      /\ shown[i].no <= shown[j].no
            /\ \A j \in DOMAIN shown : shown[j].is = "calls" /\ shown[j].of[1] = run.task =>
                  \A m \in 1..shown[j].no : \E i \in j + 1..Len(shown) :
                     shown[i].is \in Results /\ shown[i].of = shown[j].of /\ shown[i].no = m
            /\ Tokens(kept) <= Window \/ Len(kept) <= 1
            /\ queue + Cardinality({i \in DOMAIN shown : shown[i].is = "guidance"}) <= given

\* With manage_context mounted no other tool runs unless it has succeeded since
\* tools last ran in this execution (manage_context_has_run).
ToolsAfterManage == phase = "tools" /\ kind = "managed" => fresh

\* Every execution ends (max_tool_rounds).
Over == phase = "idle"
ExecutionEnds == []<>Over
=============================================================================
