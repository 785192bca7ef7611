------------------------------- MODULE DareLoops -------------------------------
(***************************************************************************)
(* The five loops of DareAgent.execute(): session, milestone, plan,        *)
(* execute (model-driven or step-driven) and tool, over the short-term     *)
(* memory (STM) they share, with the snapshot that isolates an attempt,    *)
(* the tool budget, the control signal and the user's guidance.            *)
(*                                                                         *)
(* The loops are one task: "at" says where it is, and a step is what it    *)
(* does between two awaits.  Around it other tasks send guidance, set or   *)
(* clear the signal, and cancel it.  Plans, answers, verdicts and failures *)
(* of the planner, the model, the validator, the tools and the hooks are   *)
(* free choices.                                                           *)
(***************************************************************************)
EXTENDS Naturals, Sequences, FiniteSets

CONSTANTS
    HasPlanner, HasValidator,
    StepDriven,     \* execution_mode
    Milestones,     \* milestones of a task
    MaxAttempts,    \* _max_milestone_attempts
    MaxPlans,       \* _max_plan_attempts
    MaxIterations,  \* _max_tool_iterations
    MaxTries,       \* max_calls of a tool loop with a done predicate
    ToolLimit,      \* Budget.max_tool_calls of the context
    MaxCalls,       \* bound: tool calls in a response, steps in a plan
    QueueSize,      \* GuidanceQueue._max_size
    MaxRuns,        \* bound: calls of execute()
    MaxGuides       \* bound: guidance messages

VARIABLES
    at,         \* where the task is
    pos,        \* the loop counters
    plan,       \* what the plan loop returned
    result,     \* how the last execute() ended
    runs,
    stm,        \* the messages of short-term memory
    snapshot,   \* the copy the sandbox took for the current attempt
    fate,       \* what became of each milestone attempt (history)
    notes,      \* MilestoneState: reflections and evidence, by attempt
    used,       \* Budget.used_tool_calls
    signal,     \* a pause, cancel or approval request is set
    queue,      \* GuidanceQueue._items
    guided,     \* guidance messages accepted so far
    late,       \* model calls begun under the signal (history)
    trail       \* of this run: the attempts before it, the announced and the
                \* reported invocations; of all runs: invocations that reached
                \* the tool (history)

memory  == <<stm, snapshot, fate>>
outside == <<signal, queue, guided>>
vars    == <<at, pos, plan, result, runs, memory, notes, used, outside, late, trail>>

ASSUME ModeAssumption ==
    /\ HasPlanner \in BOOLEAN /\ HasValidator \in BOOLEAN /\ StepDriven \in BOOLEAN
    /\ StepDriven => HasPlanner /\ HasValidator
ASSUME BoundAssumption ==
    /\ {MaxAttempts, MaxPlans, MaxIterations, MaxTries} \subseteq Nat
    /\ {Milestones, ToolLimit, MaxCalls, QueueSize, MaxRuns, MaxGuides} \subseteq Nat

Phases == {"idle", "begin", "session", "attempt", "plan", "proposed", "policy",
           "execute", "model", "asked", "generating", "calls", "steps", "tool",
           "gate", "invoke", "acted", "verify", "remediate", "closing"}
Plans  == {"none", "unchecked", "valid", "invalid"}
Fates  == {"open", "kept", "dropped", "aborted"}
Senders == {"user", "guidance", "calls", "result", "answer"}

\* "of" is the run of a user message, the number of a guidance message, and
\* the milestone attempt of the others; "calls" are the tool calls it asks for.
Messages == [what: Senders, of: Nat, calls: Nat]

Counters == [milestone: Nat, attempt: Nat, plan: Nat, iteration: Nat,
             todo: Nat, try: Nat]

TypeOK ==
    /\ at \in Phases /\ pos \in Counters /\ plan \in Plans
    /\ result \in {"none", "success", "failure", "raised"} /\ runs \in Nat
    /\ stm \in Seq(Messages) /\ snapshot \in Seq(Messages) /\ fate \in Seq(Fates)
    /\ notes \in [reflections: SUBSET Nat, evidence: SUBSET Nat]
    /\ used \in Nat /\ signal \in BOOLEAN
    /\ queue \in Seq(Nat) /\ guided \in Nat /\ late \in Nat
    /\ trail \in [first: Nat, announced: Nat, reported: Nat, effects: Nat]

Init ==
    /\ at = "idle" /\ plan = "none" /\ result = "none" /\ runs = 0
    /\ pos = [milestone |-> 0, attempt |-> 0, plan |-> 0, iteration |-> 0,
              todo |-> 0, try |-> 0]
    /\ stm = <<>> /\ snapshot = <<>> /\ fate = <<>>
    /\ notes = [reflections |-> {}, evidence |-> {}]
    /\ used = 0 /\ signal = FALSE /\ queue = <<>> /\ guided = 0 /\ late = 0
    /\ trail = [first |-> 0, announced |-> 0, reported |-> 0, effects |-> 0]

-----------------------------------------------------------------------------
(* Short-term memory, the sandbox and the guidance queue.                    *)

Now == Len(fate)
Open == fate # <<>> /\ fate[Now] = "open"

Message(sender, of, n) == [what |-> sender, of |-> of, calls |-> n]

\* Mutant of Add: the message is written down for the next attempt.
AddUntyped(sender, n) == stm' = Append(stm, [what |-> sender, of |-> Now])

Add(sender, n) == stm' = Append(stm, Message(sender, Now, n))

\* Mutant of CreateSnapshot: the first snapshot is taken again and again.
SnapshotOfRun ==
    /\ snapshot' = IF snapshot = <<>> THEN stm ELSE snapshot
    /\ fate' = Append(fate, "open")

CreateSnapshot == snapshot' = stm /\ fate' = Append(fate, "open")
Commit   == fate' = [fate EXCEPT ![Now] = "kept"] /\ UNCHANGED <<stm, snapshot>>

\* Mutant of Rollback: the snapshot is deleted, the memory stays.
RollbackForgets ==
    /\ fate' = [fate EXCEPT ![Now] = "dropped"]
    /\ UNCHANGED <<stm, snapshot>>

Rollback ==
    /\ stm' = snapshot
    /\ fate' = [fate EXCEPT ![Now] = "dropped"]
    /\ UNCHANGED snapshot

\* Mutant of Assemble: the queue is read but not cleared.
AssemblePeeks ==
    /\ stm' = stm \o [i \in 1 .. Len(queue) |-> Message("guidance", queue[i], 0)]
    /\ UNCHANGED <<snapshot, fate, signal, queue, guided>>

\* Context.assemble() moves all pending guidance into the STM.
Assemble ==
    /\ stm' = stm \o [i \in 1 .. Len(queue) |-> Message("guidance", queue[i], 0)]
    /\ queue' = <<>>
    /\ UNCHANGED <<snapshot, fate, signal, guided>>

-----------------------------------------------------------------------------
(* Budget and signal.                                                        *)

\* Mutant of CheckDue: no check where the tool loop goes round.
CheckOutsideTools ==
    \/ at = "session" /\ pos.milestone < Milestones
    \/ at = "attempt" /\ pos.attempt < MaxAttempts
    \/ at = "plan" /\ HasPlanner /\ pos.plan = 0
    \/ at = "execute" /\ ~StepDriven
    \/ at = "model" /\ pos.iteration < MaxIterations
    \/ at = "steps" /\ pos.todo > 0

\* The budget is checked where a loop begins another round ...
CheckDue ==
    \/ at = "session" /\ pos.milestone < Milestones
    \/ at = "attempt" /\ pos.attempt < MaxAttempts
    \/ at = "plan" /\ HasPlanner /\ pos.plan = 0
    \/ at = "execute" /\ ~StepDriven
    \/ at = "model" /\ pos.iteration < MaxIterations
    \/ at = "steps" /\ pos.todo > 0
    \/ at = "tool"

\* Mutant of PollDue: the signal is polled once per milestone.
PollPerMilestone == CheckDue /\ at = "session"

\* ... and in some of these places the signal is polled as well.
PollDue == CheckDue /\ at \in {"session", "model", "steps"}

Overspent == used > ToolLimit
Refused == (CheckDue /\ Overspent) \/ (PollDue /\ signal)

\* An exception leaves all five loops; nothing is rolled back on the way.
Unwind ==
    /\ at' = "idle" /\ result' = "raised"
    /\ fate' = IF Open THEN [fate EXCEPT ![Now] = "aborted"] ELSE fate
    /\ UNCHANGED <<pos, plan, runs, stm, snapshot, notes, used, outside, late, trail>>

Refuse == Refused /\ Unwind

\* The task is cancelled, or the planner, the model, the validator, the
\* remediator, the event log or another budget raises.
Raise == at # "idle" /\ Unwind

-----------------------------------------------------------------------------
(* Session and milestone loops.                                              *)

Execute ==
    /\ at = "idle" /\ runs < MaxRuns
    /\ at' = "begin" /\ runs' = runs + 1 /\ result' = "none"
    /\ pos' = [pos EXCEPT !.milestone = 0]
    /\ notes' = [reflections |-> {}, evidence |-> {}]
    /\ trail' = [trail EXCEPT !.first = Now, !.announced = 0, !.reported = 0]
    /\ UNCHANGED <<plan, memory, used, outside, late>>

OpenSession ==
    /\ at = "begin" /\ at' = "session"
    /\ stm' = Append(stm, Message("user", runs, 0))
    /\ UNCHANGED <<pos, plan, result, runs, snapshot, fate, notes, used, outside,
                   late, trail>>

EnterMilestone ==
    /\ at = "session" /\ pos.milestone < Milestones /\ ~Refused
    /\ at' = "attempt" /\ pos' = [pos EXCEPT !.attempt = 0]
    /\ notes' = [reflections |-> {}, evidence |-> {}]
    /\ UNCHANGED <<plan, result, runs, memory, used, outside, late, trail>>

CloseSession ==
    /\ at = "closing" \/ (at = "session" /\ pos.milestone = Milestones)
    /\ at' = "idle"
    /\ result' = IF at = "session" THEN "success" ELSE "failure"
    /\ UNCHANGED <<pos, plan, runs, memory, notes, used, outside, late, trail>>

BeginAttempt ==
    /\ at = "attempt" /\ pos.attempt < MaxAttempts /\ ~Refused
    /\ at' = "plan" /\ plan' = "none" /\ CreateSnapshot
    /\ pos' = [pos EXCEPT !.attempt = @ + 1, !.plan = 0, !.todo = 0]
    /\ UNCHANGED <<result, runs, stm, notes, used, outside, late, trail>>

\* Mutant of GiveUp: the session goes on to the next milestone.
GiveUpGoesOn ==
    /\ at = "attempt" /\ pos.attempt = MaxAttempts
    /\ at' = "session" /\ pos' = [pos EXCEPT !.milestone = @ + 1]
    /\ UNCHANGED <<plan, result, runs, memory, notes, used, outside, late, trail>>

GiveUp ==
    /\ at = "attempt" /\ pos.attempt = MaxAttempts
    /\ at' = "closing"
    /\ UNCHANGED <<pos, plan, result, runs, memory, notes, used, outside, late, trail>>

\* check_policy() of the plan: a denial, an approval it would need or an error
\* fails the milestone without another attempt.
DenyPlan ==
    /\ at = "policy" /\ at' = "closing" /\ Rollback
    /\ UNCHANGED <<pos, plan, result, runs, notes, used, outside, late, trail>>

AllowPlan ==
    /\ at = "policy" /\ at' = "execute"
    /\ UNCHANGED <<pos, plan, result, runs, memory, notes, used, outside, late, trail>>

\* A plan tool ends the attempt without verification.
Replan ==
    /\ at \in {"calls", "steps"} /\ pos.todo > 0 /\ ~Refused
    /\ at' = "attempt" /\ Rollback
    /\ notes' = [notes EXCEPT !.reflections = @ \cup {Now}]
    /\ UNCHANGED <<pos, plan, result, runs, used, outside, late, trail>>

VerifySucceeds ==
    /\ at = "verify"
    /\ at' = "session" /\ Commit
    /\ pos' = [pos EXCEPT !.milestone = @ + 1]
    /\ UNCHANGED <<plan, result, runs, notes, used, outside, late, trail>>

\* The validator or a hook says no; without a validator all is well.
VerifyFails ==
    /\ at = "verify" /\ HasValidator
    /\ at' = "remediate" /\ Rollback
    /\ UNCHANGED <<pos, plan, result, runs, notes, used, outside, late, trail>>

Remediate ==
    /\ at = "remediate" /\ at' = "attempt"
    /\ \/ notes' = [notes EXCEPT !.reflections = @ \cup {Now}]
       \/ UNCHANGED notes
    /\ UNCHANGED <<pos, plan, result, runs, memory, used, outside, late, trail>>

-----------------------------------------------------------------------------
(* Plan loop.                                                                *)

NoPlanner ==
    /\ at = "plan" /\ ~HasPlanner /\ at' = "execute"
    /\ UNCHANGED <<pos, plan, result, runs, memory, notes, used, outside, late, trail>>

Propose ==
    /\ at = "plan" /\ HasPlanner /\ pos.plan < MaxPlans /\ ~Refused
    /\ at' = "proposed" /\ pos' = [pos EXCEPT !.plan = @ + 1] /\ Assemble
    /\ UNCHANGED <<plan, result, runs, notes, used, late, trail>>

\* Only step-driven execution looks at the steps of a plan.
Steps == IF StepDriven THEN 0 .. MaxCalls ELSE {0}

AcceptPlan ==
    /\ at = "proposed" /\ at' = "policy"
    /\ IF HasValidator
       THEN /\ plan' = "valid"
            /\ \E n \in Steps : pos' = [pos EXCEPT !.todo = n]
       ELSE plan' = "unchecked" /\ UNCHANGED pos
    /\ UNCHANGED <<result, runs, memory, notes, used, outside, late, trail>>

\* Mutant of RejectPlan: the plan attempt is not counted.
RejectForFree ==
    /\ at = "proposed" /\ HasValidator /\ at' = "plan"
    /\ pos' = [pos EXCEPT !.plan = 0]
    /\ UNCHANGED <<plan, result, runs, memory, notes, used, outside, late, trail>>

RejectPlan ==
    /\ at = "proposed" /\ HasValidator /\ at' = "plan"
    /\ UNCHANGED <<pos, plan, result, runs, memory, notes, used, outside, late, trail>>

PlansExhausted ==
    /\ at = "plan" /\ HasPlanner /\ pos.plan = MaxPlans /\ ~Refused
    /\ at' = "policy" /\ plan' = "invalid"
    /\ UNCHANGED <<pos, result, runs, memory, notes, used, outside, late, trail>>

-----------------------------------------------------------------------------
(* Execute loop.                                                             *)

BeginModelDriven ==
    /\ at = "execute" /\ ~StepDriven /\ ~Refused
    /\ at' = "model" /\ pos' = [pos EXCEPT !.iteration = 0] /\ Assemble
    /\ UNCHANGED <<plan, result, runs, notes, used, late, trail>>

\* Only a successful plan with steps is followed.
BeginSteps ==
    /\ at = "execute" /\ StepDriven
    /\ at' = IF plan = "valid" /\ pos.todo > 0 THEN "steps" ELSE "verify"
    /\ UNCHANGED <<pos, plan, result, runs, memory, notes, used, outside, late, trail>>

BeginIteration ==
    /\ at = "model" /\ pos.iteration < MaxIterations /\ ~Refused
    /\ at' = "asked" /\ pos' = [pos EXCEPT !.iteration = @ + 1]
    /\ UNCHANGED <<plan, result, runs, memory, notes, used, outside, late, trail>>

\* The hook before the model blocks the call, or asks for an approval.
BlockModel ==
    /\ at = "asked" /\ at' = "verify"
    /\ UNCHANGED <<pos, plan, result, runs, memory, notes, used, outside, late, trail>>

Generate ==
    /\ at = "asked" /\ at' = "generating"
    /\ late' = IF signal THEN late + 1 ELSE late
    /\ UNCHANGED <<pos, plan, result, runs, memory, notes, used, outside, trail>>

Answer ==
    /\ at = "generating" /\ at' = "verify" /\ Add("answer", 0)
    /\ UNCHANGED <<pos, plan, result, runs, snapshot, fate, notes, used, outside,
                   late, trail>>

RequestCalls ==
    /\ at = "generating" /\ at' = "calls"
    /\ \E n \in 1 .. MaxCalls :
          Add("calls", n) /\ pos' = [pos EXCEPT !.todo = n]
    /\ UNCHANGED <<plan, result, runs, snapshot, fate, notes, used, outside, late, trail>>

NextCall ==
    /\ at \in {"calls", "steps"} /\ pos.todo > 0 /\ ~Refused
    /\ at' = "tool" /\ pos' = [pos EXCEPT !.try = 0]
    /\ UNCHANGED <<plan, result, runs, memory, notes, used, outside, late, trail>>

CallsDone ==
    /\ at = "calls" /\ pos.todo = 0 /\ at' = "model" /\ Assemble
    /\ UNCHANGED <<pos, plan, result, runs, notes, used, late, trail>>

\* The steps or the iterations are used up.
ExecuteEnds ==
    /\ \/ at = "steps" /\ pos.todo = 0
       \/ at = "model" /\ pos.iteration = MaxIterations
    /\ at' = "verify"
    /\ UNCHANGED <<pos, plan, result, runs, memory, notes, used, outside, late, trail>>

-----------------------------------------------------------------------------
(* Tool loop.                                                                *)

Charge ==
    /\ at = "tool" /\ ~Refused
    /\ at' = "gate" /\ used' = used + 1 /\ pos' = [pos EXCEPT !.try = @ + 1]
    /\ UNCHANGED <<plan, result, runs, memory, notes, outside, late, trail>>

\* Mutant of CallEnds: a denied call leaves no result message.
CallEndsSilently(ok) ==
    /\ IF StepDriven
       THEN at' = (IF ok THEN "steps" ELSE "verify") /\ UNCHANGED stm
       ELSE at' = "calls" /\ (IF ok THEN Add("result", 0) ELSE UNCHANGED stm)
    /\ pos' = [pos EXCEPT !.todo = @ - 1]
    /\ UNCHANGED <<plan, result, runs, snapshot, fate, used, outside, late>>

\* What the loop around does with the result of a call: the model is told and
\* the next call follows; a failed step ends the steps.
CallEnds(ok) ==
    /\ IF StepDriven
       THEN at' = (IF ok THEN "steps" ELSE "verify") /\ UNCHANGED stm
       ELSE at' = "calls" /\ Add("result", 0)
    /\ pos' = [pos EXCEPT !.todo = @ - 1]
    /\ UNCHANGED <<plan, result, runs, snapshot, fate, used, outside, late>>

\* A hook, the security boundary or a missing approval manager.
DenyCall ==
    /\ at = "gate" /\ CallEnds(FALSE)
    /\ UNCHANGED <<notes, trail>>

Announce ==
    /\ at = "gate" /\ at' = "invoke"
    /\ trail' = [trail EXCEPT !.announced = @ + 1]
    /\ UNCHANGED <<pos, plan, result, runs, memory, notes, used, outside, late>>

\* Mutant of Report: only what went well is logged, a second time round too.
ReportTwice == trail' = [trail EXCEPT !.reported = @ + pos.try]
ReportSuccess ==
    trail' = [trail EXCEPT !.reported = IF at = "acted" THEN @ + 1 ELSE @]

\* tool.result, or tool.error for whatever is raised in between.
Report == trail' = [trail EXCEPT !.reported = @ + 1]

\* The gateway refuses (no approval) or raises before the tool has run.
NotInvoked ==
    /\ at = "invoke" /\ CallEnds(FALSE) /\ Report
    /\ UNCHANGED notes

Invoke ==
    /\ at = "invoke" /\ at' = "acted"
    /\ trail' = [trail EXCEPT !.effects = @ + 1]
    /\ UNCHANGED <<pos, plan, result, runs, memory, notes, used, outside, late>>

\* The tool failed or raised, or the log lost its tool.result.
ReportFailed ==
    /\ at = "acted" /\ CallEnds(FALSE) /\ Report
    /\ UNCHANGED notes

Collect == notes' = [notes EXCEPT !.evidence = @ \cup {Now}] \/ UNCHANGED notes

ReportDone == at = "acted" /\ CallEnds(TRUE) /\ Report /\ Collect

\* Only steps carry a done predicate: it is not satisfied yet.
ReportNotDone ==
    /\ at = "acted" /\ StepDriven /\ Report /\ Collect
    /\ IF pos.try < MaxTries
       THEN /\ at' = "tool"
            /\ UNCHANGED <<pos, plan, result, runs, memory, used, outside, late>>
       ELSE CallEnds(FALSE)

-----------------------------------------------------------------------------
(* Other tasks.                                                              *)

\* enqueue(); a full queue refuses.
Guide ==
    /\ guided < MaxGuides /\ Len(queue) < QueueSize
    /\ guided' = guided + 1 /\ queue' = Append(queue, guided + 1)
    /\ UNCHANGED <<at, pos, plan, result, runs, memory, notes, used, signal, late, trail>>

\* pause(), a cancel request, wait_for_human().
Request ==
    /\ ~signal /\ signal' = TRUE /\ late' = 0
    /\ UNCHANGED <<at, pos, plan, result, runs, memory, notes, used, queue, guided, trail>>

\* resume()
Resume ==
    /\ signal /\ signal' = FALSE /\ late' = 0
    /\ UNCHANGED <<at, pos, plan, result, runs, memory, notes, used, queue, guided, trail>>

-----------------------------------------------------------------------------

Session   == Execute \/ OpenSession \/ EnterMilestone \/ CloseSession
Milestone == BeginAttempt \/ GiveUp \/ DenyPlan \/ AllowPlan \/ Replan
                \/ VerifySucceeds \/ VerifyFails \/ Remediate
Planning  == NoPlanner \/ Propose \/ AcceptPlan \/ RejectPlan \/ PlansExhausted
Executing == BeginModelDriven \/ BeginSteps \/ BeginIteration \/ BlockModel \/ Generate
                \/ Answer \/ RequestCalls \/ NextCall \/ CallsDone \/ ExecuteEnds
ToolLoop  == Charge \/ DenyCall \/ Announce \/ NotInvoked \/ Invoke \/ ReportFailed
                \/ ReportDone \/ ReportNotDone

Work == Session \/ Milestone \/ Planning \/ Executing \/ ToolLoop \/ Refuse
Others == Guide \/ Request \/ Resume

Next == Work \/ Raise \/ Others

Spec == Init /\ [][Next]_vars

\* The task is scheduled; the planner, the model, the tools and the approvals
\* it waits for answer.  Nobody has to call execute() again.
LiveSpec == Spec /\ WF_vars(at # "idle" /\ Work)

-----------------------------------------------------------------------------
(* Properties.                                                               *)

ByAttempt(m) == m.what \in {"calls", "result", "answer"}

\* What an attempt wrote before it failed is gone for good: no later plan,
\* model call or run sees it, and no snapshot holds it.
DroppedLeavesNoTrace ==
    \A m \in {stm[i] : i \in DOMAIN stm} \cup {snapshot[i] : i \in DOMAIN snapshot} :
        ByAttempt(m) => fate[m.of] # "dropped"

\* The tool calls of the message at i are followed by as many results.
Answered(i) ==
    \A k \in 1 .. stm[i].calls : i + k <= Len(stm) /\ stm[i + k].what = "result"

Requested == {i \in DOMAIN stm : stm[i].what = "calls"}

\* When the model is called, every tool call it made has its result right
\* behind it, unless an exception broke off the attempt in between.
CallsAnswered ==
    at \in {"asked", "generating"} =>
        \A i \in Requested : fate[stm[i].of] # "aborted" => Answered(i)

\* chat-runtime: tool calls and their results are in the history before the
\* loop continues.
EveryCallAnswered ==
    at = "generating" => \A i \in Requested : Answered(i)

\* The guidance in memory and then that in the queue: in the order it was sent,
\* and none of it twice, whatever was rolled back in between.
GuidanceOnce ==
    /\ \A i, j \in DOMAIN stm :
         stm[i].what = "guidance" /\ stm[j].what = "guidance" /\ i < j => stm[i].of < stm[j].of
    /\ \A i \in DOMAIN stm, j \in DOMAIN queue :
         stm[i].what = "guidance" => stm[i].of < queue[j]
    /\ \A i, j \in DOMAIN queue : i < j => queue[i] < queue[j]

\* Every invocation announced to the log is reported to it before the loops go
\* on, and none twice.
AuditTrail ==
    at # "idle" \/ result \in {"success", "failure"} =>
        trail.announced =
            trail.reported + (IF at \in {"invoke", "acted"} THEN 1 ELSE 0)

\* The tool budget is overdrawn by one call at most, over all runs, and every
\* call that reached a tool was charged.
BudgetBound == used <= ToolLimit + 1 /\ trail.effects <= used

\* After a pause or cancel request at most one more model call begins.
SignalHeeded == late <= 1

\* What a host sends into a run is heeded: guidance enters the conversation once
\* and in order, and after a pause or a cancel at most one more model call begins.
HostHeard == GuidanceOnce /\ SignalHeeded

\* A milestone counts when one attempt at it was kept; a run succeeds when all
\* of them do, and fails only after a last attempt that was dropped.
Kept == {i \in trail.first + 1 .. Now : fate[i] = "kept"}

SessionHonest ==
    /\ at \notin {"idle", "begin"} => Cardinality(Kept) = pos.milestone
    /\ at = "idle" /\ result = "success" => Cardinality(Kept) = Milestones
    /\ at = "idle" /\ result = "failure" =>
          Cardinality(Kept) < Milestones /\ (Now > trail.first => fate[Now] = "dropped")

\* Architecture: only a validated plan may enter the execute loop.
OnlyValidPlansExecute ==
    at \in {"model", "asked", "generating", "calls", "steps"} => plan # "invalid"

\* Every run of the five loops ends.
RunEnds == at # "idle" ~> at = "idle"

\* Where the loops go on after an attempt that failed.
Stage == IF Open THEN "open"
         ELSE IF at \in {"attempt", "remediate", "closing"} THEN "failed" ELSE "settled"

\* The attempts of the milestone loop keep the contract of an attempt: on every
\* way out that is a failure the memory is back to what it was.
Contract ==
    INSTANCE AttemptContract
        WITH stage <- Stage, lasting <- IF Open THEN snapshot ELSE stm, seen <- stm
KeepsContract == Contract!CSpec
=============================================================================
