------------------------------ MODULE PlanTools ------------------------------
(***************************************************************************)
(* The plan of plan_v2: PlannerState, the plan tools that read and write   *)
(* it, and the sub-agent tools that carry its steps out.                   *)
(*                                                                         *)
(* A sub-agent tool holds the plan across the await of its agent; the      *)
(* plan tools, called by another execution on the same Planner, run        *)
(* meanwhile and may revise or finish the plan.                            *)
(***************************************************************************)
EXTENDS Naturals, Sequences, FiniteSets, Functions

CONSTANTS
    Delegations,    \* calls of sub-agent tools
    Proposals,      \* the lists of step ids the model passes; "" is no id
    Milestones      \* ids of milestones

VARIABLES
    plan,           \* PlannerState: steps, plan_status, completed_step_ids, ...
    goals,          \* PlannerState: milestones, current_milestone_id, last_*
    delegation      \* call -> the step its sub-agent works on, or "none"

vars == <<plan, goals, delegation>>

\* What stands for an id where the model gave none.
NoId == ""

TerminalStates == {"done", "abandoned"}
StepStates == TerminalStates \union {"todo", "in_progress"}
Ids == (UNION {Range(p) : p \in Proposals}) \ {NoId}

\* is_valid_state_transition.
Allowed(from, to) ==
    from = to \/ from = "todo" \/ (from = "in_progress" /\ to \in TerminalStates)

\* Whether a step has an id one can ask for.
Named(step) == step.id # NoId

\* get_step and _pending_steps: positions of the step and of open steps.
At(p, id) == {i \in DOMAIN p.steps : Named(p.steps[i]) /\ p.steps[i].id = id}
Pending(p) == {i \in DOMAIN p.steps : p.steps[i].state \notin TerminalStates}

\* sync_completed_step_ids.
Done(steps) == {s.id : s \in {x \in Range(steps) : x.state = "done" /\ Named(x)}}
Synced(p) == [p EXCEPT !.completed = Done(p.steps)]

\* The call _format_critical_block tells the model to make next.
Advice(p) ==
    LET first == CHOOSE i \in Pending(p) : \A j \in Pending(p) : i <= j
        abandoned == \E s \in Range(p.steps) : s.state = "abandoned" /\ Named(s)
    IN  CASE p.steps = <<>>                -> [call |-> "create_plan"]
          [] p.steps # <<>> /\ p.status \in TerminalStates -> [call |-> "none"]
          [] OTHER ->
               IF ~p.validated             THEN [call |-> "validate_plan"]
               ELSE IF Pending(p) = {}     THEN [call |-> "finish_plan",
                                                 target |-> IF abandoned THEN "abandoned"
                                                            ELSE "done"]
               ELSE IF Done(p.steps) = {}  THEN [call |-> "ask_user"]
               ELSE IF ~Named(p.steps[first]) THEN [call |-> "revise_current_plan"]
               ELSE [call |-> "delegate", step |-> p.steps[first].id]

\* _format_critical_block: what the model is shown of the plan.
Block(p) == [steps |-> p.steps, next |-> Advice(p),
             status |-> IF p.steps = <<>> THEN "todo" ELSE p.status]
Shown(p) == [Synced(p) EXCEPT !.block = Block(p)]

EmptyPlan == [steps |-> <<>>, status |-> "todo", completed |-> {}, validated |-> FALSE,
              block |-> [steps |-> <<>>, next |-> [call |-> "create_plan"],
                         status |-> "todo"]]

TypeOK ==
    /\ plan.status \in StepStates
    /\ \A i \in DOMAIN plan.steps :
          plan.steps[i].id \in Ids \union {NoId} /\ plan.steps[i].state \in StepStates
    /\ plan.completed \subseteq Ids
    /\ plan.validated \in BOOLEAN
    /\ goals \in [milestones : SUBSET Milestones, current : Milestones \union {"none"},
                  unmet : BOOLEAN, reflected : BOOLEAN]
    /\ delegation \in [Delegations -> Ids \union {"none"}]

Init ==
    /\ plan = EmptyPlan
    /\ goals = [milestones |-> {}, current |-> "none", unmet |-> FALSE, reflected |-> FALSE]
    /\ delegation = [d \in Delegations |-> "none"]

-----------------------------------------------------------------------------
(* The plan tools: each runs to its end without an await.                    *)

Distinct(ids) == \A i, j \in DOMAIN ids : ids[i] = ids[j] /\ ids[i] # NoId => i = j

\* CreatePlanTool: skipped while a plan exists.
Create ==
    /\ plan.steps = <<>>
    /\ \E ids \in Proposals :
          /\ Distinct(ids)
          /\ plan' = Shown([plan EXCEPT
                        !.steps = [i \in DOMAIN ids |-> [id |-> ids[i], state |-> "todo"]],
                        !.status = "todo", !.completed = {}, !.validated = FALSE])
    /\ UNCHANGED <<goals, delegation>>

\* ValidatePlanTool takes the model's word, for an empty or a finished plan too.
Validate ==
    /\ \E ok \in BOOLEAN :
          plan' = Shown([plan EXCEPT
                    !.validated = ok,
                    !.status = IF ok /\ @ = "todo" THEN "in_progress" ELSE @])
    /\ UNCHANGED <<goals, delegation>>

\* Mutant of Kept: a revision resets what was done.
KeptNothing(p, id) == "todo"

\* The state a step of the revised plan starts in.
Kept(p, id) ==
    IF \E i \in At(p, id) : p.steps[i].state \in TerminalStates
    THEN p.steps[CHOOSE i \in At(p, id) : TRUE].state ELSE "todo"

\* The positions of the ids in a list, in their order (there is one such sequence).
NamedIn(ids) ==
    {at \in UNION {[1..n -> DOMAIN ids] : n \in 0..Len(ids)} :
        /\ Range(at) = {i \in DOMAIN ids : ids[i] # NoId}
        /\ \A k, l \in DOMAIN at : k < l => at[k] < at[l]}

\* ReviseCurrentPlanTool: new steps, or the description only; steps without an
\* id are dropped.
Revise ==
    /\ plan.steps # <<>> /\ plan.status \notin TerminalStates
    /\ \/ \E ids \in Proposals \union {<<>>} :
            /\ Distinct(ids)
            /\ \E at \in NamedIn(ids) :
                  plan' = Shown([plan EXCEPT
                        !.steps = [k \in DOMAIN at |->
                                     [id |-> ids[at[k]], state |-> Kept(plan, ids[at[k]])]],
                        !.status = "todo", !.validated = FALSE])
       \/ plan' = Shown([plan EXCEPT !.status = "todo", !.validated = FALSE])
    /\ UNCHANGED <<goals, delegation>>

\* Mutant of MayFinish: the pending steps are not looked at.
MayFinishAnyhow(p, target) == p.steps # <<>> /\ Allowed(p.status, target)

\* The refusals of FinishPlanTool, transition_plan's included.
MayFinish(p, target) ==
    /\ p.steps # <<>>
    /\ target = "done" => Pending(p) = {}
    /\ Allowed(p.status, target)

Finish ==
    /\ \E target \in TerminalStates :
          /\ MayFinish(plan, target)
          /\ plan' = Shown([plan EXCEPT
                !.status = target,
                !.steps = [i \in DOMAIN @ |->
                    IF target = "abandoned" /\ i \in Pending(plan)
                    THEN [@[i] EXCEPT !.state = "abandoned"] ELSE @[i]]])
    /\ \E summary \in BOOLEAN : goals' = [goals EXCEPT !.reflected = @ \/ summary]
    /\ UNCHANGED delegation

-----------------------------------------------------------------------------
(* The notes of the milestone: they neither read nor change the plan.        *)
(* (DelegateToSubAgentTool is a stub that changes nothing: no action.)       *)

\* VerifyMilestoneTool: the last verdict stands alone.
VerifyMilestone ==
    /\ \E errors \in BOOLEAN : goals' = [goals EXCEPT !.unmet = errors]
    /\ UNCHANGED <<plan, delegation>>

\* ReflectTool: the last summary; finish_plan writes the same field.
Reflect ==
    /\ \E blank \in BOOLEAN : goals' = [goals EXCEPT !.reflected = ~blank]
    /\ UNCHANGED <<plan, delegation>>

\* DecomposeTaskTool: the list is replaced; a current milestone stays, of the new
\* list or not, unless the call names another, and is the first when there is none.
Decompose ==
    /\ \E ids \in SUBSET Milestones, named \in Milestones \union {"none"} :
          \E first \in IF ids = {} THEN {"none"} ELSE ids :
              goals' = [goals EXCEPT !.milestones = ids,
                            !.current = CASE named # "none" -> named
                                          [] named = "none" /\ @ # "none" -> @
                                          [] OTHER -> first]
    /\ UNCHANGED <<plan, delegation>>

-----------------------------------------------------------------------------
(* SubAgentTool.execute up to the await of the agent, and after it.          *)

\* Its refusals: a finished plan, an unknown step, a finished step.
MayDelegate(p, id) ==
    /\ p.status \notin TerminalStates
    /\ \E i \in At(p, id) : p.steps[i].state \notin TerminalStates

SetStep(p, id, state) ==
    [p EXCEPT !.steps = [i \in DOMAIN @ |->
        IF i \in At(p, id) THEN [@[i] EXCEPT !.state = state] ELSE @[i]]]

\* The call of a delegation without a step touches no plan: left out.
Delegate(d, id) ==
    /\ delegation[d] = "none"
    /\ MayDelegate(plan, id)
    /\ plan' = Shown([SetStep(plan, id, "in_progress") EXCEPT
                        !.status = IF @ = "todo" THEN "in_progress" ELSE @])
    /\ delegation' = [delegation EXCEPT ![d] = id]
    /\ UNCHANGED goals

\* Mutant of MayComplete: the answer is entered whatever became of the step.
MayCompleteAlways(p, id) == TRUE

\* transition_step after the await: the step may be gone or abandoned by now,
\* or done by another delegation (done -> done is legal).
MayComplete(p, id) == \E i \in At(p, id) : Allowed(p.steps[i].state, "done")

\* The agent has answered; a transition refused is reported as a failed call.
Answered(d) ==
    LET id == delegation[d]
    IN  /\ id # "none"
        /\ plan' = Shown(IF MayComplete(plan, id) THEN SetStep(plan, id, "done") ELSE plan)
        /\ delegation' = [delegation EXCEPT ![d] = "none"]
        /\ UNCHANGED goals

\* The agent raised: the step stays in progress.
Raised(d) ==
    /\ delegation[d] # "none"
    /\ plan' = Shown(plan)
    /\ delegation' = [delegation EXCEPT ![d] = "none"]
    /\ UNCHANGED goals

Next ==
    \/ Create \/ Validate \/ Revise \/ Finish
    \/ VerifyMilestone \/ Reflect \/ Decompose
    \/ \E d \in Delegations :
          \/ \E id \in Ids : Delegate(d, id)
          \/ Answered(d) \/ Raised(d)

Spec == Init /\ [][Next]_vars

-----------------------------------------------------------------------------

\* The block kept for the model is the plan as it is, and the call it is told to
\* make next is one the tool accepts; a plan that is done has no open step, one
\* that is abandoned neither (_format_critical_block against the guards of
\* MayFinish, Revise and MayDelegate).
AdviceHolds ==
    LET next == plan.block.next
    IN  /\ plan.block.steps = plan.steps
        /\ plan.completed = Done(plan.steps)
        /\ plan.status \in TerminalStates /\ plan.steps # <<>> => Pending(plan) = {}
        /\ next.call = "finish_plan" => MayFinish(plan, next.target)
        /\ next.call = "delegate" => MayDelegate(plan, next.step)
        /\ next.call = "create_plan" => plan.steps = <<>>
        /\ next.call = "revise_current_plan" => plan.status \notin TerminalStates

\* A finished plan is never opened again, and a step that is done or abandoned
\* stays so for as long as the plan has it, whatever revisions, finishes and
\* late answers of sub-agents come in between (Kept, transition_step).
FinishedStays ==
    /\ plan.status \in TerminalStates =>
          plan'.status = plan.status /\ plan'.steps = plan.steps
    /\ \A i \in DOMAIN plan.steps, j \in DOMAIN plan'.steps :
          (plan.steps[i].id = plan'.steps[j].id /\ plan.steps[i].id # NoId
           /\ plan.steps[i].state \in TerminalStates)
            => plan'.steps[j].state = plan.steps[i].state
=============================================================================
