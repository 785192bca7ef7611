------------------------------ MODULE StepPlans ------------------------------
(***************************************************************************)
(* Planned work: the milestones of a session, each tried a few times; an   *)
(* attempt asks the planner for a plan, has the validators derive trusted  *)
(* steps from the registry, executes the steps in order (or, when the      *)
(* agent is driven by its model, lets the model work) and has the result   *)
(* verified.  A failed attempt is rolled back and reflected upon.          *)
(*                                                                         *)
(* The registry of capabilities changes while steps wait at their gates.   *)
(***************************************************************************)
EXTENDS Naturals, Sequences, FiniteSets, Functions

CONSTANTS
    Setups,         \* planner, executor and validators: see TypeOK
    Capabilities,   \* what may be registered, variants of one id among them: records
                    \* [id, name, display_name, risk, planTool, fixed]; risk 0 is "no or
                    \* no known risk_level", "" no display name
    Proposals,      \* plans a planner may answer: sequences of [cap, risk]
    Messages,       \* last message of the user: "text", "attachment", "blank"
    Milestones,     \* milestones of the session
    MaxAttempts,    \* max_milestone_attempts
    MaxPlans        \* max_plan_attempts

VARIABLES
    setup,      \* fixed per behaviour
    listed,     \* capabilities the gateway lists now, by id
    milestone,  \* the milestone at work: its place, its attempt and its reflections
    history,    \* short-term memory: kinds of messages
    draft,      \* the plan of the attempt, proposed or validated, and what has been
                \* listed since its validation (history)
    results,    \* StepResults of the attempt
    stage

vars == <<setup, listed, milestone, history, draft, results, stage>>

NoDraft == [tries |-> 0, about |-> "none", steps |-> <<>>, ok |-> FALSE, judged |-> 0,
            since |-> {}]

\* The registry is a dictionary by id.
Registries == {L \in SUBSET Capabilities : \A c, d \in L : c.id = d.id => c = d}

TypeOK ==
    /\ setup \in [planner : {"default", "custom"}, stepDriven : BOOLEAN,
                  executor : {"tool loop", "own"}, second : BOOLEAN]
    /\ listed \in Registries
    /\ milestone \in [at : 1..Milestones, attempt : 0..MaxAttempts, reflections : 0..MaxAttempts,
                      kept : Nat, verified : BOOLEAN]
    /\ Range(history) \subseteq Messages \union {"answer", "reflection"}
    /\ draft.tries \in 0..MaxPlans /\ draft.ok \in BOOLEAN
    /\ \A i \in DOMAIN results : results[i].ok \in BOOLEAN /\ results[i].given \in 0..Len(results)
    /\ stage \in {"attempt", "plan", "validate", "execute", "invoke", "verify", "over"}

Init ==
    /\ setup \in Setups
    /\ listed \in Registries
    /\ \E m \in Messages : history = <<m>>
    /\ milestone = [at |-> 1, attempt |-> 0, reflections |-> 0, kept |-> 1, verified |-> FALSE]
    /\ draft = NoDraft /\ results = <<>> /\ stage = "attempt"

-----------------------------------------------------------------------------
(* Plans.                                                                    *)

\* DefaultPlanner._describe_task_message, of whatever message is the last one.
Described(message) == IF message = "blank" THEN "unknown" ELSE message

\* _fallback_plan: evidence to collect, by names that are no capability's.
Fallback == <<[cap |-> "file_evidence", risk |-> 0], [cap |-> "summary_evidence", risk |-> 0]>>

\* The alias index: a name and a display name that are the same are two entries.
Aliases(raw) == {e \in listed \X {"name", "display_name"} : e[1][e[2]] = raw}

\* RegistryPlanValidator._resolve_capability: by id, else by the only entry of a name.
Resolved(raw) ==
    LET byId == {c \in listed : c.id = raw}
        named == {e[1] : e \in Aliases(raw)}
    IN  IF byId # {} THEN byId ELSE IF Cardinality(Aliases(raw)) = 1 THEN named ELSE {}

\* Mutant of Trusted: what the planner says of the risk is believed.
TrustedAsProposed(step, c) == [id |-> c.id, risk |-> step.risk, planTool |-> c.planTool]

\* _validate_step with _derive_envelope: the risk is the registry's.
Trusted(step, c) == [id |-> c.id, risk |-> c.risk, planTool |-> c.planTool]

\* A step named "plan:..." is a plan tool, whatever is registered.
PlanStep(step) == [id |-> step.cap, risk |-> 1, planTool |-> TRUE]

StepErrs(step) ==
    /\ step.cap # "plan:revise"
    /\ Resolved(step.cap) = {} \/ \E c \in Resolved(step.cap) : c.risk = 0

Validated(step) ==
    IF step.cap = "plan:revise" THEN PlanStep(step)
    ELSE Trusted(step, CHOOSE c \in Resolved(step.cap) : TRUE)

-----------------------------------------------------------------------------
(* Attempts.                                                                 *)

\* An attempt begins: a snapshot of the short-term memory is taken.
BeginAttempt ==
    /\ stage = "attempt" /\ milestone.attempt < MaxAttempts
    /\ milestone' = [milestone EXCEPT !.attempt = @ + 1, !.kept = Len(history)]
    /\ draft' = NoDraft /\ results' = <<>> /\ stage' = "plan"
    /\ UNCHANGED <<setup, listed, history>>

\* run_milestone_loop ends without success, and the session with it.
GiveUp ==
    /\ stage = "attempt" /\ milestone.attempt = MaxAttempts
    /\ stage' = "over"
    /\ UNCHANGED <<setup, listed, milestone, history, draft, results>>

\* planner.plan: the default one asks a model about the last message, and falls
\* back when the answer is no plan.
Plan ==
    /\ stage = "plan" /\ draft.tries < MaxPlans
    /\ \E steps \in Proposals \union (IF setup.planner = "default" THEN {Fallback} ELSE {}) :
          draft' = [NoDraft EXCEPT !.tries = draft.tries + 1, !.steps = steps,
                                   !.about = Described(history[Len(history)])]
    /\ stage' = "validate"
    /\ UNCHANGED <<setup, listed, milestone, history, results>>

\* max_plan_attempts: the attempt goes on with a plan that failed.
PlansExhausted ==
    /\ stage = "plan" /\ draft.tries = MaxPlans
    /\ draft' = [draft EXCEPT !.steps = <<>>, !.ok = FALSE]
    /\ stage' = "execute"
    /\ UNCHANGED <<setup, listed, milestone, history, results>>

\* validate_plan: every error fails the plan; a second validator of the
\* composite sees the plan the first one made, and may refuse it.
Validate ==
    /\ stage = "validate"
    /\ LET errs == \E i \in DOMAIN draft.steps : StepErrs(draft.steps[i])
       IN  \/ /\ ~errs
              /\ draft' = [draft EXCEPT !.ok = TRUE, !.since = listed,
                             !.steps = [i \in DOMAIN draft.steps |-> Validated(draft.steps[i])]]
              /\ stage' = "execute"
           \/ /\ errs \/ setup.second
              /\ draft' = [draft EXCEPT !.steps = <<>>]
              /\ stage' = "plan"
    /\ UNCHANGED <<setup, listed, milestone, history, results>>

-----------------------------------------------------------------------------
(* Steps.                                                                    *)

Current == draft.steps[Len(results) + 1]

\* _build_step_context_from_previous: the step whose output goes along, 0 for none.
Given ==
    LET good == {i \in DOMAIN results : results[i].ok}
    IN  IF good = {} THEN 0 ELSE CHOOSE i \in good : \A j \in good : j <= i

\* What is registered for a step when it comes to its turn.
Registered(step) == {c \in listed : c.id = step.id}

\* The risk the policy judges the step by: the registry's of now, and that of the
\* validation where the registry has none.  An own executor passes the greater of
\* the two, which the security boundary looks at in the second case only.
Judged(step) ==
    LET known == {c \in Registered(step) : c.risk # 0}
    IN  IF known = {} THEN step.risk ELSE (CHOOSE c \in known : TRUE).risk

\* _is_plan_tool_call of the registry of now, or the kind the validation saw.
IsPlanTool(step) == step.planTool \/ \E c \in Registered(step) : c.planTool

StepDriven == stage = "execute" /\ setup.stepDriven

\* Mutant of AfterFailure: the remaining steps run all the same.
AfterFailureGoOn == IF Len(results) + 1 < Len(draft.steps) THEN "execute" ELSE "verify"

\* The first step that fails ends the execution.
AfterFailure == "verify"

StepFails ==
    /\ results' = Append(results, [ok |-> FALSE, worked |-> FALSE, given |-> Given,
                                   judged |-> Judged(Current), id |-> Current.id])
    /\ stage' = AfterFailure

\* A plan is needed, one that was validated and has steps.
NothingToDo ==
    /\ StepDriven
    /\ ~draft.ok \/ Len(draft.steps) = 0
    /\ stage' = "verify"
    /\ UNCHANGED <<setup, listed, milestone, history, draft, results>>

\* A plan tool, by its name or by the registry: the attempt is over, its memory
\* is rolled back.
MeetsPlanTool ==
    /\ StepDriven /\ draft.ok /\ Len(results) < Len(draft.steps)
    /\ IsPlanTool(Current)
    /\ milestone' = [milestone EXCEPT !.reflections = @ + 1]
    /\ history' = SubSeq(history, 1, milestone.kept)
    /\ stage' = "attempt"
    /\ UNCHANGED <<setup, listed, draft, results>>

\* Hooks, policy and approval refuse the step or let it pass.
Gate ==
    /\ StepDriven /\ draft.ok /\ Len(results) < Len(draft.steps)
    /\ ~IsPlanTool(Current)
    /\ \/ /\ draft' = [draft EXCEPT !.judged = Judged(Current)]
          /\ stage' = "invoke" /\ UNCHANGED results
       \/ StepFails /\ UNCHANGED draft
    /\ UNCHANGED <<setup, listed, milestone, history>>

\* What makes a step successful: an own executor (DefaultStepExecutor) calls it
\* done when the gateway answers, whatever the answer says; the tool loop asks
\* for the tool's own success.
OwnExecutorOk(answered, worked) == answered
ToolLoopOk(answered, worked) == answered /\ worked

\* The tool that is registered now runs, if there is one that takes the output of
\* the last step: it need not be the one the gate judged.
Invoke ==
    /\ stage = "invoke"
    /\ LET runs == \E c \in Registered(Current) : ~(c.fixed /\ Given > 0)
       IN  \E worked \in (IF runs THEN BOOLEAN ELSE {FALSE}) :
              LET ok == IF setup.executor = "own" THEN OwnExecutorOk(runs, worked)
                                                  ELSE ToolLoopOk(runs, worked)
              IN  /\ results' = Append(results, [ok |-> ok, worked |-> worked, given |-> Given,
                                                 judged |-> draft.judged, id |-> Current.id])
                  /\ stage' = IF ~ok THEN AfterFailure
                              ELSE IF Len(results') = Len(draft.steps) THEN "verify" ELSE "execute"
    /\ UNCHANGED <<setup, listed, milestone, history, draft>>

\* The agent is driven by its model: steps are not executed, its answer is remembered.
ModelWorks ==
    /\ stage = "execute" /\ ~setup.stepDriven
    /\ \E ok \in BOOLEAN :
          results' = <<[ok |-> ok, worked |-> ok, given |-> 0, judged |-> 0, id |-> "model"]>>
    /\ history' = Append(history, "answer")
    /\ stage' = "verify"
    /\ UNCHANGED <<setup, listed, milestone, draft>>

-----------------------------------------------------------------------------
(* Verification, reflection, the next milestone.                             *)

\* RunResult.success of the execution.
Succeeded ==
    /\ results # <<>> /\ \A i \in DOMAIN results : results[i].ok
    /\ setup.stepDriven => draft.ok /\ Len(results) = Len(draft.steps)

\* verify_milestone of the registry validator, a second validator and the hooks
\* before it (BEFORE_VERIFY may block).
Verify ==
    /\ stage = "verify" /\ Succeeded
    /\ IF milestone.at < Milestones
       THEN /\ milestone' = [at |-> milestone.at + 1, attempt |-> 0, reflections |-> 0,
                             kept |-> Len(history), verified |-> TRUE]
            /\ stage' = "attempt"
       ELSE /\ milestone' = [milestone EXCEPT !.verified = TRUE]
            /\ stage' = "over"
    /\ UNCHANGED <<setup, listed, history, draft, results>>

\* rollback, then remediate: it reads the memory as it was before the attempt,
\* and its reflection goes to the state of the milestone.
Remediate ==
    /\ stage = "verify"
    /\ ~Succeeded \/ setup.second
    /\ history' = SubSeq(history, 1, milestone.kept)
    /\ milestone' = [milestone EXCEPT !.reflections = @ + 1]
    /\ stage' = "attempt"
    /\ UNCHANGED <<setup, listed, draft, results>>

\* Tools come and go while a step waits, and update_tool puts another in the place
\* of one (ToolManager).
RegistryChanges ==
    /\ stage \in {"validate", "execute", "invoke"}
    /\ \E c \in Capabilities :
          LET others == {d \in listed : d.id # c.id}
          IN  listed' \in {others, others \union {c}}
    /\ draft' = [draft EXCEPT !.since = @ \union listed']
    /\ UNCHANGED <<setup, milestone, history, results, stage>>

Next ==
    \/ BeginAttempt \/ GiveUp \/ Plan \/ PlansExhausted \/ Validate
    \/ NothingToDo \/ MeetsPlanTool \/ Gate \/ Invoke \/ ModelWorks
    \/ Verify \/ Remediate \/ RegistryChanges

Spec == Init /\ [][Next]_vars

-----------------------------------------------------------------------------
(* Properties.                                                               *)

\* Steps run on trust derived from the registry and in the order of the plan:
\* each was judged by a risk that the registry gave its capability between the
\* validation of this plan and the step's turn, never by what the planner said
\* or by what was registered for an earlier plan, though the capability be
\* replaced or withdrawn while it waited; it got the output of the step right
\* before it; it was no plan tool when it was judged, and nothing ran behind a
\* failure (_run_step_driven_execute_loop, _validate_step, _derive_envelope).
StepsOnTrust ==
    setup.stepDriven =>
        \A i \in DOMAIN results :
            /\ i > 1 => results[i - 1].ok
            /\ results[i].given = i - 1
            /\ \E c \in draft.since : /\ c.id = results[i].id /\ ~c.planTool
                                      /\ c.risk = results[i].judged
=============================================================================
