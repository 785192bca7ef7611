--------------------------- MODULE Guarded_proofs ---------------------------
(***************************************************************************)
(* What may be executed, for every value of the constants: calls of tools  *)
(* through their guards, steps of plans, what the planner is told, the     *)
(* registry of tools while servers are reloaded, and the event bus.        *)
(*                                                                         *)
(* The module is one of the guard, and has the others beside it.           *)
(***************************************************************************)
EXTENDS ToolGuard, SequenceFacts, SequenceTheorems, FiniteSetTheorems, TLAPS

CONSTANTS Delegations, Proposals, Milestones, Setups, Capabilities, Drafts, Messages, Stretch,
    MaxTries, MaxPlans, Names, Remote, Local, MCPs, Plugin, Callers, Remembered,
    Registrations, Events, Emits, MaxListeners
VARIABLES plan, goals, delegation, setup, listed, milestone, history, draft, results, stage,
    tm, offers, live, current, op, clash, listeners, emission, tasks, waiting, calls, dropped

Planner == INSTANCE PlanTools
Work == INSTANCE StepPlans WITH Proposals <- Drafts, Milestones <- Stretch, MaxAttempts <- MaxTries
Registry == INSTANCE McpRegistry
Bus == INSTANCE EventBus

-----------------------------------------------------------------------------
(* ToolGuard.                                                                *)

ConfigType ==
    [boundary : {"noop", "policy"}, denied : BOOLEAN, deny : SUBSET Risks,
     approve : SUBSET Risks, default : {"allow", "approve", "deny"}, strict : BOOLEAN, manager : BOOLEAN,
     enforce : BOOLEAN, retries : BOOLEAN]

\* Configurations are ones a boundary can have, hooks answer one of the outcomes,
\* and a tool may be tried at all.
GuardAssumption ==
    /\ Configs \subseteq ConfigType
    /\ HookRuns \subseteq Seq(HookOutcomes)
    /\ MaxAttempts \in Nat \ {0}

Words == {"allow", "ask", "block"}
CallPhases == {"idle", "hook", "security", "gate", "approval", "invoking", "returned", "raised"}
CallType ==
    [phase : CallPhases, path : {"tool_loop", "executor"}, desc : Requirements, meta : BOOLEAN,
     risk : Risks \union {"none"}, attempt : 0..MaxAttempts,
     decision : {"allow", "deny", "approve"}, needs : SUBSET BOOLEAN, said : SUBSET Words]
TraceType == [open : BOOLEAN, lost : BOOLEAN, counted : 0..MaxAttempts]

Types ==
    /\ config \in ConfigType /\ registry \in Requirements
    /\ call \in CallType /\ cleared \subseteq {"hook", "policy", "approval"}
    /\ trace \in TraceType

\* The hooks that are enforced let the attempt pass.
Unopposed == config.enforce => call.said \intersect {"ask", "block"} = {}

\* What is behind a call that is at a gate: the loop asks its hooks first, the
\* executor the boundary.
GatesPassed ==
    /\ call.phase = "hook" /\ call.path = "executor" => "policy" \in cleared
    /\ call.phase = "security" /\ call.path = "tool_loop" => "hook" \in cleared /\ Unopposed
    /\ call.phase \in {"gate", "approval", "invoking"} => {"hook", "policy"} \subseteq cleared /\ Unopposed
    /\ call.phase = "invoking" /\ TRUE \in call.needs => "approval" \in cleared

\* A span is open from BEFORE_TOOL on, and the attempts before it are counted.
Tracing ==
    /\ call.phase # "raised" => ~trace.lost
    /\ call.phase = "hook" =>
          /\ ~trace.open /\ trace.counted = call.attempt /\ call.attempt < MaxAttempts
          /\ call.path = "executor" => call.attempt = 0
    /\ call.phase = "security" /\ call.path = "executor" =>
          ~trace.open /\ trace.counted = 0 /\ call.attempt = 0
    /\ \/ call.phase = "security" /\ call.path = "tool_loop"
       \/ call.phase \in {"gate", "approval", "invoking"}
       => trace.open /\ call.attempt > 0 /\ trace.counted = call.attempt - 1
    /\ call.phase = "returned" => ~trace.open /\ trace.counted = IF call.attempt = 0 THEN 1 ELSE call.attempt

GuardInv == Types /\ GatesPassed /\ Tracing

-----------------------------------------------------------------------------

\* Every hook says one of three words in the end.
LEMMA HookWord == ASSUME config \in ConfigType, NEW o \in HookOutcomes PROVE RunHook(o) \in Words
BY DEF HookOutcomes, RunHook, Words, ConfigType

\* What the hooks of a dispatch have said.
LEMMA RunWords ==
    ASSUME GuardAssumption, config \in ConfigType, NEW run \in HookRuns
    PROVE  Range([i \in DOMAIN run |-> RunHook(run[i])]) \subseteq Words
<1>1. run \in Seq(HookOutcomes)
  BY DEF GuardAssumption
<1>2. \A i \in DOMAIN run : run[i] \in HookOutcomes
  BY <1>1
<1>3. \A i \in DOMAIN run : RunHook(run[i]) \in Words
  BY <1>2, HookWord
<1> QED BY <1>3 DEF Range

\* A dispatch that is enforced lets pass only what nobody spoke against.
LEMMA Passing ==
    ASSUME NEW said, Emit(said) = "allow", config.enforce
    PROVE  Range(said) \intersect {"ask", "block"} = {}
BY DEF Emit, Arbitrate

\* The policy's word.
LEMMA PolicyWord ==
    ASSUME config \in ConfigType PROVE Policy(call) \in {"allow", "deny", "approve"}
BY DEF Policy, ConfigType

\* A call with no need of approval has no reason recorded for one.
LEMMA NoNeed ==
    ASSUME Types, ~NeedsApproval(call)
    PROVE  TRUE \notin {call.decision = "approve", call.meta, call.desc = "yes" /\ registry = "yes"}
<1>1. call.decision # "approve" /\ ~call.meta
  BY Zenon DEF NeedsApproval
<1>2. ~(call.desc = "yes" /\ registry = "yes")
  BY Zenon DEF NeedsApproval
<1>3. call.meta = FALSE
  BY <1>1 DEF Types, CallType
<1> QED BY <1>1, <1>2, <1>3, Zenon
-----------------------------------------------------------------------------

\* The first state.
LEMMA GuardInit == ASSUME GuardAssumption, Init PROVE GuardInv
<1>1. NoCall \in CallType /\ NoTrace \in TraceType
  BY DEF GuardAssumption, NoCall, NoTrace, CallType, TraceType, CallPhases, Requirements, Words
<1>2. Types
  BY <1>1 DEF GuardAssumption, Init, Types
<1>3. GatesPassed
  BY DEF Init, NoCall, GatesPassed
<1>4. Tracing
  BY DEF Init, NoCall, NoTrace, Tracing
<1> QED BY <1>2, <1>3, <1>4 DEF GuardInv

\* A call enters.
LEMMA BeginInv == ASSUME GuardAssumption, GuardInv, Begin PROVE GuardInv'
<1>1. PICK path \in {"tool_loop", "executor"}, meta \in BOOLEAN, risk \in Risks \union {"none"} :
         call' = Entered(path, meta, risk)
  BY DEF Begin
<1>2. /\ call' = [phase |-> IF path = "executor" THEN "security" ELSE "hook",
                  path |-> path, desc |-> registry, meta |-> meta, risk |-> risk, attempt |-> 0,
                  decision |-> "allow", needs |-> {}, said |-> {}]
      /\ cleared' = {} /\ trace' = NoTrace /\ UNCHANGED <<config, registry>>
  BY <1>1 DEF Entered, NoCall, Begin
<1>3. Types'
  BY <1>2 DEF GuardAssumption, GuardInv, Types, CallType, CallPhases, TraceType, NoTrace, Words
<1>4. GatesPassed'
  BY <1>2 DEF GatesPassed
<1>5. Tracing'
  BY <1>2 DEF Tracing, NoTrace, GuardAssumption
<1> QED BY <1>3, <1>4, <1>5 DEF GuardInv

\* The hooks speak: the attempt begins, or ends here.
LEMMA BeforeToolInv == ASSUME GuardAssumption, GuardInv, BeforeTool PROVE GuardInv'
<1>1. PICK run \in HookRuns :
        LET said == [i \in DOMAIN run |-> RunHook(run[i])]
            goes == Emit(said) = "allow"
        IN  /\ call' = [call EXCEPT
                       !.attempt = IF call.path = "tool_loop" THEN @ + 1 ELSE 1,
                       !.said = Range(said),
                       !.phase = IF ~goes THEN "returned"
                                 ELSE IF call.path = "tool_loop" THEN "security" ELSE "gate"]
            /\ trace' = IF goes THEN Before(trace) ELSE After(Before(trace))
            /\ cleared' = (IF call.path = "tool_loop" THEN {} ELSE cleared)
                          \union (IF goes THEN {"hook"} ELSE {})
  BY Zenon DEF BeforeTool
<1> DEFINE said == [i \in DOMAIN run |-> RunHook(run[i])]
<1>2. config \in ConfigType /\ registry \in Requirements /\ cleared \subseteq {"hook", "policy", "approval"}
  BY DEF GuardInv, Types
<1>3. Range(said) \subseteq Words
  BY <1>2, RunWords
<1>4. call.phase = "hook" /\ UNCHANGED <<config, registry>>
  BY DEF BeforeTool
<1>5. call \in CallType /\ trace \in TraceType
  BY DEF GuardInv, Types
<1>6. call.path \in {"tool_loop", "executor"} /\ call.attempt \in Nat /\ trace.counted \in Nat
  BY <1>5 DEF CallType, TraceType
<1>7. trace.counted = call.attempt /\ call.attempt < MaxAttempts /\ MaxAttempts \in Nat
  BY <1>4 DEF GuardInv, Tracing, GuardAssumption
<1>8. ~trace.open /\ ~trace.lost
  BY <1>4 DEF GuardInv, Tracing
<1>9. call.path = "executor" => call.attempt = 0 /\ "policy" \in cleared
  BY <1>4 DEF GuardInv, Tracing, GatesPassed
<1>10. call.attempt + 1 \in 0..MaxAttempts
  BY <1>6, <1>7
<1>11. (IF call.path = "tool_loop" THEN call.attempt + 1 ELSE 1) = call.attempt + 1
  BY <1>6, <1>9
<1>12. CASE Emit(said) = "allow"
  <2>1. call' = [call EXCEPT !.attempt = call.attempt + 1, !.said = Range(said),
                             !.phase = IF call.path = "tool_loop" THEN "security" ELSE "gate"]
    BY <1>1, <1>11, <1>12
  <2>2. /\ trace' = Before(trace)
        /\ cleared' = (IF call.path = "tool_loop" THEN {} ELSE cleared) \union {"hook"}
    BY <1>1, <1>12
  <2> HIDE DEF said
  <2>3. trace'.open /\ ~trace'.lost /\ trace'.counted = call.attempt /\ trace' \in TraceType
    BY <1>5, <1>7, <1>8, <2>2 DEF Before, TraceType
  <2>4. /\ call' \in CallType /\ call'.attempt = call.attempt + 1 /\ call'.path = call.path
        /\ call'.said = Range(said)
        /\ call'.phase = IF call.path = "tool_loop" THEN "security" ELSE "gate"
    BY <1>3, <1>5, <1>10, <2>1 DEF CallType, CallPhases
  <2>5. config'.enforce => call'.said \intersect {"ask", "block"} = {}
    BY <1>4, <1>12, <2>4, Passing
  <2>6. Types'
    BY <1>2, <1>4, <2>2, <2>3, <2>4 DEF Types
  <2>7. GatesPassed'
    BY <1>6, <1>9, <2>2, <2>4, <2>5 DEF GatesPassed, Unopposed
  <2>8. Tracing'
    <3>1. call'.attempt > 0 /\ trace'.counted = call'.attempt - 1
      BY <1>6, <2>3, <2>4
    <3> QED BY <1>6, <2>3, <2>4, <3>1 DEF Tracing
  <2> QED BY <2>6, <2>7, <2>8 DEF GuardInv
<1>13. CASE Emit(said) # "allow"
  <2>1. call' = [call EXCEPT !.attempt = call.attempt + 1, !.said = Range(said), !.phase = "returned"]
    BY <1>1, <1>11, <1>13
  <2>2. /\ trace' = After(Before(trace))
        /\ cleared' = (IF call.path = "tool_loop" THEN {} ELSE cleared)
    BY <1>1, <1>13
  <2> HIDE DEF said
  <2>3. ~trace'.open /\ ~trace'.lost /\ trace'.counted = call.attempt + 1 /\ trace' \in TraceType
    BY <1>5, <1>7, <1>8, <1>10, <2>2 DEF Before, After, TraceType
  <2>4. call' \in CallType /\ call'.attempt = call.attempt + 1 /\ call'.phase = "returned"
    BY <1>3, <1>5, <1>10, <2>1 DEF CallType, CallPhases
  <2>5. Types'
    BY <1>2, <1>4, <2>2, <2>3, <2>4 DEF Types
  <2>6. GatesPassed'
    BY <2>4 DEF GatesPassed
  <2>7. Tracing'
    BY <1>6, <2>3, <2>4 DEF Tracing
  <2> QED BY <2>5, <2>6, <2>7 DEF GuardInv
<1> QED BY <1>12, <1>13

\* A refusal, which closes the span and counts the attempt.
LEMMA RefusedInv ==
    ASSUME GuardAssumption, GuardInv, Refused, UNCHANGED <<config, registry, cleared>>,
           call.phase \in {"security", "approval"}
    PROVE  GuardInv'
<1>1. call \in CallType /\ trace \in TraceType /\ MaxAttempts \in Nat \ {0}
  BY DEF GuardInv, Types, GuardAssumption
<1>2. call.path \in {"tool_loop", "executor"} /\ call.attempt \in 0..MaxAttempts /\ trace.counted \in 0..MaxAttempts
  BY <1>1 DEF CallType, TraceType
<1>3. /\ ~trace.lost
      /\ \/ call.attempt = 0 /\ trace.counted = 0
         \/ call.attempt > 0 /\ trace.counted = call.attempt - 1
  BY <1>2 DEF GuardInv, Tracing
<1>4. /\ call' \in CallType /\ call'.phase = "returned" /\ call'.attempt = call.attempt
  BY <1>1 DEF Refused, CallType, CallPhases
<1>5. ~trace'.open /\ ~trace'.lost /\ trace'.counted = trace.counted + 1
  BY <1>1, <1>3 DEF Refused, After, TraceType
<1>6. trace.counted + 1 \in 0..MaxAttempts
  BY <1>1, <1>2, <1>3
<1>7. trace' \in TraceType
  BY <1>1, <1>6 DEF Refused, After, TraceType
<1>8. Types'
  BY <1>4, <1>7 DEF GuardInv, Types
<1>9. GatesPassed'
  BY <1>4 DEF GatesPassed
<1>10. trace'.counted = IF call'.attempt = 0 THEN 1 ELSE call'.attempt
  BY <1>2, <1>3, <1>4, <1>5
<1>11. Tracing'
  BY <1>4, <1>5, <1>10 DEF Tracing
<1> QED BY <1>8, <1>9, <1>11 DEF GuardInv

\* The boundary speaks.
LEMMA PreflightInv == ASSUME GuardAssumption, GuardInv, Preflight PROVE GuardInv'
<1>1. call.phase = "security" /\ UNCHANGED <<config, registry>>
  BY DEF Preflight
<1>2. \/ Refused /\ UNCHANGED cleared
      \/ /\ call' = [call EXCEPT !.decision = Policy(call),
                        !.phase = IF call.path = "tool_loop" THEN "gate" ELSE "hook"]
         /\ cleared' = cleared \union {"policy"} /\ UNCHANGED trace
  BY DEF Preflight
<1>3. CASE Refused /\ UNCHANGED cleared
  BY <1>1, <1>3, RefusedInv
<1>4. CASE /\ call' = [call EXCEPT !.decision = Policy(call),
                          !.phase = IF call.path = "tool_loop" THEN "gate" ELSE "hook"]
           /\ cleared' = cleared \union {"policy"} /\ UNCHANGED trace
  <2>1. call \in CallType /\ Policy(call) \in {"allow", "deny", "approve"}
    BY PolicyWord DEF GuardInv, Types
  <2>2. call.path \in {"tool_loop", "executor"} /\ call.attempt \in 0..MaxAttempts /\ MaxAttempts \in Nat \ {0}
    BY <2>1 DEF CallType, GuardAssumption
  <2>3. /\ call' \in CallType /\ call'.path = call.path /\ call'.attempt = call.attempt
        /\ call'.said = call.said
        /\ call'.phase = IF call.path = "tool_loop" THEN "gate" ELSE "hook"
    BY <1>4, <2>1 DEF CallType, CallPhases
  <2>4. Types'
    BY <1>1, <1>4, <2>3 DEF GuardInv, Types
  <2>5. GatesPassed'
    BY <1>1, <1>4, <2>2, <2>3 DEF GuardInv, GatesPassed, Unopposed
  <2>6. Tracing'
    BY <1>1, <1>4, <2>2, <2>3 DEF GuardInv, Tracing
  <2> QED BY <2>4, <2>5, <2>6 DEF GuardInv
<1> QED BY <1>2, <1>3, <1>4

\* The call goes to the human, or at once to the tool.
LEMMA GateInv == ASSUME GuardAssumption, GuardInv, Gate PROVE GuardInv'
<1> DEFINE needs == {call.decision = "approve", call.meta, call.desc = "yes" /\ registry = "yes"}
<1>1. call.phase = "gate" /\ UNCHANGED <<config, registry, cleared, trace>>
  BY DEF Gate
<1>2. call' = [call EXCEPT !.phase = IF NeedsApproval(call) THEN "approval" ELSE "invoking", !.needs = needs]
  BY DEF Gate
<1>3. call \in CallType /\ needs \subseteq BOOLEAN
  BY DEF GuardInv, Types, CallType
<1>4. ~NeedsApproval(call) => TRUE \notin needs
  BY NoNeed DEF GuardInv
<1> HIDE DEF needs
<1>5. /\ call' \in CallType /\ call'.path = call.path /\ call'.attempt = call.attempt
      /\ call'.said = call.said /\ call'.needs = needs
      /\ call'.phase \in {"approval", "invoking"}
      /\ call'.phase = "invoking" => ~NeedsApproval(call)
  BY <1>2, <1>3 DEF CallType, CallPhases
<1>6. Types'
  BY <1>1, <1>5 DEF GuardInv, Types
<1>7. GatesPassed'
  BY <1>1, <1>4, <1>5 DEF GuardInv, GatesPassed, Unopposed
<1>8. Tracing'
  BY <1>1, <1>5 DEF GuardInv, Tracing
<1> QED BY <1>6, <1>7, <1>8 DEF GuardInv

\* The human, or a rule, answers.
LEMMA ApproveInv == ASSUME GuardAssumption, GuardInv, Approve PROVE GuardInv'
<1>1. call.phase = "approval" /\ UNCHANGED <<config, registry>>
  BY DEF Approve
<1>2. \/ Refused /\ UNCHANGED cleared
      \/ call' = [call EXCEPT !.phase = "invoking"] /\ cleared' = cleared \union {"approval"} /\ UNCHANGED trace
  BY DEF Approve
<1>3. CASE Refused /\ UNCHANGED cleared
  BY <1>1, <1>3, RefusedInv
<1>4. CASE call' = [call EXCEPT !.phase = "invoking"] /\ cleared' = cleared \union {"approval"} /\ UNCHANGED trace
  <2>1. call \in CallType
    BY DEF GuardInv, Types
  <2>2. /\ call' \in CallType /\ call'.attempt = call.attempt /\ call'.path = call.path
        /\ call'.said = call.said /\ call'.phase = "invoking"
    BY <1>4, <2>1 DEF CallType, CallPhases
  <2>3. Types'
    BY <1>1, <1>4, <2>2 DEF GuardInv, Types
  <2>4. GatesPassed'
    BY <1>1, <1>4, <2>2 DEF GuardInv, GatesPassed, Unopposed
  <2>5. Tracing'
    BY <1>1, <1>4, <2>2 DEF GuardInv, Tracing
  <2> QED BY <2>3, <2>4, <2>5 DEF GuardInv
<1> QED BY <1>2, <1>3, <1>4

\* The tool has run; the loop may go round once more.
LEMMA ToolEndsInv == ASSUME GuardAssumption, GuardInv, ToolEnds PROVE GuardInv'
<1>1. call.phase = "invoking" /\ UNCHANGED <<config, registry, cleared>> /\ trace' = After(trace)
  BY DEF ToolEnds
<1>2. call \in CallType /\ trace \in TraceType /\ MaxAttempts \in Nat \ {0}
  BY DEF GuardInv, Types, GuardAssumption
<1>3. call.attempt \in 0..MaxAttempts /\ trace.counted \in 0..MaxAttempts
  BY <1>2 DEF CallType, TraceType
<1>4. ~trace.lost /\ call.attempt > 0 /\ trace.counted = call.attempt - 1
  BY <1>1 DEF GuardInv, Tracing
<1>5. trace.counted + 1 = call.attempt
  BY <1>3, <1>4
<1>6. trace' \in TraceType /\ ~trace'.open /\ ~trace'.lost /\ trace'.counted = call.attempt
  BY <1>1, <1>2, <1>3, <1>4, <1>5 DEF After, TraceType
<1>7. \/ call' = [call EXCEPT !.phase = "returned"]
      \/ /\ call.path = "tool_loop" /\ call.attempt < MaxAttempts
         /\ call' = [call EXCEPT !.phase = "hook"]
  BY DEF ToolEnds
<1>8. CASE call' = [call EXCEPT !.phase = "returned"]
  <2>1. call' \in CallType /\ call'.attempt = call.attempt /\ call'.phase = "returned"
    BY <1>2, <1>8 DEF CallType, CallPhases
  <2>2. Types'
    BY <1>1, <1>6, <2>1 DEF GuardInv, Types
  <2>3. GatesPassed'
    BY <2>1 DEF GatesPassed
  <2>4. trace'.counted = IF call'.attempt = 0 THEN 1 ELSE call'.attempt
    BY <1>3, <1>4, <1>6, <2>1
  <2>5. Tracing'
    BY <1>6, <2>1, <2>4 DEF Tracing
  <2> QED BY <2>2, <2>3, <2>5 DEF GuardInv
<1>9. CASE /\ call.path = "tool_loop" /\ call.attempt < MaxAttempts
           /\ call' = [call EXCEPT !.phase = "hook"]
  <2>1. call' \in CallType /\ call'.attempt = call.attempt /\ call'.phase = "hook" /\ call'.path = "tool_loop"
    BY <1>2, <1>9 DEF CallType, CallPhases
  <2>2. Types'
    BY <1>1, <1>6, <2>1 DEF GuardInv, Types
  <2>3. GatesPassed'
    BY <2>1 DEF GatesPassed
  <2>4. Tracing'
    BY <1>6, <1>9, <2>1 DEF Tracing
  <2> QED BY <2>2, <2>3, <2>4 DEF GuardInv
<1> QED BY <1>7, <1>8, <1>9

\* The call is broken off.
LEMMA RaisesInv == ASSUME GuardAssumption, GuardInv, Raises PROVE GuardInv'
<1>1. call \in CallType
  BY DEF GuardInv, Types
<1>2. call' \in CallType /\ call'.phase = "raised" /\ UNCHANGED <<config, registry, cleared, trace>>
  BY <1>1 DEF Raises, CallType, CallPhases
<1>3. Types'
  BY <1>2 DEF GuardInv, Types
<1>4. GatesPassed' /\ Tracing'
  BY <1>2 DEF GatesPassed, Tracing
<1> QED BY <1>3, <1>4 DEF GuardInv

\* The registry moves on by itself: what was asked of it before stays in the call.
LEMMA ReregisterInv == ASSUME GuardInv, Reregister \/ UNCHANGED vars PROVE GuardInv'
<1>1. UNCHANGED <<config, call, cleared, trace>> /\ registry' \in Requirements
  BY DEF Reregister, vars, GuardInv, Types
<1>2. Types'
  BY <1>1 DEF GuardInv, Types
<1>3. GatesPassed' /\ Tracing'
  BY <1>1 DEF GuardInv, GatesPassed, Tracing, Unopposed
<1> QED BY <1>2, <1>3 DEF GuardInv

\* Whatever step a call or the registry takes.
LEMMA GuardStep == ASSUME GuardAssumption, GuardInv, [Next]_vars PROVE GuardInv'
BY BeginInv, BeforeToolInv, PreflightInv, GateInv, ApproveInv, ToolEndsInv, RaisesInv,
   ReregisterInv DEF Next

\* What the inductive invariant is for.
LEMMA GuardHolds == ASSUME GuardInv PROVE TypeOK /\ OnlyCleared /\ SpansClose
<1>1. OnlyCleared
  BY DEF GuardInv, GatesPassed, Unopposed, OnlyCleared
<1>2. SpansClose
  BY DEF GuardInv, Tracing, SpansClose
<1>3. TypeOK
  BY DEF GuardInv, Types, TypeOK, ConfigType, CallType, CallPhases, TraceType
<1> QED BY <1>1, <1>2, <1>3

\* A tool runs only when in this attempt no hook that is enforced spoke against it,
\* trust and policy were checked, and whatever asked for approval got it
\* (run_tool_loop, _execute_step_via_custom_executor).
THEOREM ToolsAreCleared == ASSUME GuardAssumption PROVE Spec => []OnlyCleared
<1>1. Init => GuardInv
  BY GuardInit
<1>2. GuardInv /\ [Next]_vars => GuardInv'
  BY GuardStep
<1>3. GuardInv => OnlyCleared
  BY GuardHolds
<1> QED BY <1>1, <1>2, <1>3, PTL DEF Spec

\* A call that has returned left no span open and lost none, and each of its
\* attempts was counted (_on_before_tool, _on_after_tool).
THEOREM SpansAreClosed == ASSUME GuardAssumption PROVE Spec => []SpansClose
<1>1. Init => GuardInv
  BY GuardInit
<1>2. GuardInv /\ [Next]_vars => GuardInv'
  BY GuardStep
<1>3. GuardInv => SpansClose
  BY GuardHolds
<1> QED BY <1>1, <1>2, <1>3, PTL DEF Spec

-----------------------------------------------------------------------------
(* PlanTools.                                                                *)

PlannerStep == [id : Planner!Ids \union {Planner!NoId}, state : Planner!StepStates]

PlannerParameters ==
    /\ \A p \in Proposals : p \in Seq(Planner!Ids \union {Planner!NoId})
    /\ "none" \notin Planner!Ids

\* A plan is a record of these fields.
PlannerRecord(p) ==
    p = [steps |-> p.steps, status |-> p.status, completed |-> p.completed,
         validated |-> p.validated, block |-> p.block]

\* What a plan is before its block is written: no id twice, and nothing open in a plan
\* that is over.
PlannerSound(p) ==
    /\ PlannerRecord(p)
    /\ p.steps \in Seq(PlannerStep) /\ p.status \in Planner!StepStates /\ p.validated \in BOOLEAN
    /\ \A i, j \in DOMAIN p.steps : p.steps[i].id = p.steps[j].id /\ p.steps[i].id # Planner!NoId => i = j
    /\ p.status \in Planner!TerminalStates => p.steps # <<>> /\ Planner!Pending(p) = {}

\* The block shows the plan as it is.
PlannerShown(p) ==
    /\ p.completed = Planner!Done(p.steps)
    /\ p.block.steps = p.steps /\ p.block.next = Planner!Advice(p)

PlannerNotes ==
    /\ goals \in [milestones : SUBSET Milestones, current : Milestones \union {"none"},
                  unmet : BOOLEAN, reflected : BOOLEAN]
    /\ delegation \in [Delegations -> Planner!Ids \union {"none"}]

PlannerInv == PlannerSound(plan) /\ PlannerShown(plan) /\ PlannerNotes

-----------------------------------------------------------------------------

\* A plan with one field changed.
PlannerFields(a, b, c, d, e) ==
    [steps |-> a, status |-> b, completed |-> c, validated |-> d, block |-> e]

LEMMA PlannerSet ==
    ASSUME NEW a, NEW b, NEW c, NEW d, NEW e, NEW q, q = PlannerFields(a, b, c, d, e)
    PROVE  /\ \A x : [q EXCEPT !.steps = x] = PlannerFields(x, b, c, d, e)
           /\ \A x : [q EXCEPT !.status = x] = PlannerFields(a, x, c, d, e)
           /\ \A x : [q EXCEPT !.completed = x] = PlannerFields(a, b, x, d, e)
           /\ \A x : [q EXCEPT !.validated = x] = PlannerFields(a, b, c, x, e)
  BY DEF PlannerFields

LEMMA PlannerWithAll ==
    ASSUME NEW p, PlannerRecord(p), NEW steps, NEW status, NEW completed, NEW validated
    PROVE  [p EXCEPT !.steps = steps, !.status = status, !.completed = completed, !.validated = validated]
             = PlannerFields(steps, status, completed, validated, p.block)
  <1>1. p = PlannerFields(p.steps, p.status, p.completed, p.validated, p.block)
    BY DEF PlannerRecord, PlannerFields
  <1>2. PICK q : q = [p EXCEPT !.steps = steps]
    OBVIOUS
  <1>3. q = PlannerFields(steps, p.status, p.completed, p.validated, p.block)
    BY <1>1, <1>2, PlannerSet
  <1>4. PICK r : r = [q EXCEPT !.status = status]
    OBVIOUS
  <1>5. r = PlannerFields(steps, status, p.completed, p.validated, p.block)
    BY <1>3, <1>4, PlannerSet
  <1>6. PICK s : s = [r EXCEPT !.completed = completed]
    OBVIOUS
  <1>7. s = PlannerFields(steps, status, completed, p.validated, p.block)
    BY <1>5, <1>6, PlannerSet
  <1>8. [s EXCEPT !.validated = validated] = PlannerFields(steps, status, completed, validated, p.block)
    BY <1>7, PlannerSet
  <1> QED BY <1>2, <1>4, <1>6, <1>8, Zenon

LEMMA PlannerWithSteps ==
    ASSUME NEW p, PlannerRecord(p), NEW steps, NEW status, NEW validated
    PROVE  [p EXCEPT !.steps = steps, !.status = status, !.validated = validated]
             = PlannerFields(steps, status, p.completed, validated, p.block)
  <1>1. p = PlannerFields(p.steps, p.status, p.completed, p.validated, p.block)
    BY DEF PlannerRecord, PlannerFields
  <1>2. PICK q : q = [p EXCEPT !.steps = steps]
    OBVIOUS
  <1>3. q = PlannerFields(steps, p.status, p.completed, p.validated, p.block)
    BY <1>1, <1>2, PlannerSet
  <1>4. PICK r : r = [q EXCEPT !.status = status]
    OBVIOUS
  <1>5. r = PlannerFields(steps, status, p.completed, p.validated, p.block)
    BY <1>3, <1>4, PlannerSet
  <1>6. [r EXCEPT !.validated = validated] = PlannerFields(steps, status, p.completed, validated, p.block)
    BY <1>5, PlannerSet
  <1> QED BY <1>2, <1>4, <1>6, Zenon

LEMMA PlannerWithVerdict ==
    ASSUME NEW p, PlannerRecord(p), NEW validated, NEW status
    PROVE  [p EXCEPT !.validated = validated, !.status = status]
             = PlannerFields(p.steps, status, p.completed, validated, p.block)
  <1>1. p = PlannerFields(p.steps, p.status, p.completed, p.validated, p.block)
    BY DEF PlannerRecord, PlannerFields
  <1>2. PICK q : q = [p EXCEPT !.validated = validated]
    OBVIOUS
  <1>3. q = PlannerFields(p.steps, p.status, p.completed, validated, p.block)
    BY <1>1, <1>2, PlannerSet
  <1>4. [q EXCEPT !.status = status] = PlannerFields(p.steps, status, p.completed, validated, p.block)
    BY <1>3, PlannerSet
  <1> QED BY <1>2, <1>4, Zenon

LEMMA PlannerWithStatus ==
    ASSUME NEW p, PlannerRecord(p), NEW status, NEW validated
    PROVE  [p EXCEPT !.status = status, !.validated = validated]
             = PlannerFields(p.steps, status, p.completed, validated, p.block)
  <1>1. p = PlannerFields(p.steps, p.status, p.completed, p.validated, p.block)
    BY DEF PlannerRecord, PlannerFields
  <1>2. PICK q : q = [p EXCEPT !.status = status]
    OBVIOUS
  <1>3. q = PlannerFields(p.steps, status, p.completed, p.validated, p.block)
    BY <1>1, <1>2, PlannerSet
  <1>4. [q EXCEPT !.validated = validated] = PlannerFields(p.steps, status, p.completed, validated, p.block)
    BY <1>3, PlannerSet
  <1> QED BY <1>2, <1>4, Zenon

LEMMA PlannerWithEnd ==
    ASSUME NEW p, PlannerRecord(p), NEW status, NEW steps
    PROVE  [p EXCEPT !.status = status, !.steps = steps]
             = PlannerFields(steps, status, p.completed, p.validated, p.block)
  <1>1. p = PlannerFields(p.steps, p.status, p.completed, p.validated, p.block)
    BY DEF PlannerRecord, PlannerFields
  <1>2. PICK q : q = [p EXCEPT !.status = status]
    OBVIOUS
  <1>3. q = PlannerFields(p.steps, status, p.completed, p.validated, p.block)
    BY <1>1, <1>2, PlannerSet
  <1>4. [q EXCEPT !.steps = steps] = PlannerFields(steps, status, p.completed, p.validated, p.block)
    BY <1>3, PlannerSet
  <1> QED BY <1>2, <1>4, Zenon

\* The advice depends on steps, status and verdict alone.
LEMMA PlannerAdvice ==
    ASSUME NEW p, NEW q, p.steps = q.steps, p.status = q.status, p.validated = q.validated
    PROVE  Planner!Advice(p) = Planner!Advice(q)
  <1>1. Planner!Pending(p) = Planner!Pending(q)
    BY DEF Planner!Pending
  <1>2. (\E s \in Planner!Range(p.steps) : s.state = "abandoned" /\ Planner!Named(s))
        <=> (\E s \in Planner!Range(q.steps) : s.state = "abandoned" /\ Planner!Named(s))
    OBVIOUS
  <1> QED BY <1>1, <1>2, Zenon DEF Planner!Advice

\* What Shown makes of a plan.
LEMMA PlannerShows ==
    ASSUME NEW p, PlannerSound(p)
    PROVE  /\ PlannerSound(Planner!Shown(p)) /\ PlannerShown(Planner!Shown(p))
           /\ Planner!Shown(p).steps = p.steps /\ Planner!Shown(p).status = p.status
  <1> DEFINE s == Planner!Synced(p)
             b == Planner!Block(p)
             t == Planner!Shown(p)
  <1>1. s = [steps |-> p.steps, status |-> p.status, completed |-> Planner!Done(p.steps),
             validated |-> p.validated, block |-> p.block]
    BY DEF Planner!Synced, PlannerSound, PlannerRecord
  <1>2. b.steps = p.steps /\ b.next = Planner!Advice(p)
    BY DEF Planner!Block
  <1>3. t = [s EXCEPT !.block = b]
    BY Zenon DEF Planner!Shown
  <1> HIDE DEF s, b, t
  <1>4. t = [steps |-> p.steps, status |-> p.status, completed |-> Planner!Done(p.steps),
             validated |-> p.validated, block |-> b]
    BY <1>1, <1>3
  <1>5. /\ t.steps = p.steps /\ t.status = p.status /\ t.validated = p.validated
        /\ t.completed = Planner!Done(p.steps) /\ t.block = b
    BY <1>4
  <1>6. Planner!Advice(p) = Planner!Advice(t)
    BY <1>5, PlannerAdvice
  <1>7. PlannerShown(t)
    BY <1>2, <1>5, <1>6 DEF PlannerShown
  <1>8. PlannerRecord(t)
    BY <1>4, <1>5 DEF PlannerRecord
  <1>9. Planner!Pending(t) = Planner!Pending(p)
    BY <1>5 DEF Planner!Pending
  <1>10. PlannerSound(t)
    BY <1>5, <1>8, <1>9 DEF PlannerSound
  <1> QED BY <1>5, <1>7, <1>10 DEF t

LEMMA PlannerInit == ASSUME PlannerParameters, Planner!Init PROVE PlannerInv
  <1> USE DEF Planner!Init
  <1>1. /\ plan.steps = <<>> /\ plan.status = "todo" /\ plan.completed = {}
        /\ plan.validated = FALSE /\ PlannerRecord(plan)
        /\ plan.block.steps = <<>> /\ plan.block.next = [call |-> "create_plan"]
    BY DEF Planner!EmptyPlan, PlannerRecord
  <1>2. PlannerSound(plan)
    <2>1. <<>> \in Seq(PlannerStep)
      OBVIOUS
    <2>2. plan.steps \in Seq(PlannerStep)
      BY <1>1, <2>1
    <2>3. /\ plan.status \in Planner!StepStates /\ plan.validated \in BOOLEAN
          /\ plan.status \notin Planner!TerminalStates
      BY <1>1 DEF Planner!StepStates, Planner!TerminalStates
    <2>4. \A i, j \in DOMAIN plan.steps : i = j
      BY <1>1
    <2> QED BY <1>1, <2>2, <2>3, <2>4 DEF PlannerSound
  <1>3. Planner!Done(plan.steps) = {}
    <2>1. Planner!Range(plan.steps) = {}
      BY <1>1 DEF Planner!Range
    <2> QED BY <2>1 DEF Planner!Done
  <1>4. Planner!Advice(plan) = [call |-> "create_plan"]
    BY <1>1, Zenon DEF Planner!Advice
  <1>5. PlannerNotes
    BY DEF PlannerNotes
  <1> QED BY <1>1, <1>2, <1>3, <1>4, <1>5 DEF PlannerInv, PlannerShown

\* A step that is done or abandoned stays what it is, whatever else becomes of the list.
PlannerKeeps(p, q) ==
    /\ p.status \in Planner!TerminalStates => q.status = p.status /\ q.steps = p.steps
    /\ \A i \in DOMAIN p.steps, j \in DOMAIN q.steps :
          (p.steps[i].id = q.steps[j].id /\ p.steps[i].id # Planner!NoId
           /\ p.steps[i].state \in Planner!TerminalStates)
            => q.steps[j].state = p.steps[i].state

\* A step of the planner, once it is known what it makes of the plan.
LEMMA PlannerMoves ==
    ASSUME PlannerInv, PlannerNotes', NEW q, PlannerSound(q), PlannerKeeps(plan, q),
           plan' = Planner!Shown(q)
    PROVE  PlannerInv' /\ Planner!FinishedStays
  <1>1. /\ PlannerSound(plan') /\ PlannerShown(plan')
        /\ plan'.steps = q.steps /\ plan'.status = q.status
    BY PlannerShows
  <1>2. Planner!FinishedStays
    BY <1>1 DEF PlannerKeeps, Planner!FinishedStays
  <1>3. PlannerSound(plan)' /\ PlannerShown(plan)'
    BY <1>1 DEF PlannerSound, PlannerShown, PlannerRecord, Planner!Pending, Planner!Advice
  <1> QED BY <1>2, <1>3 DEF PlannerInv

\* A list that is the old one but for one step, or is the old one.
LEMMA PlannerSameSteps ==
    ASSUME PlannerInv, NEW q, q.steps = plan.steps,
           plan.status \in Planner!TerminalStates => q.status = plan.status
    PROVE  PlannerKeeps(plan, q)
  <1>1. \A i, j \in DOMAIN plan.steps :
            plan.steps[i].id = plan.steps[j].id /\ plan.steps[i].id # Planner!NoId => i = j
    BY DEF PlannerInv, PlannerSound
  <1> QED BY <1>1 DEF PlannerKeeps

LEMMA PlannerCreate == ASSUME PlannerParameters, PlannerInv, Planner!Create
                       PROVE  PlannerInv' /\ Planner!FinishedStays
  <1> USE DEF PlannerInv
  <1>1. PICK ids \in Proposals :
            /\ Planner!Distinct(ids)
            /\ plan' = Planner!Shown([plan EXCEPT
                  !.steps = [i \in DOMAIN ids |-> [id |-> ids[i], state |-> "todo"]],
                  !.status = "todo", !.completed = {}, !.validated = FALSE])
    BY Zenon DEF Planner!Create
  <1>2. plan.steps = <<>> /\ goals' = goals /\ delegation' = delegation
    BY DEF Planner!Create
  <1> DEFINE new == [i \in DOMAIN ids |-> [id |-> ids[i], state |-> "todo"]]
             q == [steps |-> new, status |-> "todo", completed |-> {}, validated |-> FALSE,
                   block |-> plan.block]
  <1>3. plan' = Planner!Shown(q)
    <2>1. PlannerRecord(plan)
      BY DEF PlannerSound
    <2> HIDE DEF new
    <2>2. [plan EXCEPT !.steps = new, !.status = "todo", !.completed = {}, !.validated = FALSE]
            = PlannerFields(new, "todo", {}, FALSE, plan.block)
      BY <2>1, PlannerWithAll, Zenon
    <2> QED BY <1>1, <2>2, Zenon DEF PlannerFields, new
  <1>4. new \in Seq(PlannerStep)
    <2>1. ids \in Seq(Planner!Ids \union {Planner!NoId})
      BY DEF PlannerParameters
    <2>2. \A i \in DOMAIN ids : [id |-> ids[i], state |-> "todo"] \in PlannerStep
      BY <2>1 DEF PlannerStep, Planner!StepStates
    <2>3. DOMAIN ids = 1..Len(ids) /\ Len(ids) \in Nat
      BY <2>1
    <2> QED BY <2>2, <2>3
  <1>5. \A i, j \in DOMAIN new : new[i].id = new[j].id /\ new[i].id # Planner!NoId => i = j
    BY <1>1 DEF Planner!Distinct
  <1> HIDE DEF new
  <1>6. PlannerSound(q)
    BY <1>4, <1>5 DEF PlannerSound, PlannerRecord, Planner!StepStates, Planner!TerminalStates
  <1>7. PlannerKeeps(plan, q)
    BY <1>2 DEF PlannerKeeps, PlannerSound
  <1>8. PlannerNotes'
    BY <1>2 DEF PlannerNotes
  <1> HIDE DEF q
  <1> QED BY <1>3, <1>6, <1>7, <1>8, PlannerMoves

LEMMA PlannerValidate == ASSUME PlannerParameters, PlannerInv, Planner!Validate
                         PROVE  PlannerInv' /\ Planner!FinishedStays
  <1> USE DEF PlannerInv
  <1>1. PICK ok \in BOOLEAN :
            plan' = Planner!Shown([plan EXCEPT
                      !.validated = ok,
                      !.status = IF ok /\ @ = "todo" THEN "in_progress" ELSE @])
    BY Zenon DEF Planner!Validate
  <1>2. goals' = goals /\ delegation' = delegation
    BY DEF Planner!Validate
  <1> DEFINE status == IF ok /\ plan.status = "todo" THEN "in_progress" ELSE plan.status
             q == [steps |-> plan.steps, status |-> status, completed |-> plan.completed,
                   validated |-> ok, block |-> plan.block]
  <1>3. plan' = Planner!Shown(q)
    <2>1. PlannerRecord(plan)
      BY DEF PlannerSound
    <2>2. plan' = Planner!Shown([plan EXCEPT !.validated = ok, !.status = status])
      BY <1>1, Zenon
    <2> HIDE DEF status
    <2>3. [plan EXCEPT !.validated = ok, !.status = status]
            = PlannerFields(plan.steps, status, plan.completed, ok, plan.block)
      BY <2>1, PlannerWithVerdict, Zenon
    <2> QED BY <2>2, <2>3, Zenon DEF PlannerFields
  <1>4. /\ status \in Planner!StepStates
        /\ (status \in Planner!TerminalStates <=> plan.status \in Planner!TerminalStates)
        /\ plan.status \in Planner!TerminalStates => status = plan.status
    BY DEF PlannerSound, Planner!StepStates, Planner!TerminalStates
  <1> HIDE DEF status
  <1>5. Planner!Pending(q) = Planner!Pending(plan)
    BY DEF Planner!Pending
  <1>6. PlannerSound(q)
    BY <1>4, <1>5 DEF PlannerSound, PlannerRecord
  <1>7. PlannerKeeps(plan, q)
    BY <1>4, PlannerSameSteps
  <1>8. PlannerNotes'
    BY <1>2 DEF PlannerNotes
  <1> HIDE DEF q
  <1> QED BY <1>3, <1>6, <1>7, <1>8, PlannerMoves

\* A named step is the only one of its name.
LEMMA PlannerAt ==
    ASSUME NEW p, PlannerSound(p), NEW i \in DOMAIN p.steps, p.steps[i].id # Planner!NoId
    PROVE  Planner!At(p, p.steps[i].id) = {i}
  BY DEF PlannerSound, Planner!At, Planner!Named

\* What a step of the old plan starts a revised plan with.
LEMMA PlannerKept ==
    ASSUME NEW p, PlannerSound(p), NEW id
    PROVE  /\ Planner!Kept(p, id) \in Planner!StepStates
           /\ \A i \in DOMAIN p.steps :
                 p.steps[i].id = id /\ id # Planner!NoId /\ p.steps[i].state \in Planner!TerminalStates
                 => Planner!Kept(p, id) = p.steps[i].state
  <1>1. \A i \in DOMAIN p.steps : p.steps[i].state \in Planner!StepStates
    <2>1. \A i \in DOMAIN p.steps : p.steps[i] \in PlannerStep
      BY DEF PlannerSound
    <2> QED BY <2>1 DEF PlannerStep
  <1>2. Planner!Kept(p, id) \in Planner!StepStates
    <2>1. CASE \E i \in Planner!At(p, id) : p.steps[i].state \in Planner!TerminalStates
      <3> DEFINE c == CHOOSE i \in Planner!At(p, id) : TRUE
      <3>1. c \in Planner!At(p, id)
        BY <2>1
      <3>2. c \in DOMAIN p.steps
        BY <3>1 DEF Planner!At
      <3>3. Planner!Kept(p, id) = p.steps[c].state
        BY <2>1, Zenon DEF Planner!Kept
      <3> QED BY <1>1, <3>2, <3>3
    <2>2. CASE ~\E i \in Planner!At(p, id) : p.steps[i].state \in Planner!TerminalStates
      <3>1. Planner!Kept(p, id) = "todo"
        BY <2>2, Zenon DEF Planner!Kept
      <3> QED BY <3>1 DEF Planner!StepStates
    <2> QED BY <2>1, <2>2
  <1>3. ASSUME NEW i \in DOMAIN p.steps, p.steps[i].id = id, id # Planner!NoId,
               p.steps[i].state \in Planner!TerminalStates
        PROVE  Planner!Kept(p, id) = p.steps[i].state
    <2>1. Planner!At(p, id) = {i}
      BY <1>3, PlannerAt
    <2>2. (CHOOSE j \in Planner!At(p, id) : TRUE) = i
      BY <2>1
    <2> QED BY <1>3, <2>1, <2>2, Zenon DEF Planner!Kept
  <1> QED BY <1>2, <1>3

LEMMA PlannerRevise == ASSUME PlannerParameters, PlannerInv, Planner!Revise
                       PROVE  PlannerInv' /\ Planner!FinishedStays
  <1> USE DEF PlannerInv
  <1>1. /\ plan.status \notin Planner!TerminalStates /\ goals' = goals
        /\ delegation' = delegation
    BY Zenon DEF Planner!Revise
  <1>2. PlannerNotes' /\ PlannerRecord(plan)
    BY <1>1 DEF PlannerNotes, PlannerSound
  <1>3. CASE plan' = Planner!Shown([plan EXCEPT !.status = "todo", !.validated = FALSE])
    <2> DEFINE q == PlannerFields(plan.steps, "todo", plan.completed, FALSE, plan.block)
    <2>1. plan' = Planner!Shown(q)
      <3>1. [plan EXCEPT !.status = "todo", !.validated = FALSE] = q
        BY <1>2, PlannerWithStatus, Zenon
      <3> QED BY <1>3, <3>1, Zenon
    <2>2. PlannerSound(q)
      <3>1. /\ q.steps = plan.steps /\ q.status = "todo" /\ q.validated = FALSE
            /\ PlannerRecord(q)
        BY DEF PlannerFields, PlannerRecord
      <3> HIDE DEF q
      <3> QED BY <3>1 DEF PlannerSound, Planner!StepStates, Planner!TerminalStates
    <2>3. PlannerKeeps(plan, q)
      <3>1. q.steps = plan.steps
        BY DEF PlannerFields
      <3> HIDE DEF q
      <3> QED BY <1>1, <3>1, PlannerSameSteps
    <2> HIDE DEF q
    <2> QED BY <1>2, <2>1, <2>2, <2>3, PlannerMoves
  <1>4. ASSUME NEW ids \in Proposals \union {<<>>}, Planner!Distinct(ids),
               NEW at \in Planner!NamedIn(ids),
               plan' = Planner!Shown([plan EXCEPT
                        !.steps = [k \in DOMAIN at |->
                             [id |-> ids[at[k]], state |-> Planner!Kept(plan, ids[at[k]])]],
                        !.status = "todo", !.validated = FALSE])
        PROVE  PlannerInv' /\ Planner!FinishedStays
    <2> DEFINE new == [k \in DOMAIN at |->
                          [id |-> ids[at[k]], state |-> Planner!Kept(plan, ids[at[k]])]]
               q == PlannerFields(new, "todo", plan.completed, FALSE, plan.block)
    <2>1. ids \in Seq(Planner!Ids \union {Planner!NoId})
      <3>1. CASE ids \in Proposals
        BY <3>1, Zenon DEF PlannerParameters
      <3>2. CASE ids = <<>>
        BY <3>2
      <3> QED BY <1>4, <3>1, <3>2
    <2>2. PICK n \in 0..Len(ids) : at \in [1..n -> DOMAIN ids]
      BY DEF Planner!NamedIn
    <2>3. /\ \A k \in DOMAIN at : ids[at[k]] # Planner!NoId /\ at[k] \in DOMAIN ids /\ at[k] \in Int
          /\ \A k, l \in DOMAIN at : k < l => at[k] < at[l]
      <3>1. Planner!Range(at) = {i \in DOMAIN ids : ids[i] # Planner!NoId}
        BY DEF Planner!NamedIn
      <3>2. \A k \in DOMAIN at : at[k] \in Planner!Range(at)
        BY DEF Planner!Range
      <3>3. \A k, l \in DOMAIN at : k < l => at[k] < at[l]
        BY DEF Planner!NamedIn
      <3> QED BY <2>1, <3>1, <3>2, <3>3
    <2>4. \A k \in DOMAIN at : ids[at[k]] \in Planner!Ids
      BY <2>1, <2>3
    <2>5. n \in Nat /\ DOMAIN at = 1..n
      BY <2>1, <2>2
    <2>6. /\ new \in Seq(PlannerStep) /\ DOMAIN new = DOMAIN at
          /\ \A k \in DOMAIN at : new[k].id = ids[at[k]]
                                  /\ new[k].state = Planner!Kept(plan, ids[at[k]])
      <3>1. \A k \in DOMAIN at : new[k] \in PlannerStep
        BY <2>4, PlannerKept DEF PlannerStep
      <3> QED BY <2>5, <3>1
    <2>7. \A k, l \in DOMAIN at : new[k].id = new[l].id => k = l
      <3> SUFFICES ASSUME NEW k \in DOMAIN at, NEW l \in DOMAIN at, new[k].id = new[l].id
                   PROVE  k = l
        OBVIOUS
      <3>1. at[k] = at[l]
        BY <1>4, <2>3, <2>6 DEF Planner!Distinct
      <3>2. k \in Nat /\ l \in Nat
        BY <2>5
      <3>3. ~(k < l) /\ ~(l < k)
        BY <2>3, <3>1
      <3> QED BY <3>2, <3>3
    <2> HIDE DEF new
    <2>8. plan' = Planner!Shown(q)
      <3>1. [plan EXCEPT !.steps = new, !.status = "todo", !.validated = FALSE] = q
        BY <1>2, PlannerWithSteps, Zenon
      <3> QED BY <1>4, <3>1, Zenon DEF new
    <2>9. /\ q.steps = new /\ q.status = "todo" /\ q.validated = FALSE /\ PlannerRecord(q)
      BY DEF PlannerFields, PlannerRecord
    <2> HIDE DEF q
    <2>10. PlannerSound(q)
      BY <2>6, <2>7, <2>9 DEF PlannerSound, Planner!StepStates, Planner!TerminalStates
    <2>11. PlannerKeeps(plan, q)
      <3> SUFFICES ASSUME NEW i \in DOMAIN plan.steps, NEW j \in DOMAIN new,
                          plan.steps[i].id = new[j].id, plan.steps[i].id # Planner!NoId,
                          plan.steps[i].state \in Planner!TerminalStates
                   PROVE  new[j].state = plan.steps[i].state
        BY <1>1, <2>9 DEF PlannerKeeps
      <3>1. new[j].state = Planner!Kept(plan, plan.steps[i].id)
        BY <2>6
      <3> QED BY <3>1, PlannerKept
    <2> QED BY <1>2, <2>8, <2>10, <2>11, PlannerMoves
  <1> QED BY <1>3, <1>4, Zenon DEF Planner!Revise

LEMMA PlannerFinish == ASSUME PlannerParameters, PlannerInv, Planner!Finish
                       PROVE  PlannerInv' /\ Planner!FinishedStays
  <1> USE DEF PlannerInv
  <1> DEFINE Closed(target) ==
               [i \in DOMAIN plan.steps |->
                  IF target = "abandoned" /\ i \in Planner!Pending(plan)
                  THEN [plan.steps[i] EXCEPT !.state = "abandoned"] ELSE plan.steps[i]]
  <1>1. PICK target \in Planner!TerminalStates :
            /\ Planner!MayFinish(plan, target)
            /\ plan' = Planner!Shown([plan EXCEPT !.status = target, !.steps = Closed(target)])
    BY Zenon DEF Planner!Finish
  <1>2. PlannerNotes'
    <2>1. PICK summary \in BOOLEAN :
              goals' = [goals EXCEPT !.reflected = goals.reflected \/ summary]
      BY Zenon DEF Planner!Finish
    <2>2. delegation' = delegation
      BY DEF Planner!Finish
    <2>3. goals.reflected \/ summary \in BOOLEAN
      OBVIOUS
    <2> QED BY <2>1, <2>2, <2>3 DEF PlannerNotes
  <1> DEFINE new == Closed(target)
             q == PlannerFields(new, target, plan.completed, plan.validated, plan.block)
  <1>3. \A i \in DOMAIN plan.steps : plan.steps[i] \in PlannerStep
    BY DEF PlannerSound
  <1>4. /\ DOMAIN new = DOMAIN plan.steps
        /\ \A i \in DOMAIN plan.steps :
              /\ new[i] \in PlannerStep /\ new[i].id = plan.steps[i].id
              /\ i \notin Planner!Pending(plan) => new[i] = plan.steps[i]
              /\ new[i].state = IF target = "abandoned" /\ i \in Planner!Pending(plan)
                                THEN "abandoned" ELSE plan.steps[i].state
    <2>1. \A s \in PlannerStep : /\ [s EXCEPT !.state = "abandoned"] \in PlannerStep
                                 /\ [s EXCEPT !.state = "abandoned"].id = s.id
                                 /\ [s EXCEPT !.state = "abandoned"].state = "abandoned"
      BY DEF PlannerStep, Planner!StepStates, Planner!TerminalStates
    <2> QED BY <1>3, <2>1
  <1>5. new \in Seq(PlannerStep)
    <2>1. plan.steps \in Seq(PlannerStep)
      BY DEF PlannerSound
    <2>2. DOMAIN new = 1..Len(plan.steps) /\ Len(plan.steps) \in Nat
      BY <1>4, <2>1
    <2>3. \A i \in 1..Len(plan.steps) : new[i] \in PlannerStep
      BY <1>4, <2>2
    <2>4. new = [i \in 1..Len(plan.steps) |-> new[i]]
      BY <2>2
    <2> HIDE DEF new
    <2> QED BY <2>2, <2>3, <2>4
  <1> HIDE DEF new
  <1>6. plan' = Planner!Shown(q)
    <2>1. PlannerRecord(plan)
      BY DEF PlannerSound
    <2>2. [plan EXCEPT !.status = target, !.steps = new] = q
      BY <2>1, PlannerWithEnd, Zenon
    <2> QED BY <1>1, <2>2, Zenon DEF new
  <1>7. /\ q.steps = new /\ q.status = target /\ q.validated = plan.validated /\ PlannerRecord(q)
    BY DEF PlannerFields, PlannerRecord
  <1> HIDE DEF q
  <1>8. \A i \in DOMAIN new : new[i].state \in Planner!TerminalStates
    <2>1. target = "done" => Planner!Pending(plan) = {}
      BY <1>1 DEF Planner!MayFinish
    <2>2. target = "abandoned" \/ target = "done"
      BY DEF Planner!TerminalStates
    <2>3. "abandoned" \in Planner!TerminalStates
      BY DEF Planner!TerminalStates
    <2>4. \A i \in DOMAIN plan.steps :
              i \notin Planner!Pending(plan) => plan.steps[i].state \in Planner!TerminalStates
      BY DEF Planner!Pending
    <2> QED BY <1>4, <2>1, <2>2, <2>3, <2>4
  <1>9. PlannerSound(q)
    <2>1. Planner!Pending(q) = {}
      BY <1>7, <1>8 DEF Planner!Pending
    <2>2. new # <<>>
      <3>1. plan.steps # <<>> /\ plan.steps \in Seq(PlannerStep)
        BY <1>1 DEF Planner!MayFinish, PlannerSound
      <3>2. 1 \in DOMAIN plan.steps
        BY <3>1
      <3> QED BY <1>4, <3>2
    <2>3. \A i, j \in DOMAIN new : new[i].id = new[j].id /\ new[i].id # Planner!NoId => i = j
      BY <1>4 DEF PlannerSound
    <2>4. plan.validated \in BOOLEAN /\ target \in Planner!StepStates
      BY DEF PlannerSound, Planner!StepStates
    <2> QED BY <1>5, <1>7, <2>1, <2>2, <2>3, <2>4 DEF PlannerSound
  <1>10. PlannerKeeps(plan, q)
    <2>1. ASSUME plan.status \in Planner!TerminalStates PROVE q.status = plan.status /\ q.steps = plan.steps
      <3>1. q.status = plan.status
        BY <1>1, <1>7, <2>1 DEF Planner!MayFinish, Planner!Allowed, Planner!TerminalStates
      <3>2. Planner!Pending(plan) = {}
        BY <2>1 DEF PlannerSound
      <3>3. /\ \A i \in DOMAIN plan.steps : new[i] = plan.steps[i]
            /\ DOMAIN new = DOMAIN plan.steps
        BY <1>4, <3>2
      <3>4. new = plan.steps
        <4>1. plan.steps \in Seq(PlannerStep)
          BY DEF PlannerSound
        <4> QED BY <1>5, <3>3, <4>1
      <3> QED BY <1>7, <3>1, <3>4
    <2>2. ASSUME NEW i \in DOMAIN plan.steps, NEW j \in DOMAIN new,
                 plan.steps[i].id = new[j].id, plan.steps[i].id # Planner!NoId,
                 plan.steps[i].state \in Planner!TerminalStates
          PROVE  new[j].state = plan.steps[i].state
      <3>1. plan.steps[j].id = plan.steps[i].id /\ j \in DOMAIN plan.steps
        BY <1>4, <2>2
      <3>2. i = j
        BY <2>2, <3>1 DEF PlannerSound
      <3>3. i \notin Planner!Pending(plan)
        BY <2>2 DEF Planner!Pending
      <3> QED BY <1>4, <3>2, <3>3
    <2> QED BY <1>7, <2>1, <2>2 DEF PlannerKeeps
  <1> QED BY <1>2, <1>6, <1>9, <1>10, PlannerMoves

\* A step of one name in another state.
LEMMA PlannerSetStep ==
    ASSUME NEW p, PlannerSound(p), NEW id, NEW state \in Planner!StepStates
    PROVE  LET s == Planner!SetStep(p, id, state)
           IN  /\ PlannerRecord(s) /\ s.status = p.status /\ s.validated = p.validated
               /\ s.completed = p.completed /\ s.block = p.block
               /\ s.steps \in Seq(PlannerStep) /\ DOMAIN s.steps = DOMAIN p.steps
               /\ \A i \in DOMAIN p.steps :
                     /\ s.steps[i].id = p.steps[i].id
                     /\ i \notin Planner!At(p, id) => s.steps[i] = p.steps[i]
                     /\ i \in Planner!At(p, id) => s.steps[i].state = state
  <1> DEFINE new == [i \in DOMAIN p.steps |->
                        IF i \in Planner!At(p, id) THEN [p.steps[i] EXCEPT !.state = state]
                        ELSE p.steps[i]]
             s == Planner!SetStep(p, id, state)
  <1>1. s = [p EXCEPT !.steps = new]
    BY Zenon DEF Planner!SetStep
  <1>2. \A i \in DOMAIN p.steps : p.steps[i] \in PlannerStep
    BY DEF PlannerSound
  <1>3. /\ DOMAIN new = DOMAIN p.steps
        /\ \A i \in DOMAIN p.steps :
              /\ new[i] \in PlannerStep /\ new[i].id = p.steps[i].id
              /\ i \notin Planner!At(p, id) => new[i] = p.steps[i]
              /\ i \in Planner!At(p, id) => new[i].state = state
    <2>1. \A t \in PlannerStep : /\ [t EXCEPT !.state = state] \in PlannerStep
                                 /\ [t EXCEPT !.state = state].id = t.id
                                 /\ [t EXCEPT !.state = state].state = state
      BY DEF PlannerStep
    <2> QED BY <1>2, <2>1
  <1>4. new \in Seq(PlannerStep)
    <2>1. p.steps \in Seq(PlannerStep)
      BY DEF PlannerSound
    <2>2. DOMAIN new = 1..Len(p.steps) /\ Len(p.steps) \in Nat
      BY <1>3, <2>1
    <2>3. \A i \in 1..Len(p.steps) : new[i] \in PlannerStep
      BY <1>3, <2>2
    <2>4. new = [i \in 1..Len(p.steps) |-> new[i]]
      BY <2>2
    <2> HIDE DEF new
    <2> QED BY <2>2, <2>3, <2>4
  <1> HIDE DEF new
  <1>5. s = PlannerFields(new, p.status, p.completed, p.validated, p.block)
    <2>1. p = PlannerFields(p.steps, p.status, p.completed, p.validated, p.block)
      BY DEF PlannerSound, PlannerRecord, PlannerFields
    <2> QED BY <1>1, <2>1, PlannerSet
  <1> HIDE DEF s
  <1>6. /\ s.steps = new /\ s.status = p.status /\ s.completed = p.completed
        /\ s.validated = p.validated /\ s.block = p.block /\ PlannerRecord(s)
    BY <1>5 DEF PlannerFields, PlannerRecord
  <1> QED BY <1>3, <1>4, <1>6, Zenon DEF s

\* Such a plan is as sound as before, while it is not over or nothing is opened.
LEMMA PlannerSetSound ==
    ASSUME PlannerInv, NEW id \in Planner!Ids, NEW state \in Planner!StepStates,
           NEW q, PlannerRecord(q), q.steps = Planner!SetStep(plan, id, state).steps,
           q.validated = plan.validated, q.status \in Planner!StepStates,
           q.status = plan.status
             \/ {q.status, plan.status} \intersect Planner!TerminalStates = {},
           plan.status \in Planner!TerminalStates => state = "done",
           \E i \in Planner!At(plan, id) :
              plan.steps[i].state \in Planner!TerminalStates => plan.steps[i].state = state
    PROVE  PlannerSound(q) /\ PlannerKeeps(plan, q)
  <1> USE DEF PlannerInv
  <1> DEFINE new == Planner!SetStep(plan, id, state).steps
  <1>1. /\ new \in Seq(PlannerStep) /\ DOMAIN new = DOMAIN plan.steps
        /\ \A i \in DOMAIN plan.steps :
              /\ new[i].id = plan.steps[i].id
              /\ i \notin Planner!At(plan, id) => new[i] = plan.steps[i]
              /\ i \in Planner!At(plan, id) => new[i].state = state
    BY PlannerSetStep
  <1> HIDE DEF new
  <1>2. PICK n \in Planner!At(plan, id) :
            plan.steps[n].state \in Planner!TerminalStates => plan.steps[n].state = state
    OBVIOUS
  <1>3. n \in DOMAIN plan.steps /\ plan.steps[n].id = id /\ id # Planner!NoId
    BY <1>2 DEF Planner!At, Planner!Ids
  <1>4. Planner!At(plan, id) = {n}
    BY <1>3, PlannerAt
  <1>5. q.steps = new
    BY DEF new
  <1>6. \A i \in DOMAIN plan.steps :
            plan.steps[i].state \in Planner!TerminalStates => new[i].state = plan.steps[i].state
    BY <1>1, <1>2, <1>4
  <1>7. \A i, j \in DOMAIN plan.steps :
            plan.steps[i].id = plan.steps[j].id /\ plan.steps[i].id # Planner!NoId => i = j
    BY DEF PlannerSound
  <1>8. \A i, j \in DOMAIN plan.steps : (plan.steps[i].id = new[j].id /\ plan.steps[i].id # Planner!NoId
            /\ plan.steps[i].state \in Planner!TerminalStates) => new[j].state = plan.steps[i].state
    BY <1>1, <1>6, <1>7
  <1>9. ASSUME plan.status \in Planner!TerminalStates
        PROVE  new = plan.steps /\ q.status = plan.status
    <2>1. Planner!Pending(plan) = {}
      BY <1>9 DEF PlannerSound
    <2>2. plan.steps[n].state = state
      BY <1>2, <1>3, <2>1 DEF Planner!Pending
    <2>3. plan.steps \in Seq(PlannerStep) /\ plan.steps[n] \in PlannerStep /\ new[n] \in PlannerStep
      BY <1>1, <1>3 DEF PlannerSound
    <2>4. new[n] = plan.steps[n]
      BY <1>1, <1>3, <1>4, <2>2, <2>3 DEF PlannerStep
    <2>5. \A i \in DOMAIN plan.steps : new[i] = plan.steps[i]
      BY <1>1, <1>4, <2>4
    <2>6. new = plan.steps
      BY <1>1, <2>3, <2>5
    <2> QED BY <1>9, <2>6
  <1>10. PlannerKeeps(plan, q)
    BY <1>1, <1>5, <1>8, <1>9 DEF PlannerKeeps
  <1>11. q.status \in Planner!TerminalStates => q.steps # <<>> /\ Planner!Pending(q) = {}
    <2> SUFFICES ASSUME q.status \in Planner!TerminalStates
                 PROVE  q.steps # <<>> /\ Planner!Pending(q) = {}
      OBVIOUS
    <2>1. plan.status \in Planner!TerminalStates
      OBVIOUS
    <2> QED BY <1>5, <1>9, <2>1 DEF PlannerSound, Planner!Pending
  <1> QED BY <1>1, <1>5, <1>7, <1>10, <1>11 DEF PlannerSound

LEMMA PlannerDelegate ==
    ASSUME PlannerParameters, PlannerInv, NEW d \in Delegations, NEW id \in Planner!Ids,
           Planner!Delegate(d, id)
    PROVE  PlannerInv' /\ Planner!FinishedStays
  <1> USE DEF PlannerInv
  <1> DEFINE s == Planner!SetStep(plan, id, "in_progress")
             status == IF plan.status = "todo" THEN "in_progress" ELSE plan.status
             q == [s EXCEPT !.status = IF @ = "todo" THEN "in_progress" ELSE @]
  <1>1. /\ Planner!MayDelegate(plan, id) /\ plan' = Planner!Shown(q) /\ goals' = goals
        /\ delegation' = [delegation EXCEPT ![d] = id]
    BY Zenon DEF Planner!Delegate
  <1>2. PlannerNotes'
    BY <1>1 DEF PlannerNotes
  <1>3. "in_progress" \in Planner!StepStates
    BY DEF Planner!StepStates
  <1>4. /\ PlannerRecord(s) /\ s.status = plan.status /\ s.validated = plan.validated
    BY <1>3, PlannerSetStep
  <1>5. PlannerRecord(q) /\ q.steps = s.steps /\ q.status = status /\ q.validated = plan.validated
    <2> HIDE DEF s
    <2>1. s = PlannerFields(s.steps, s.status, s.completed, s.validated, s.block)
      BY <1>4 DEF PlannerRecord, PlannerFields
    <2>2. q = [s EXCEPT !.status = status]
      BY <1>4
    <2> HIDE DEF q
    <2>3. q = PlannerFields(s.steps, status, s.completed, s.validated, s.block)
      BY <2>1, <2>2, PlannerSet
    <2> QED BY <1>4, <2>3 DEF PlannerFields, PlannerRecord
  <1>6. /\ plan.status \notin Planner!TerminalStates /\ status \notin Planner!TerminalStates
        /\ status \in Planner!StepStates
        /\ \E i \in Planner!At(plan, id) : plan.steps[i].state \notin Planner!TerminalStates
    BY <1>1 DEF Planner!MayDelegate, PlannerSound, Planner!StepStates, Planner!TerminalStates
  <1> HIDE DEF q, status
  <1>7. PlannerSound(q) /\ PlannerKeeps(plan, q)
    <2>1. {q.status, plan.status} \intersect Planner!TerminalStates = {}
      BY <1>5, <1>6
    <2>2. \E i \in Planner!At(plan, id) :
              plan.steps[i].state \in Planner!TerminalStates => plan.steps[i].state = "in_progress"
      BY <1>6
    <2> QED BY <1>3, <1>5, <1>6, <2>1, <2>2, PlannerSetSound
  <1> QED BY <1>1, <1>2, <1>7, PlannerMoves

LEMMA PlannerReturns ==
    ASSUME PlannerParameters, PlannerInv, NEW d \in Delegations,
           Planner!Answered(d) \/ Planner!Raised(d)
    PROVE  PlannerInv' /\ Planner!FinishedStays
  <1> USE DEF PlannerInv
  <1> DEFINE id == delegation[d]
  <1>1. /\ id # "none" /\ goals' = goals /\ delegation' = [delegation EXCEPT ![d] = "none"]
        /\ \/ plan' = Planner!Shown(plan)
           \/ /\ Planner!MayComplete(plan, id)
              /\ plan' = Planner!Shown(Planner!SetStep(plan, id, "done"))
    BY Zenon DEF Planner!Answered, Planner!Raised
  <1>2. PlannerNotes' /\ id \in Planner!Ids
    BY <1>1 DEF PlannerNotes
  <1>3. CASE plan' = Planner!Shown(plan)
    <2>1. PlannerKeeps(plan, plan)
      BY PlannerSameSteps
    <2> QED BY <1>2, <1>3, <2>1, PlannerMoves
  <1>4. CASE Planner!MayComplete(plan, id) /\ plan' = Planner!Shown(Planner!SetStep(plan, id, "done"))
    <2> DEFINE q == Planner!SetStep(plan, id, "done")
    <2>1. "done" \in Planner!StepStates
      BY DEF Planner!StepStates, Planner!TerminalStates
    <2>2. PlannerRecord(q) /\ q.status = plan.status /\ q.validated = plan.validated
      BY <2>1, PlannerSetStep
    <2>3. plan.status \in Planner!StepStates
      BY DEF PlannerSound
    <2>4. \E i \in Planner!At(plan, id) :
              plan.steps[i].state \in Planner!TerminalStates => plan.steps[i].state = "done"
      BY <1>4 DEF Planner!MayComplete, Planner!Allowed, Planner!TerminalStates
    <2>5. PlannerSound(q) /\ PlannerKeeps(plan, q)
      BY <1>2, <2>1, <2>2, <2>3, <2>4, PlannerSetSound
    <2> QED BY <1>2, <1>4, <2>5, PlannerMoves
  <1> QED BY <1>1, <1>3, <1>4

\* The notes leave the plan alone.
LEMMA PlannerNoted ==
    ASSUME PlannerParameters, PlannerInv,
           \/ Planner!VerifyMilestone \/ Planner!Reflect \/ Planner!Decompose
           \/ UNCHANGED Planner!vars
    PROVE  PlannerInv' /\ Planner!FinishedStays
  <1> USE DEF PlannerInv
  <1>1. plan' = plan /\ delegation' = delegation
    BY Zenon DEF Planner!VerifyMilestone, Planner!Reflect, Planner!Decompose, Planner!vars
  <1> DEFINE Goals == [milestones : SUBSET Milestones, current : Milestones \union {"none"},
                       unmet : BOOLEAN, reflected : BOOLEAN]
  <1>2. goals \in Goals
    BY DEF PlannerNotes
  <1>3. goals' \in Goals
    <2>1. CASE Planner!VerifyMilestone
      <3>1. PICK errors \in BOOLEAN : goals' = [goals EXCEPT !.unmet = errors]
        BY <2>1 DEF Planner!VerifyMilestone
      <3> QED BY <1>2, <3>1
    <2>2. CASE Planner!Reflect
      <3>1. PICK blank \in BOOLEAN : goals' = [goals EXCEPT !.reflected = ~blank]
        BY <2>2 DEF Planner!Reflect
      <3> QED BY <1>2, <3>1
    <2>3. CASE Planner!Decompose
      <3>1. PICK ids \in SUBSET Milestones, named \in Milestones \union {"none"} :
                \E first \in IF ids = {} THEN {"none"} ELSE ids :
                  goals' = [goals EXCEPT !.milestones = ids,
                                !.current = CASE named # "none" -> named
                                              [] named = "none" /\ @ # "none" -> @
                                              [] OTHER -> first]
        BY <2>3, Zenon DEF Planner!Decompose
      <3>2. PICK first \in Milestones \union {"none"} :
                  goals' = [goals EXCEPT !.milestones = ids,
                                !.current = CASE named # "none" -> named
                                              [] named = "none" /\ @ # "none" -> @
                                              [] OTHER -> first]
        <4>1. (IF ids = {} THEN {"none"} ELSE ids) \subseteq Milestones \union {"none"}
          OBVIOUS
        <4> QED BY <3>1, <4>1, Zenon
      <3> DEFINE c == CASE named # "none" -> named
                        [] named = "none" /\ goals.current # "none" -> goals.current
                        [] OTHER -> first
      <3>3. c \in Milestones \union {"none"}
        BY <1>2
      <3>4. PICK g : g = [goals EXCEPT !.milestones = ids]
        OBVIOUS
      <3>5. g \in Goals
        BY <1>2, <3>4
      <3> HIDE DEF c
      <3>6. [g EXCEPT !.current = c] \in Goals
        BY <3>3, <3>5
      <3>7. g.current = goals.current
        BY <1>2, <3>4
      <3>8. goals' = [g EXCEPT !.current = c]
        BY <3>2, <3>4, <3>7, Zenon DEF c
      <3> QED BY <3>6, <3>8
    <2>4. CASE UNCHANGED Planner!vars
      BY <1>2, <2>4 DEF Planner!vars
    <2> QED BY <2>1, <2>2, <2>3, <2>4
  <1>4. PlannerNotes'
    BY <1>1, <1>3 DEF PlannerNotes
  <1>5. PlannerSound(plan)' /\ PlannerShown(plan)'
    BY <1>1 DEF PlannerSound, PlannerShown, PlannerRecord, Planner!Pending, Planner!Advice
  <1>6. Planner!FinishedStays
    <2>1. PlannerKeeps(plan, plan)
      BY PlannerSameSteps
    <2> QED BY <1>1, <2>1 DEF PlannerKeeps, Planner!FinishedStays
  <1> QED BY <1>4, <1>5, <1>6

LEMMA PlannerNext ==
    ASSUME PlannerParameters, PlannerInv, [Planner!Next]_Planner!vars
    PROVE  PlannerInv' /\ Planner!FinishedStays
  BY PlannerCreate, PlannerValidate, PlannerRevise, PlannerFinish, PlannerDelegate,
     PlannerReturns, PlannerNoted DEF Planner!Next

\* What the block advises is legal.
LEMMA PlannerHolds ==
    ASSUME PlannerParameters, PlannerInv
    PROVE  Planner!TypeOK /\ Planner!AdviceHolds
  <1> USE DEF PlannerInv
  <1> DEFINE next == plan.block.next
             first == CHOOSE i \in Planner!Pending(plan) : \A j \in Planner!Pending(plan) : i <= j
  <1>1. next = Planner!Advice(plan)
    BY DEF PlannerShown
  <1>2. Planner!Pending(plan) # {} => first \in Planner!Pending(plan)
    <2> SUFFICES ASSUME Planner!Pending(plan) # {} PROVE first \in Planner!Pending(plan)
      OBVIOUS
    <2>1. Planner!Pending(plan) \subseteq Nat
      BY DEF PlannerSound, Planner!Pending
    <2>2. \E i \in Planner!Pending(plan) : \A j \in Planner!Pending(plan) : i <= j
      BY <2>1, LeastOf
    <2> QED BY <2>2, Zenon
  <1> DEFINE open == plan.steps # <<>> /\ plan.status \notin Planner!TerminalStates
  <1>3. \/ next.call = "create_plan" /\ plan.steps = <<>>
        \/ next.call \in {"none", "validate_plan", "ask_user"}
        \/ next.call = "finish_plan" /\ open /\ Planner!Pending(plan) = {}
           /\ next.target \in Planner!TerminalStates
        \/ next.call = "revise_current_plan" /\ open
        \/ next.call = "delegate" /\ open /\ Planner!Pending(plan) # {}
           /\ Planner!Named(plan.steps[first]) /\ next.step = plan.steps[first].id
    <2> DEFINE abandoned == \E s \in Planner!Range(plan.steps) :
                                s.state = "abandoned" /\ Planner!Named(s)
    <2>1. CASE plan.steps = <<>>
      <3>1. next = [call |-> "create_plan"]
        BY <1>1, <2>1, Zenon DEF Planner!Advice
      <3> QED BY <2>1, <3>1
    <2>2. CASE plan.steps # <<>> /\ plan.status \in Planner!TerminalStates
      <3>1. next = [call |-> "none"]
        BY <1>1, <2>2, Zenon DEF Planner!Advice
      <3> QED BY <3>1
    <2>3. CASE open
      <3>1. next = IF ~plan.validated THEN [call |-> "validate_plan"]
                   ELSE IF Planner!Pending(plan) = {}
                        THEN [call |-> "finish_plan",
                              target |-> IF abandoned THEN "abandoned" ELSE "done"]
                   ELSE IF Planner!Done(plan.steps) = {} THEN [call |-> "ask_user"]
                   ELSE IF ~Planner!Named(plan.steps[first]) THEN [call |-> "revise_current_plan"]
                   ELSE [call |-> "delegate", step |-> plan.steps[first].id]
        BY <1>1, <2>3, Zenon DEF Planner!Advice
      <3> HIDE DEF first, next, abandoned
      <3> QED BY <2>3, <3>1 DEF Planner!TerminalStates
    <2> QED BY <2>1, <2>2, <2>3
  <1> HIDE DEF next, first
  <1>4. next.call = "finish_plan" => Planner!MayFinish(plan, next.target)
    <2> SUFFICES ASSUME next.call = "finish_plan" PROVE Planner!MayFinish(plan, next.target)
      OBVIOUS
    <2>1. open /\ Planner!Pending(plan) = {} /\ next.target \in Planner!TerminalStates
      BY <1>3
    <2>2. plan.status = "todo" \/ plan.status = "in_progress"
      BY <2>1 DEF PlannerSound, Planner!StepStates
    <2> QED BY <2>1, <2>2 DEF Planner!MayFinish, Planner!Allowed
  <1>5. next.call = "delegate" => Planner!MayDelegate(plan, next.step)
    <2> SUFFICES ASSUME next.call = "delegate" PROVE Planner!MayDelegate(plan, next.step)
      OBVIOUS
    <2>1. /\ open /\ first \in Planner!Pending(plan)
          /\ Planner!Named(plan.steps[first]) /\ next.step = plan.steps[first].id
      BY <1>2, <1>3
    <2> QED BY <2>1 DEF Planner!MayDelegate, Planner!At, Planner!Pending
  <1>6. /\ next.call = "create_plan" => plan.steps = <<>>
        /\ next.call = "revise_current_plan" => plan.status \notin Planner!TerminalStates
    BY <1>3
  <1>7. Planner!AdviceHolds
    BY <1>4, <1>5, <1>6 DEF Planner!AdviceHolds, PlannerSound, PlannerShown, next
  <1>8. \A i \in DOMAIN plan.steps : plan.steps[i] \in PlannerStep
    BY DEF PlannerSound
  <1>9. plan.completed \subseteq Planner!Ids
    <2>1. plan.completed = Planner!Done(plan.steps)
      BY DEF PlannerShown
    <2>2. \A s \in Planner!Range(plan.steps) : s \in PlannerStep
      BY <1>8 DEF Planner!Range
    <2> QED BY <2>1, <2>2 DEF Planner!Done, PlannerStep, Planner!Named
  <1>10. Planner!TypeOK
    BY <1>8, <1>9 DEF Planner!TypeOK, PlannerStep, PlannerSound, PlannerNotes
  <1> QED BY <1>7, <1>10

\* What the model is told to do next is legal, and nothing that is finished is opened
\* again, for any proposals and any sub-agents that answer late (plan_v2).
THEOREM PlannerAdvises ==
    ASSUME PlannerParameters
    PROVE  /\ Planner!Spec => []Planner!AdviceHolds
           /\ Planner!Spec => [][Planner!FinishedStays]_Planner!vars
  <1>1. Planner!Init => PlannerInv
    BY PlannerInit
  <1>2. PlannerInv /\ [Planner!Next]_Planner!vars => PlannerInv' /\ Planner!FinishedStays
    BY PlannerNext
  <1>3. PlannerInv => Planner!AdviceHolds
    BY PlannerHolds
  <1> QED BY <1>1, <1>2, <1>3, PTL DEF Planner!Spec

-----------------------------------------------------------------------------
(* StepPlans.                                                                *)

WorkSetups == [planner : {"default", "custom"}, stepDriven : BOOLEAN,
               executor : {"tool loop", "own"}, second : BOOLEAN]

\* Capabilities may share an id, as what is registered under it may be replaced; a
\* plan is a list.
WorkParameters ==
    /\ Setups \subseteq WorkSetups
    /\ \A c \in Capabilities : c.risk \in Nat /\ c.planTool \in BOOLEAN /\ c.fixed \in BOOLEAN
    /\ \A p \in Drafts : Len(p) \in Nat /\ DOMAIN p = 1..Len(p)
    /\ Stretch \in Nat \ {0} /\ MaxTries \in Nat /\ MaxPlans \in Nat

\* Judged by the risk of something that was registered and is no plan tool.
WorkTrust(since, id, judged) ==
    \E c \in since : c.id = id /\ ~c.planTool /\ c.risk = judged

WorkStages == {"attempt", "plan", "validate", "execute", "invoke", "verify", "over"}

WorkMilestone ==
    [at : 1..Stretch, attempt : 0..MaxTries, reflections : 0..MaxTries, kept : Nat,
     verified : BOOLEAN]

\* Every attempt reflects once at most, and what is rolled back to is there.
WorkPlace ==
    /\ setup \in Setups /\ listed \in Work!Registries /\ stage \in WorkStages
    /\ milestone \in WorkMilestone
    /\ history \in Seq(Messages \union {"answer", "reflection"})
    /\ milestone.kept <= Len(history)
    /\ milestone.reflections <= milestone.attempt
    /\ stage \notin {"attempt", "over"} => milestone.reflections < milestone.attempt

\* A validated plan consists of plan tools and trusted steps.
WorkStep(since, s) ==
    /\ s.risk \in Nat /\ s.planTool \in BOOLEAN
    /\ ~s.planTool => WorkTrust(since, s.id, s.risk)

WorkDraft(d) ==
    /\ d = [tries |-> d.tries, about |-> d.about, steps |-> d.steps, ok |-> d.ok,
            judged |-> d.judged, since |-> d.since]
    /\ d.tries \in 0..MaxPlans /\ d.ok \in BOOLEAN /\ d.judged \in Nat
    /\ Len(d.steps) \in Nat /\ DOMAIN d.steps = 1..Len(d.steps)
    /\ d.ok => \A i \in 1..Len(d.steps) : WorkStep(d.since, d.steps[i])

WorkResult(since, r, i) ==
    /\ r.ok \in BOOLEAN /\ r.given = i - 1 /\ WorkTrust(since, r.id, r.judged)

\* While steps are executed they have all succeeded, and the one that passed its gate
\* is trusted.
WorkDone ==
    /\ Len(results) \in Nat /\ DOMAIN results = 1..Len(results)
    /\ \A i \in 1..Len(results) : results[i].ok \in BOOLEAN /\ results[i].given \in 0..Len(results)
    /\ setup.stepDriven =>
          \A i \in 1..Len(results) :
              WorkResult(draft.since, results[i], i) /\ (i > 1 => results[i - 1].ok)
    /\ stage \in {"plan", "validate"} => results = <<>>
    /\ stage \in {"execute", "invoke"} => \A i \in 1..Len(results) : results[i].ok
    /\ stage = "invoke" =>
          /\ setup.stepDriven /\ draft.ok /\ Len(results) < Len(draft.steps)
          /\ WorkTrust(draft.since, Work!Current.id, draft.judged)

\* What is listed has been so since the validation, and from then on it is noted.
WorkNoted == draft.ok => listed \subseteq draft.since

WorkInv == WorkPlace /\ WorkDraft(draft) /\ WorkDone /\ WorkNoted

-----------------------------------------------------------------------------

LEMMA WorkInit == ASSUME WorkParameters, Work!Init PROVE WorkInv
  <1> USE DEF Work!Init
  <1>1. WorkPlace
    <2>1. PICK m \in Messages : history = <<m>>
      OBVIOUS
    <2>2. history \in Seq(Messages \union {"answer", "reflection"}) /\ Len(history) = 1
      BY <2>1
    <2> QED BY <2>2 DEF WorkPlace, WorkMilestone, WorkParameters, WorkStages
  <1>2. WorkDraft(draft)
    BY DEF WorkDraft, Work!NoDraft, WorkParameters
  <1>3. WorkDone
    BY DEF WorkDone
  <1>4. WorkNoted
    BY DEF WorkNoted, Work!NoDraft
  <1> QED BY <1>1, <1>2, <1>3, <1>4 DEF WorkInv

\* The step that is given its output is the last one.
LEMMA WorkGiven ==
    ASSUME Len(results) \in Nat, DOMAIN results = 1..Len(results),
           \A i \in 1..Len(results) : results[i].ok
    PROVE  Work!Given = Len(results)
  <1> DEFINE n == Len(results)
             good == {i \in DOMAIN results : results[i].ok}
  <1>1. good = 1..n
    OBVIOUS
  <1>2. CASE n = 0
    <2>1. good = {}
      BY <1>1, <1>2
    <2> QED BY <1>2, <2>1, Zenon DEF Work!Given
  <1>3. CASE n # 0
    <2>1. good # {}
      BY <1>1, <1>3
    <2>2. n \in good /\ \A j \in good : j <= n
      BY <1>1, <1>3
    <2>3. \A i \in good : (\A j \in good : j <= i) => i = n
      BY <1>1, <1>3
    <2> HIDE DEF good
    <2>4. (CHOOSE i \in good : \A j \in good : j <= i) = n
      BY <2>2, <2>3
    <2>5. Work!Given = CHOOSE i \in good : \A j \in good : j <= i
      BY <2>1, Zenon DEF Work!Given, good
    <2> QED BY <2>4, <2>5
  <1> QED BY <1>2, <1>3

\* A trusted step is judged by what is registered for it now, or was when it was
\* validated.
LEMMA WorkJudged ==
    ASSUME WorkParameters, listed \subseteq Capabilities, NEW since, listed \subseteq since,
           NEW s, WorkStep(since, s), ~Work!IsPlanTool(s)
    PROVE  Work!Judged(s) \in Nat /\ WorkTrust(since, s.id, Work!Judged(s))
  <1> DEFINE known == {c \in Work!Registered(s) : c.risk # 0}
             now == CHOOSE c \in known : TRUE
  <1>1. s.risk \in Nat /\ s.planTool \in BOOLEAN /\ ~s.planTool
    BY DEF WorkStep, Work!IsPlanTool
  <1>2. CASE known = {}
    <2>1. Work!Judged(s) = s.risk
      BY <1>2, Zenon DEF Work!Judged
    <2> QED BY <1>1, <2>1 DEF WorkStep
  <1>3. CASE known # {}
    <2>1. Work!Judged(s) = now.risk
      BY <1>3, Zenon DEF Work!Judged
    <2>2. now \in known
      <3> HIDE DEF known
      <3> QED BY <1>3
    <2>3. now \in listed /\ now.id = s.id /\ now \in Work!Registered(s)
      BY <2>2 DEF Work!Registered
    <2>4. ~now.planTool
      BY <2>3, Zenon DEF Work!IsPlanTool
    <2> HIDE DEF now
    <2>5. now.risk \in Nat
      BY <2>3 DEF WorkParameters
    <2> QED BY <2>1, <2>3, <2>4, <2>5, Zenon DEF WorkTrust
  <1> QED BY <1>2, <1>3

\* What a step resolves to is listed.
LEMMA WorkResolved == ASSUME NEW raw PROVE Work!Resolved(raw) \subseteq listed
  <1> DEFINE byId == {c \in listed : c.id = raw}
             named == {e[1] : e \in Work!Aliases(raw)}
  <1>1. byId \subseteq listed
    OBVIOUS
  <1>2. named \subseteq listed
    <2>1. Work!Aliases(raw) \subseteq listed \X {"name", "display_name"}
      BY Zenon DEF Work!Aliases
    <2>2. \A e \in listed \X {"name", "display_name"} : e[1] \in listed
      OBVIOUS
    <2> QED BY <2>1, <2>2
  <1>3. Work!Resolved(raw) \in {byId, named, {}}
    BY Zenon DEF Work!Resolved
  <1> HIDE DEF byId, named
  <1> QED BY <1>1, <1>2, <1>3

\* Steps that validate are trusted.
LEMMA WorkValidated ==
    ASSUME WorkParameters, listed \subseteq Capabilities, NEW step, ~Work!StepErrs(step)
    PROVE  WorkStep(listed, Work!Validated(step))
  <1>1. CASE step.cap = "plan:revise"
    <2>1. Work!Validated(step) = Work!PlanStep(step)
      BY <1>1, Zenon DEF Work!Validated
    <2> QED BY <2>1 DEF Work!PlanStep, WorkStep
  <1>2. CASE step.cap # "plan:revise"
    <2>1. Work!Resolved(step.cap) # {}
      BY <1>2, Zenon DEF Work!StepErrs
    <2>2. PICK c \in Work!Resolved(step.cap) : c = CHOOSE x \in Work!Resolved(step.cap) : TRUE
      BY <2>1
    <2>3. c \in listed /\ c \in Capabilities
      BY <2>2, WorkResolved
    <2>4. Work!Validated(step) = Work!Trusted(step, c)
      BY <1>2, <2>2, Zenon DEF Work!Validated
    <2>5. c.risk \in Nat /\ c.planTool \in BOOLEAN
      BY <2>3 DEF WorkParameters
    <2> QED BY <2>3, <2>4, <2>5 DEF Work!Trusted, WorkStep, WorkTrust
  <1> QED BY <1>1, <1>2

\* Trust that was there stays while more is noted.
LEMMA WorkTrustGrows ==
    ASSUME NEW since, NEW more, since \subseteq more
    PROVE  /\ \A id : \A judged : WorkTrust(since, id, judged) => WorkTrust(more, id, judged)
           /\ \A s : WorkStep(since, s) => WorkStep(more, s)
           /\ \A r : \A i : WorkResult(since, r, i) => WorkResult(more, r, i)
  <1>1. \A id : \A judged : WorkTrust(since, id, judged) => WorkTrust(more, id, judged)
    BY Zenon DEF WorkTrust
  <1> QED BY <1>1, Zenon DEF WorkStep, WorkResult

\* A plan with some fields changed.
WorkFields(a, b, c, d, e, f) ==
    [tries |-> a, about |-> b, steps |-> c, ok |-> d, judged |-> e, since |-> f]

LEMMA WorkSet ==
    ASSUME NEW a, NEW b, NEW c, NEW d, NEW e, NEW f, NEW q, q = WorkFields(a, b, c, d, e, f)
    PROVE  /\ \A x : [q EXCEPT !.tries = x] = WorkFields(x, b, c, d, e, f)
           /\ \A x : [q EXCEPT !.about = x] = WorkFields(a, x, c, d, e, f)
           /\ \A x : [q EXCEPT !.steps = x] = WorkFields(a, b, x, d, e, f)
           /\ \A x : [q EXCEPT !.ok = x] = WorkFields(a, b, c, x, e, f)
           /\ \A x : [q EXCEPT !.judged = x] = WorkFields(a, b, c, d, x, f)
           /\ \A x : [q EXCEPT !.since = x] = WorkFields(a, b, c, d, e, x)
  BY DEF WorkFields

LEMMA WorkProposed ==
    ASSUME NEW q, WorkDraft(q), NEW tries, NEW steps, NEW about
    PROVE  [q EXCEPT !.tries = tries, !.steps = steps, !.about = about]
             = WorkFields(tries, about, steps, q.ok, q.judged, q.since)
  <1>1. q = WorkFields(q.tries, q.about, q.steps, q.ok, q.judged, q.since)
    BY DEF WorkDraft, WorkFields
  <1>2. PICK r : r = [q EXCEPT !.tries = tries]
    OBVIOUS
  <1>3. r = WorkFields(tries, q.about, q.steps, q.ok, q.judged, q.since)
    BY <1>1, <1>2, WorkSet
  <1>4. PICK s : s = [r EXCEPT !.steps = steps]
    OBVIOUS
  <1>5. s = WorkFields(tries, q.about, steps, q.ok, q.judged, q.since)
    BY <1>3, <1>4, WorkSet
  <1>6. [s EXCEPT !.about = about] = WorkFields(tries, about, steps, q.ok, q.judged, q.since)
    BY <1>5, WorkSet
  <1> QED BY <1>2, <1>4, <1>6, Zenon

LEMMA WorkOpened ==
    ASSUME NEW q, WorkDraft(q), NEW steps, NEW ok
    PROVE  [q EXCEPT !.steps = steps, !.ok = ok]
             = WorkFields(q.tries, q.about, steps, ok, q.judged, q.since)
  <1>1. q = WorkFields(q.tries, q.about, q.steps, q.ok, q.judged, q.since)
    BY DEF WorkDraft, WorkFields
  <1>2. PICK r : r = [q EXCEPT !.steps = steps]
    OBVIOUS
  <1>3. r = WorkFields(q.tries, q.about, steps, q.ok, q.judged, q.since)
    BY <1>1, <1>2, WorkSet
  <1>4. [r EXCEPT !.ok = ok] = WorkFields(q.tries, q.about, steps, ok, q.judged, q.since)
    BY <1>3, WorkSet
  <1>5. [q EXCEPT !.steps = steps, !.ok = ok] = [r EXCEPT !.ok = ok]
    BY <1>2, Zenon
  <1> QED BY <1>4, <1>5, Zenon

LEMMA WorkApproved ==
    ASSUME NEW q, WorkDraft(q), NEW steps, NEW ok, NEW since,
           NEW p, p = [q EXCEPT !.ok = ok, !.since = since, !.steps = steps]
    PROVE  p = WorkFields(q.tries, q.about, steps, ok, q.judged, since)
  <1>1. q = WorkFields(q.tries, q.about, q.steps, q.ok, q.judged, q.since)
    BY DEF WorkDraft, WorkFields
  <1>2. PICK r : r = [q EXCEPT !.ok = ok]
    OBVIOUS
  <1>3. r = WorkFields(q.tries, q.about, q.steps, ok, q.judged, q.since)
    BY <1>1, <1>2, WorkSet
  <1>4. PICK s : s = [r EXCEPT !.since = since]
    OBVIOUS
  <1>5. s = WorkFields(q.tries, q.about, q.steps, ok, q.judged, since)
    BY <1>3, <1>4, WorkSet
  <1>6. [s EXCEPT !.steps = steps] = WorkFields(q.tries, q.about, steps, ok, q.judged, since)
    BY <1>5, WorkSet
  <1>7. p = [s EXCEPT !.steps = steps]
    BY <1>2, <1>4, Zenon
  <1> QED BY <1>6, <1>7, Zenon

LEMMA WorkMade ==
    ASSUME NEW a, NEW b, NEW c, NEW d, NEW e, NEW f, a \in 0..MaxPlans, d \in BOOLEAN, e \in Nat,
           Len(c) \in Nat, DOMAIN c = 1..Len(c), d => \A i \in 1..Len(c) : WorkStep(f, c[i])
    PROVE  /\ WorkDraft(WorkFields(a, b, c, d, e, f))
           /\ WorkFields(a, b, c, d, e, f).steps = c /\ WorkFields(a, b, c, d, e, f).ok = d
           /\ WorkFields(a, b, c, d, e, f).tries = a /\ WorkFields(a, b, c, d, e, f).judged = e
           /\ WorkFields(a, b, c, d, e, f).since = f
  <1> DEFINE q == WorkFields(a, b, c, d, e, f)
  <1>1. q = WorkFields(a, b, c, d, e, f)
    OBVIOUS
  <1>2. /\ q.tries = a /\ q.about = b /\ q.steps = c /\ q.ok = d /\ q.judged = e /\ q.since = f
        /\ q = [tries |-> q.tries, about |-> q.about, steps |-> q.steps, ok |-> q.ok,
                judged |-> q.judged, since |-> q.since]
    BY DEF WorkFields
  <1> HIDE DEF q
  <1>3. WorkDraft(q)
    BY <1>2 DEF WorkDraft
  <1> QED BY <1>1, <1>2, <1>3

\* What leaves milestone and memory alone leaves the place in order.
LEMMA WorkStays ==
    ASSUME WorkPlace, setup' = setup, listed' \in Work!Registries, milestone' = milestone,
           history' = history, stage' \in WorkStages, stage \notin {"attempt", "over"} \/ stage' \in {"attempt", "over"}
    PROVE  WorkPlace'
  BY DEF WorkPlace, Work!Registries

-----------------------------------------------------------------------------

LEMMA WorkBeginAttempt ==
    ASSUME WorkParameters, WorkInv, Work!BeginAttempt PROVE WorkInv'
  <1> USE DEF WorkInv
  <1>1. /\ stage = "attempt" /\ milestone.attempt < MaxTries /\ stage' = "plan"
        /\ draft' = Work!NoDraft /\ results' = <<>> /\ UNCHANGED <<setup, listed, history>>
        /\ milestone' = [milestone EXCEPT !.attempt = milestone.attempt + 1, !.kept = Len(history)]
    BY Zenon DEF Work!BeginAttempt
  <1>2. PICK m : m = [milestone EXCEPT !.attempt = milestone.attempt + 1]
    OBVIOUS
  <1>3. milestone' = [m EXCEPT !.kept = Len(history)]
    BY <1>1, <1>2, Zenon
  <1>4. /\ milestone' \in WorkMilestone /\ milestone'.kept = Len(history)
        /\ milestone'.attempt = milestone.attempt + 1
        /\ milestone'.reflections = milestone.reflections
    <2>1. milestone \in WorkMilestone /\ Len(history) \in Nat /\ MaxTries \in Nat
      BY DEF WorkPlace, WorkParameters
    <2>2. /\ m \in WorkMilestone /\ m.attempt = milestone.attempt + 1
          /\ m.reflections = milestone.reflections
      BY <1>1, <1>2, <2>1 DEF WorkMilestone
    <2> QED BY <1>3, <2>1, <2>2 DEF WorkMilestone
  <1>5. WorkPlace'
    <2>1. milestone.attempt \in Nat /\ milestone.reflections \in Nat
      BY DEF WorkPlace, WorkMilestone, WorkParameters
    <2> QED BY <1>1, <1>4, <2>1 DEF WorkPlace, WorkStages, Work!Registries
  <1>6. WorkDraft(draft')
    BY <1>1 DEF WorkDraft, Work!NoDraft, WorkParameters
  <1>7. WorkDraft(draft)'
    BY <1>6 DEF WorkDraft
  <1>8. WorkDone'
    BY <1>1 DEF WorkDone
  <1>9. WorkNoted'
    BY <1>1 DEF WorkNoted, Work!NoDraft
  <1> QED BY <1>5, <1>7, <1>8, <1>9

LEMMA WorkQuiet ==
    ASSUME WorkParameters, WorkInv, Work!GiveUp \/ Work!NothingToDo \/ UNCHANGED Work!vars
    PROVE  WorkInv'
  <1> USE DEF WorkInv
  <1>1. /\ UNCHANGED <<setup, listed, milestone, history, draft, results>>
        /\ stage' = stage \/ stage' \in {"over", "verify"}
        /\ stage' \in WorkStages /\ (stage \notin {"attempt", "over"} \/ stage' \in {"attempt", "over"})
    <2>1. stage \in WorkStages
      BY DEF WorkPlace
    <2>2. CASE Work!GiveUp
      BY <2>1, <2>2 DEF Work!GiveUp, WorkStages
    <2>3. CASE Work!NothingToDo
      BY <2>1, <2>3 DEF Work!NothingToDo, Work!StepDriven, WorkStages
    <2>4. CASE UNCHANGED Work!vars
      BY <2>1, <2>4 DEF Work!vars
    <2> QED BY <2>2, <2>3, <2>4
  <1>2. WorkPlace'
    BY <1>1, WorkStays DEF WorkPlace
  <1>3. WorkDraft(draft)' /\ WorkNoted'
    BY <1>1 DEF WorkDraft, WorkNoted
  <1>4. WorkDone'
    BY <1>1 DEF WorkDone, Work!Current
  <1> QED BY <1>2, <1>3, <1>4

\* What is registered changes: the trust of before stays, and what is listed is noted.
LEMMA WorkRegistryChanges ==
    ASSUME WorkParameters, WorkInv, Work!RegistryChanges PROVE WorkInv'
  <1> USE DEF WorkInv
  <1> DEFINE since == draft.since \union listed'
  <1>1. /\ stage \in {"validate", "execute", "invoke"}
        /\ UNCHANGED <<setup, milestone, history, results, stage>>
        /\ draft' = [draft EXCEPT !.since = since]
    BY Zenon DEF Work!RegistryChanges
  <1>2. listed' \in Work!Registries
    <2>1. PICK c \in Capabilities :
             LET others == {d \in listed : d.id # c.id}
             IN  listed' \in {others, others \union {c}}
      BY Zenon DEF Work!RegistryChanges
    <2>2. listed \subseteq Capabilities /\ \A d, e \in listed : d.id = e.id => d = e
      BY DEF WorkPlace, Work!Registries
    <2>3. listed' \subseteq listed \union {c} /\ \A d \in listed' : d.id = c.id => d = c
      BY <2>1
    <2>4. \A d, e \in listed' : d.id = e.id => d = e
      BY <2>2, <2>3
    <2> QED BY <2>2, <2>3, <2>4 DEF Work!Registries
  <1>3. WorkPlace'
    BY <1>1, <1>2, WorkStays, Zenon DEF WorkPlace
  <1> DEFINE q == WorkFields(draft.tries, draft.about, draft.steps, draft.ok, draft.judged, since)
  <1>4. draft' = q
    <2>1. draft = WorkFields(draft.tries, draft.about, draft.steps, draft.ok, draft.judged, draft.since)
      BY DEF WorkDraft, WorkFields
    <2> HIDE DEF since
    <2> QED BY <1>1, <2>1, WorkSet
  <1>5. draft.since \subseteq since
    OBVIOUS
  <1>6. /\ draft.tries \in 0..MaxPlans /\ draft.judged \in Nat /\ draft.ok \in BOOLEAN
        /\ Len(draft.steps) \in Nat /\ DOMAIN draft.steps = 1..Len(draft.steps)
        /\ draft.ok => \A i \in 1..Len(draft.steps) : WorkStep(since, draft.steps[i])
    <2> HIDE DEF since
    <2>1. \A s : WorkStep(draft.since, s) => WorkStep(since, s)
      BY <1>5, WorkTrustGrows
    <2> QED BY <2>1 DEF WorkDraft
  <1>7. listed' \subseteq since
    OBVIOUS
  <1> HIDE DEF since
  <1>8. /\ WorkDraft(q) /\ q.steps = draft.steps /\ q.ok = draft.ok
        /\ q.judged = draft.judged /\ q.since = since
    <2>1. q = WorkFields(draft.tries, draft.about, draft.steps, draft.ok, draft.judged, since)
      OBVIOUS
    <2> HIDE DEF q
    <2> QED BY <1>6, <2>1, WorkMade
  <1> HIDE DEF q
  <1>9. WorkDraft(draft)'
    BY <1>4, <1>8 DEF WorkDraft
  <1>10. WorkNoted'
    BY <1>4, <1>7, <1>8 DEF WorkNoted
  <1>11. WorkDone'
    <2>1. Work!Current' = Work!Current
      BY <1>1, <1>4, <1>8 DEF Work!Current
    <2>2. /\ \A id : \A judged : WorkTrust(draft.since, id, judged) => WorkTrust(since, id, judged)
          /\ \A r : \A i : WorkResult(draft.since, r, i) => WorkResult(since, r, i)
      BY <1>5, WorkTrustGrows
    <2>3. draft'.since = since /\ draft'.steps = draft.steps /\ draft'.ok = draft.ok
          /\ draft'.judged = draft.judged
      BY <1>4, <1>8
    <2> QED BY <1>1, <2>1, <2>2, <2>3 DEF WorkDone
  <1> QED BY <1>3, <1>9, <1>10, <1>11

LEMMA WorkPlan ==
    ASSUME WorkParameters, WorkInv, Work!Plan PROVE WorkInv'
  <1> USE DEF WorkInv
  <1>1. PICK steps \in Drafts \union (IF setup.planner = "default" THEN {Work!Fallback} ELSE {}) :
           draft' = [Work!NoDraft EXCEPT !.tries = draft.tries + 1, !.steps = steps,
                                         !.about = Work!Described(history[Len(history)])]
    BY Zenon DEF Work!Plan
  <1>2. /\ stage = "plan" /\ draft.tries < MaxPlans /\ stage' = "validate"
        /\ UNCHANGED <<setup, listed, milestone, history, results>>
    BY Zenon DEF Work!Plan
  <1>3. Len(steps) \in Nat /\ DOMAIN steps = 1..Len(steps)
    <2>1. CASE steps \in Drafts
      BY <2>1 DEF WorkParameters
    <2>2. CASE steps = Work!Fallback
      BY <2>2 DEF Work!Fallback
    <2> QED BY <2>1, <2>2
  <1>4. WorkDraft(Work!NoDraft) /\ Work!NoDraft.ok = FALSE /\ Work!NoDraft.judged = 0
        /\ Work!NoDraft.since = {}
    BY DEF WorkDraft, Work!NoDraft, WorkParameters
  <1> DEFINE about == Work!Described(history[Len(history)])
             q == WorkFields(draft.tries + 1, about, steps, FALSE, 0, {})
  <1>5. draft' = q
    <2>1. PICK none : none = Work!NoDraft
      OBVIOUS
    <2>2. PICK tries, said : tries = draft.tries + 1 /\ said = about
      OBVIOUS
    <2>3. [none EXCEPT !.tries = tries, !.steps = steps, !.about = said]
            = WorkFields(tries, said, steps, none.ok, none.judged, none.since)
      <3>1. WorkDraft(none)
        BY <1>4, <2>1
      <3> QED BY <3>1, WorkProposed, ZenonT(80)
    <2> QED BY <1>1, <1>4, <2>1, <2>2, <2>3, Zenon
  <1>6. WorkDraft(q)
    <2>1. draft.tries + 1 \in 0..MaxPlans
      BY <1>2 DEF WorkDraft, WorkParameters
    <2> HIDE DEF about
    <2> QED BY <1>3, <2>1, WorkMade
  <1>10. q.ok = FALSE
    BY DEF WorkFields
  <1> HIDE DEF q
  <1>7. WorkDraft(draft)' /\ WorkNoted'
    BY <1>5, <1>6, <1>10 DEF WorkDraft, WorkNoted
  <1>8. WorkPlace'
    BY <1>2, WorkStays DEF WorkPlace, WorkStages
  <1>9. WorkDone'
    BY <1>2 DEF WorkDone
  <1> QED BY <1>7, <1>8, <1>9

LEMMA WorkPlansExhausted ==
    ASSUME WorkParameters, WorkInv, Work!PlansExhausted PROVE WorkInv'
  <1> USE DEF WorkInv
  <1>1. /\ stage = "plan" /\ stage' = "execute"
        /\ UNCHANGED <<setup, listed, milestone, history, results>>
        /\ draft' = [draft EXCEPT !.steps = <<>>, !.ok = FALSE]
    BY Zenon DEF Work!PlansExhausted
  <1> DEFINE q == WorkFields(draft.tries, draft.about, <<>>, FALSE, draft.judged, draft.since)
  <1>2. draft' = q
    BY <1>1, WorkOpened, Zenon
  <1>3. WorkDraft(q)
    <2>1. /\ draft.tries \in 0..MaxPlans /\ draft.judged \in Nat /\ FALSE \in BOOLEAN
          /\ Len(<<>>) \in Nat /\ DOMAIN <<>> = 1..Len(<<>>)
      BY DEF WorkDraft
    <2> QED BY <2>1, WorkMade, Zenon
  <1>7. q.ok = FALSE
    BY DEF WorkFields
  <1> HIDE DEF q
  <1>4. WorkDraft(draft)' /\ WorkNoted'
    BY <1>2, <1>3, <1>7 DEF WorkDraft, WorkNoted
  <1>5. WorkPlace'
    BY <1>1, WorkStays DEF WorkPlace, WorkStages
  <1>6. WorkDone'
    BY <1>1 DEF WorkDone
  <1> QED BY <1>4, <1>5, <1>6

LEMMA WorkValidate ==
    ASSUME WorkParameters, WorkInv, Work!Validate PROVE WorkInv'
  <1> USE DEF WorkInv
  <1>1. /\ stage = "validate" /\ stage' \in {"plan", "execute"}
        /\ UNCHANGED <<setup, listed, milestone, history, results>>
    BY DEF Work!Validate
  <1>2. WorkPlace'
    BY <1>1, WorkStays DEF WorkPlace, WorkStages
  <1>3. WorkDone'
    BY <1>1 DEF WorkDone
  <1>4. listed \subseteq Capabilities
    BY DEF WorkPlace, Work!Registries
  <1>5. CASE draft' = [draft EXCEPT !.steps = <<>>]
    <2> DEFINE q == WorkFields(draft.tries, draft.about, <<>>, draft.ok, draft.judged, draft.since)
    <2>1. draft' = q
      <3>1. draft = WorkFields(draft.tries, draft.about, draft.steps, draft.ok, draft.judged, draft.since)
        BY DEF WorkDraft, WorkFields
      <3> QED BY <1>5, <3>1, WorkSet
    <2>4. q.ok = draft.ok /\ q.since = draft.since
      BY DEF WorkFields
    <2>2. WorkDraft(q)
      <3>1. /\ draft.tries \in 0..MaxPlans /\ draft.judged \in Nat /\ draft.ok \in BOOLEAN
            /\ Len(<<>>) \in Nat /\ DOMAIN <<>> = 1..Len(<<>>)
            /\ \A i \in 1..Len(<<>>) : WorkStep(draft.since, <<>>[i])
        BY DEF WorkDraft
      <3> QED BY <3>1, WorkMade, Zenon
    <2> HIDE DEF q
    <2>3. WorkDraft(draft)' /\ WorkNoted'
      BY <1>1, <2>1, <2>2, <2>4 DEF WorkDraft, WorkNoted
    <2> QED BY <1>2, <1>3, <2>3
  <1> DEFINE steps == [i \in DOMAIN draft.steps |-> Work!Validated(draft.steps[i])]
  <1>6. CASE /\ \A i \in DOMAIN draft.steps : ~Work!StepErrs(draft.steps[i])
             /\ draft' = [draft EXCEPT !.ok = TRUE, !.since = listed, !.steps = steps]
    <2> DEFINE q == WorkFields(draft.tries, draft.about, steps, TRUE, draft.judged, listed)
    <2>1. draft' = q
      <3> HIDE DEF steps
      <3>1. PICK yes, now, plans : yes = TRUE /\ now = listed /\ plans = steps
        OBVIOUS
      <3>2. draft' = [draft EXCEPT !.ok = yes, !.since = now, !.steps = plans]
        BY <1>6, <3>1, Zenon
      <3>3. draft' = WorkFields(draft.tries, draft.about, plans, yes, draft.judged, now)
        BY <3>2, WorkApproved, Zenon
      <3> QED BY <3>1, <3>3, Zenon
    <2>2. \A i \in 1..Len(draft.steps) : steps[i] = Work!Validated(draft.steps[i])
      BY DEF WorkDraft
    <2>3. \A i \in 1..Len(draft.steps) : WorkStep(listed, steps[i])
      <3> HIDE DEF steps
      <3>1. DOMAIN draft.steps = 1..Len(draft.steps)
        BY DEF WorkDraft
      <3> QED BY <1>4, <1>6, <2>2, <3>1, WorkValidated
    <2>4. Len(steps) = Len(draft.steps) /\ DOMAIN steps = 1..Len(draft.steps)
      BY DEF WorkDraft
    <2>5. WorkDraft(q)
      <3>1. /\ draft.tries \in 0..MaxPlans /\ draft.judged \in Nat /\ TRUE \in BOOLEAN
            /\ Len(draft.steps) \in Nat
        BY DEF WorkDraft
      <3>2. Len(steps) \in Nat /\ DOMAIN steps = 1..Len(steps)
        BY <2>4, <3>1, Zenon
      <3>3. \A i \in 1..Len(steps) : WorkStep(listed, steps[i])
        BY <2>3, <2>4, Zenon
      <3> HIDE DEF steps
      <3> QED BY <3>1, <3>2, <3>3, WorkMade, Zenon
    <2>7. q.since = listed
      BY DEF WorkFields
    <2> HIDE DEF q
    <2>6. WorkDraft(draft)' /\ WorkNoted'
      BY <1>1, <2>1, <2>5, <2>7 DEF WorkDraft, WorkNoted
    <2> QED BY <1>2, <1>3, <2>6
  <1> QED BY <1>5, <1>6, Zenon DEF Work!Validate

\* A step is only looked at when there is one.
LEMMA WorkAtStep ==
    ASSUME WorkParameters, WorkInv, stage = "execute", setup.stepDriven, draft.ok,
           Len(results) < Len(draft.steps)
    PROVE  /\ Len(results) \in Nat /\ Len(results) + 1 \in 1..Len(draft.steps)
           /\ Work!Given = Len(results)
           /\ ~Work!IsPlanTool(Work!Current) =>
                 Work!Judged(Work!Current) \in Nat
                 /\ WorkTrust(draft.since, Work!Current.id, Work!Judged(Work!Current))
  <1>1. /\ Len(results) \in Nat /\ DOMAIN results = 1..Len(results)
        /\ \A i \in 1..Len(results) : results[i].ok
    BY DEF WorkInv, WorkDone
  <1>2. Len(results) + 1 \in 1..Len(draft.steps)
    BY <1>1 DEF WorkInv, WorkDraft
  <1>3. WorkStep(draft.since, Work!Current)
    BY <1>2 DEF WorkInv, WorkDraft, Work!Current
  <1>4. listed \subseteq Capabilities /\ listed \subseteq draft.since
    BY DEF WorkInv, WorkPlace, WorkNoted, Work!Registries
  <1>5. Work!Given = Len(results)
    BY <1>1, WorkGiven
  <1> QED BY <1>1, <1>2, <1>3, <1>4, <1>5, WorkJudged

\* A step that has its result: trusted, and given the output of the one before it.
LEMMA WorkResulted ==
    ASSUME WorkParameters, WorkInv, stage \in {"execute", "invoke"}, setup.stepDriven, setup' = setup,
           draft'.since = draft.since, NEW r, results' = Append(results, r), r.ok \in BOOLEAN, r.given = Len(results),
           WorkTrust(draft.since, r.id, r.judged), stage' \in {"execute", "verify"},
           stage' = "execute" => r.ok
    PROVE  WorkDone'
  <1> DEFINE n == Len(results)
  <1>1. /\ n \in Nat /\ DOMAIN results = 1..n /\ \A i \in 1..n : results[i].ok
        /\ \A i \in 1..n : WorkResult(draft.since, results[i], i)
    BY DEF WorkInv, WorkDone
  <1>2. Len(results') = n + 1 /\ DOMAIN results' = 1..n + 1
        /\ results'[n + 1] = r /\ \A i \in 1..n : results'[i] = results[i]
    BY <1>1
  <1>3. \A i \in 1..n + 1 : WorkResult(draft.since, results'[i], i)
    BY <1>1, <1>2 DEF WorkResult
  <1>4. \A i \in 1..n + 1 : i > 1 => i - 1 \in 1..n
    BY <1>1
  <1>5. \A i \in 1..n + 1 : i > 1 => results'[i - 1].ok
    BY <1>1, <1>2, <1>4
  <1>6. \A i \in 1..n + 1 : i - 1 \in 0..n + 1
    BY <1>1
  <1>7. \A i \in 1..n + 1 : results'[i].ok \in BOOLEAN /\ results'[i].given \in 0..n + 1
    BY <1>3, <1>6 DEF WorkResult
  <1>8. stage' = "execute" => \A i \in 1..n + 1 : results'[i].ok
    BY <1>1, <1>2
  <1>9. n + 1 \in Nat
    BY <1>1
  <1>10. \A i \in 1..n + 1 : WorkResult(draft.since, results[i], i)'
    BY <1>3
  <1> HIDE DEF n
  <1> QED BY <1>2, <1>5, <1>7, <1>8, <1>9, <1>10 DEF WorkDone

LEMMA WorkGate ==
    ASSUME WorkParameters, WorkInv, Work!Gate PROVE WorkInv'
  <1> USE DEF WorkInv
  <1>1. /\ stage = "execute" /\ setup.stepDriven /\ draft.ok /\ Len(results) < Len(draft.steps)
        /\ ~Work!IsPlanTool(Work!Current) /\ UNCHANGED <<setup, listed, milestone, history>>
    BY DEF Work!Gate, Work!StepDriven
  <1>2. /\ Len(results) \in Nat /\ Len(results) + 1 \in 1..Len(draft.steps)
        /\ Work!Given = Len(results) /\ Work!Judged(Work!Current) \in Nat
        /\ WorkTrust(draft.since, Work!Current.id, Work!Judged(Work!Current))
    BY <1>1, WorkAtStep
  <1>3. CASE /\ draft' = [draft EXCEPT !.judged = Work!Judged(Work!Current)]
             /\ stage' = "invoke" /\ UNCHANGED results
    <2> DEFINE j == Work!Judged(Work!Current)
               q == WorkFields(draft.tries, draft.about, draft.steps, draft.ok, j, draft.since)
    <2>1. draft' = q
      <3>1. draft = WorkFields(draft.tries, draft.about, draft.steps, draft.ok, draft.judged, draft.since)
        BY DEF WorkDraft, WorkFields
      <3> QED BY <1>3, <3>1, WorkSet
    <2>2. WorkDraft(q) /\ q.steps = draft.steps /\ q.ok = draft.ok /\ q.judged = j
          /\ q.since = draft.since
      <3>1. /\ draft.tries \in 0..MaxPlans /\ draft.ok \in BOOLEAN /\ j \in Nat
            /\ Len(draft.steps) \in Nat /\ DOMAIN draft.steps = 1..Len(draft.steps)
            /\ draft.ok => \A i \in 1..Len(draft.steps) : WorkStep(draft.since, draft.steps[i])
        BY <1>2 DEF WorkDraft
      <3> HIDE DEF j
      <3>2. q = WorkFields(draft.tries, draft.about, draft.steps, draft.ok, j, draft.since)
        OBVIOUS
      <3> HIDE DEF q
      <3> QED BY <3>1, <3>2, WorkMade
    <2> HIDE DEF q
    <2>3. WorkDraft(draft)' /\ WorkNoted'
      BY <1>1, <2>1, <2>2 DEF WorkDraft, WorkNoted
    <2>4. Work!Current' = Work!Current
      BY <1>3, <2>1, <2>2 DEF Work!Current
    <2>5. WorkTrust(draft.since, Work!Current.id, draft.judged)'
      BY <1>2, <2>1, <2>2, <2>4
    <2>6. WorkDone'
      <3>1. \A i \in 1..Len(results) :
               WorkResult(draft.since, results[i], i) => WorkResult(draft.since, results[i], i)'
        BY <1>3, <2>1, <2>2
      <3> QED BY <1>1, <1>3, <2>1, <2>2, <2>4, <2>5, <3>1 DEF WorkDone
    <2>7. WorkPlace'
      BY <1>1, <1>3, WorkStays DEF WorkPlace, WorkStages
    <2> QED BY <2>3, <2>6, <2>7
  <1>4. CASE Work!StepFails /\ UNCHANGED draft
    <2> DEFINE r == [ok |-> FALSE, worked |-> FALSE, given |-> Work!Given,
                     judged |-> Work!Judged(Work!Current), id |-> Work!Current.id]
    <2>1. results' = Append(results, r) /\ stage' = "verify"
      BY <1>4 DEF Work!StepFails, Work!AfterFailure
    <2>2. r.ok = FALSE /\ r.given = Len(results) /\ WorkTrust(draft.since, r.id, r.judged)
      BY <1>2
    <2> HIDE DEF r
    <2>3. WorkDone'
      BY <1>1, <1>4, <2>1, <2>2, WorkResulted
    <2>4. WorkPlace'
      BY <1>1, <2>1, WorkStays DEF WorkPlace, WorkStages
    <2>5. WorkDraft(draft)' /\ WorkNoted'
      BY <1>1, <1>4 DEF WorkDraft, WorkNoted
    <2> QED BY <2>3, <2>4, <2>5
  <1> QED BY <1>3, <1>4 DEF Work!Gate

LEMMA WorkInvoke ==
    ASSUME WorkParameters, WorkInv, Work!Invoke PROVE WorkInv'
  <1> USE DEF WorkInv
  <1>1. /\ stage = "invoke" /\ UNCHANGED <<setup, listed, milestone, history, draft>>
    BY DEF Work!Invoke
  <1>2. /\ setup.stepDriven /\ WorkTrust(draft.since, Work!Current.id, draft.judged)
        /\ Len(results) \in Nat /\ DOMAIN results = 1..Len(results)
        /\ \A i \in 1..Len(results) : results[i].ok
    BY <1>1 DEF WorkDone
  <1>3. Work!Given = Len(results)
    BY <1>2, WorkGiven
  <1>4. PICK runs \in BOOLEAN, worked \in BOOLEAN :
           LET ok == IF setup.executor = "own" THEN Work!OwnExecutorOk(runs, worked)
                                               ELSE Work!ToolLoopOk(runs, worked)
           IN  /\ results' = Append(results, [ok |-> ok, worked |-> worked, given |-> Work!Given,
                                              judged |-> draft.judged, id |-> Work!Current.id])
               /\ stage' = IF ~ok THEN Work!AfterFailure
                           ELSE IF Len(results') = Len(draft.steps) THEN "verify" ELSE "execute"
    <2> DEFINE runs == \E c \in Work!Registered(Work!Current) : ~(c.fixed /\ Work!Given > 0)
    <2>1. PICK worked \in IF runs THEN BOOLEAN ELSE {FALSE} :
           LET ok == IF setup.executor = "own" THEN Work!OwnExecutorOk(runs, worked)
                                               ELSE Work!ToolLoopOk(runs, worked)
           IN  /\ results' = Append(results, [ok |-> ok, worked |-> worked, given |-> Work!Given,
                                              judged |-> draft.judged, id |-> Work!Current.id])
               /\ stage' = IF ~ok THEN Work!AfterFailure
                           ELSE IF Len(results') = Len(draft.steps) THEN "verify" ELSE "execute"
      BY Zenon DEF Work!Invoke
    <2>2. worked \in BOOLEAN
      <3> HIDE DEF runs
      <3> QED BY Zenon
    <2>3. runs \in BOOLEAN
      BY Zenon
    <2> HIDE DEF runs
    <2> QED BY <2>1, <2>2, <2>3, Zenon
  <1> DEFINE ok == IF setup.executor = "own" THEN Work!OwnExecutorOk(runs, worked)
                                             ELSE Work!ToolLoopOk(runs, worked)
             r == [ok |-> ok, worked |-> worked, given |-> Work!Given,
                   judged |-> draft.judged, id |-> Work!Current.id]
  <1>5. ok \in BOOLEAN
    BY Zenon DEF Work!OwnExecutorOk, Work!ToolLoopOk
  <1>6. results' = Append(results, r) /\ (~ok => stage' = "verify") /\ stage' \in {"verify", "execute"}
    <2> HIDE DEF ok
    <2>1. /\ results' = Append(results, r)
          /\ stage' = IF ~ok THEN Work!AfterFailure
                      ELSE IF Len(results') = Len(draft.steps) THEN "verify" ELSE "execute"
      BY <1>4, Zenon DEF ok
    <2> QED BY <2>1 DEF Work!AfterFailure
  <1> HIDE DEF ok
  <1>7. r.ok = ok /\ r.given = Len(results) /\ r.id = Work!Current.id /\ r.judged = draft.judged
    BY <1>3
  <1> HIDE DEF r
  <1>8. r.ok \in BOOLEAN /\ WorkTrust(draft.since, r.id, r.judged) /\ (stage' = "execute" => r.ok)
    BY <1>2, <1>5, <1>6, <1>7
  <1>9. WorkDone'
    BY <1>1, <1>2, <1>6, <1>7, <1>8, WorkResulted
  <1>10. WorkPlace'
    BY <1>1, <1>6, WorkStays DEF WorkPlace, WorkStages
  <1>11. WorkDraft(draft)' /\ WorkNoted'
    BY <1>1 DEF WorkDraft, WorkNoted
  <1> QED BY <1>9, <1>10, <1>11

\* What happens to the memory: an answer more, or a rollback.
LEMMA WorkRolledBack ==
    ASSUME WorkParameters, WorkInv, stage \notin {"attempt", "over"}, setup' = setup,
           listed' = listed, results' = results, draft' = draft, stage' = "attempt",
           history' = SubSeq(history, 1, milestone.kept),
           milestone' = [milestone EXCEPT !.reflections = milestone.reflections + 1]
    PROVE  WorkInv'
  <1> USE DEF WorkInv
  <1>1. /\ milestone \in WorkMilestone /\ milestone.reflections < milestone.attempt
        /\ history \in Seq(Messages \union {"answer", "reflection"}) /\ milestone.kept <= Len(history)
        /\ MaxTries \in Nat
    BY DEF WorkPlace, WorkParameters
  <1>2. milestone.kept \in 0..Len(history) /\ milestone.kept \in Nat
    BY <1>1 DEF WorkMilestone
  <1>3. history' \in Seq(Messages \union {"answer", "reflection"}) /\ Len(history') = milestone.kept
    BY <1>1, <1>2, Halves
  <1>4. /\ milestone' \in WorkMilestone /\ milestone'.kept = milestone.kept
        /\ milestone'.attempt = milestone.attempt /\ milestone'.reflections <= milestone'.attempt
    <2>1. /\ milestone.attempt \in 0..MaxTries /\ milestone.reflections \in 0..MaxTries
          /\ milestone.reflections + 1 \in 0..MaxTries
      BY <1>1 DEF WorkMilestone
    <2>2. PICK n \in 0..MaxTries : n = milestone.reflections + 1
      BY <2>1
    <2>3. milestone' = [milestone EXCEPT !.reflections = n]
      BY <2>2
    <2>4. /\ milestone' \in WorkMilestone /\ milestone'.kept = milestone.kept
          /\ milestone'.attempt = milestone.attempt /\ milestone'.reflections = n
      BY ONLY <1>1, <2>3, n \in 0..MaxTries DEF WorkMilestone
    <2> QED BY <1>1, <2>1, <2>2, <2>4
  <1>5. WorkPlace'
    <2>1. setup' \in Setups /\ listed' \in Work!Registries /\ stage' \in WorkStages
      BY DEF WorkPlace, WorkStages, Work!Registries
    <2>2. milestone'.kept <= Len(history')
      BY <1>2, <1>3, <1>4
    <2> QED BY <1>3, <1>4, <2>1, <2>2 DEF WorkPlace, Work!Registries
  <1>6. WorkDraft(draft)' /\ WorkNoted'
    BY DEF WorkDraft, WorkNoted
  <1>7. WorkDone'
    BY DEF WorkDone
  <1> QED BY <1>5, <1>6, <1>7

LEMMA WorkMeetsPlanTool ==
    ASSUME WorkParameters, WorkInv, Work!MeetsPlanTool PROVE WorkInv'
  <1>1. /\ stage = "execute" /\ UNCHANGED <<setup, listed, draft, results>> /\ stage' = "attempt"
        /\ history' = SubSeq(history, 1, milestone.kept)
        /\ milestone' = [milestone EXCEPT !.reflections = milestone.reflections + 1]
    BY Zenon DEF Work!MeetsPlanTool, Work!StepDriven
  <1> QED BY <1>1, WorkRolledBack

LEMMA WorkRemediate ==
    ASSUME WorkParameters, WorkInv, Work!Remediate PROVE WorkInv'
  <1>1. /\ stage = "verify" /\ UNCHANGED <<setup, listed, draft, results>> /\ stage' = "attempt"
        /\ history' = SubSeq(history, 1, milestone.kept)
        /\ milestone' = [milestone EXCEPT !.reflections = milestone.reflections + 1]
    BY Zenon DEF Work!Remediate
  <1> QED BY <1>1, WorkRolledBack

LEMMA WorkModelWorks ==
    ASSUME WorkParameters, WorkInv, Work!ModelWorks PROVE WorkInv'
  <1> USE DEF WorkInv
  <1>1. /\ stage = "execute" /\ ~setup.stepDriven /\ stage' = "verify"
        /\ history' = Append(history, "answer") /\ UNCHANGED <<setup, listed, milestone, draft>>
    BY DEF Work!ModelWorks
  <1>2. PICK ok \in BOOLEAN :
           results' = <<[ok |-> ok, worked |-> ok, given |-> 0, judged |-> 0, id |-> "model"]>>
    BY DEF Work!ModelWorks
  <1>3. /\ Len(results') = 1 /\ DOMAIN results' = 1..1
        /\ results'[1].ok \in BOOLEAN /\ results'[1].given = 0
    BY <1>2
  <1>4. WorkDone'
    BY <1>1, <1>3 DEF WorkDone
  <1>5. WorkPlace'
    <2>1. history \in Seq(Messages \union {"answer", "reflection"}) /\ milestone.kept <= Len(history)
          /\ milestone.kept \in Nat
      BY DEF WorkPlace, WorkMilestone
    <2>2. history' \in Seq(Messages \union {"answer", "reflection"}) /\ milestone.kept <= Len(history')
      BY <1>1, <2>1
    <2> QED BY <1>1, <2>2 DEF WorkPlace, WorkStages, Work!Registries
  <1>6. WorkDraft(draft)' /\ WorkNoted'
    BY <1>1 DEF WorkDraft, WorkNoted
  <1> QED BY <1>4, <1>5, <1>6

LEMMA WorkVerify ==
    ASSUME WorkParameters, WorkInv, Work!Verify PROVE WorkInv'
  <1> USE DEF WorkInv
  <1>1. stage = "verify" /\ UNCHANGED <<setup, listed, history, draft, results>>
        /\ stage' \in {"attempt", "over"}
    BY DEF Work!Verify
  <1>2. /\ milestone \in WorkMilestone /\ Len(history) \in Nat /\ milestone.kept <= Len(history)
        /\ milestone.reflections < milestone.attempt /\ Stretch \in Nat /\ MaxTries \in Nat
    BY <1>1 DEF WorkPlace, WorkParameters
  <1>3. /\ milestone' \in WorkMilestone /\ milestone'.kept <= Len(history)
        /\ milestone'.reflections <= milestone'.attempt
    <2>1. CASE /\ milestone.at < Stretch
               /\ milestone' = [at |-> milestone.at + 1, attempt |-> 0, reflections |-> 0,
                                kept |-> Len(history), verified |-> TRUE]
      BY <1>2, <2>1 DEF WorkMilestone
    <2>2. CASE milestone' = [milestone EXCEPT !.verified = TRUE]
      <3>1. PICK yes \in BOOLEAN : yes = TRUE
        BY Zenon
      <3>2. milestone' = [milestone EXCEPT !.verified = yes]
        BY <2>2, <3>1, Zenon
      <3>3. /\ milestone' \in WorkMilestone /\ milestone'.kept = milestone.kept
            /\ milestone'.reflections = milestone.reflections
            /\ milestone'.attempt = milestone.attempt
        BY <1>2, <3>2 DEF WorkMilestone
      <3>4. milestone.reflections \in Nat /\ milestone.attempt \in Nat
        BY <1>2 DEF WorkMilestone
      <3> QED BY <1>2, <3>3, <3>4
    <2> QED BY <1>1, <2>1, <2>2, Zenon DEF Work!Verify
  <1>4. WorkPlace'
    BY <1>1, <1>3 DEF WorkPlace, WorkStages, Work!Registries
  <1>5. WorkDraft(draft)' /\ WorkNoted'
    BY <1>1 DEF WorkDraft, WorkNoted
  <1>6. WorkDone'
    BY <1>1 DEF WorkDone
  <1> QED BY <1>4, <1>5, <1>6

-----------------------------------------------------------------------------

LEMMA WorkNext ==
    ASSUME WorkParameters, WorkInv, [Work!Next]_Work!vars PROVE WorkInv'
  BY WorkBeginAttempt, WorkQuiet, WorkRegistryChanges, WorkPlan, WorkPlansExhausted, WorkValidate, WorkGate, WorkInvoke,
     WorkMeetsPlanTool, WorkRemediate, WorkModelWorks, WorkVerify DEF Work!Next

LEMMA WorkHolds == ASSUME WorkParameters, WorkInv PROVE Work!TypeOK /\ Work!StepsOnTrust
  <1> USE DEF WorkInv
  <1>1. Work!StepsOnTrust
    <2> SUFFICES ASSUME setup.stepDriven, NEW i \in DOMAIN results
                 PROVE  /\ i > 1 => results[i - 1].ok
                        /\ results[i].given = i - 1
                        /\ \E c \in draft.since : /\ c.id = results[i].id /\ ~c.planTool
                                                  /\ c.risk = results[i].judged
      BY Zenon DEF Work!StepsOnTrust
    <2>1. i \in 1..Len(results)
      BY DEF WorkDone
    <2> QED BY <2>1 DEF WorkDone, WorkResult, WorkTrust
  <1>2. setup \in [planner : {"default", "custom"}, stepDriven : BOOLEAN,
                   executor : {"tool loop", "own"}, second : BOOLEAN]
    BY Zenon DEF WorkPlace, WorkParameters, WorkSetups
  <1>3. /\ listed \in Work!Registries
        /\ milestone \in [at : 1..Stretch, attempt : 0..MaxTries, reflections : 0..MaxTries,
                          kept : Nat, verified : BOOLEAN]
        /\ stage \in {"attempt", "plan", "validate", "execute", "invoke", "verify", "over"}
    BY DEF WorkPlace, WorkMilestone, WorkStages
  <1>4. Work!Range(history) \subseteq Messages \union {"answer", "reflection"}
    BY DEF WorkPlace, Work!Range
  <1>5. /\ draft.tries \in 0..MaxPlans /\ draft.ok \in BOOLEAN
        /\ \A i \in DOMAIN results : results[i].ok \in BOOLEAN /\ results[i].given \in 0..Len(results)
    BY DEF WorkDraft, WorkDone
  <1>6. Work!TypeOK
    BY <1>2, <1>3, <1>4, <1>5, Zenon DEF Work!TypeOK
  <1> QED BY <1>1, <1>6

\* Steps are executed in the order of the plan and never behind a failure, each judged
\* by a risk its capability was registered with between the validation of the plan and
\* the step's turn, however often capabilities are replaced and withdrawn while steps
\* wait, for any plans, capabilities, milestones and attempts (dare_agent, validators).
THEOREM WorkIsTrusted ==
    ASSUME WorkParameters
    PROVE  Work!Spec => [](Work!TypeOK /\ Work!StepsOnTrust)
  <1>1. Work!Init => WorkInv
    BY WorkInit
  <1>2. WorkInv /\ [Work!Next]_Work!vars => WorkInv'
    BY WorkNext
  <1>3. WorkInv => Work!TypeOK /\ Work!StepsOnTrust
    BY WorkHolds
  <1> QED BY <1>1, <1>2, <1>3, PTL DEF Work!Spec

-----------------------------------------------------------------------------
(* McpRegistry.                                                              *)

RegistryParameters ==
    /\ MCPs # {} /\ Plugin \notin MCPs
    /\ {Registry!None, Registry!Direct} \intersect (MCPs \union {Plugin}) = {}
    /\ Names \subseteq Nat /\ Remote \subseteq SUBSET Names /\ Local \subseteq Names
    /\ Remembered \subseteq BOOLEAN

RegistryProviders == MCPs \union {Plugin}
RegistryMine(n, src) == [tool |-> Registry!Made(src, n), source |-> src, enabled |-> TRUE]

\* The registry and the index of tool objects say the same, and a tool stands under
\* its own name and its own maker, of whom it is the only one unless it is registered
\* by itself.
RegistryIndexed(m) ==
    /\ m = [registry |-> m.registry, known |-> m.known, listed |-> m.listed, owns |-> m.owns]
    /\ m.registry \in [Names -> Registry!Entries \union {Registry!Absent}]
    /\ m.listed \in Seq(RegistryProviders)
    /\ m.owns \in [RegistryProviders -> SUBSET Names]
    /\ m.known = {m.registry[n].tool : n \in {k \in Names : Registry!Taken(m, k)}}
    /\ \A n \in Names : Registry!Taken(m, n) =>
          /\ m.registry[n].tool.name = n /\ m.registry[n].tool.maker = m.registry[n].source
          /\ m.registry[n].source # Registry!Direct => m.registry[n].tool.version = 1
    /\ \A i, j \in DOMAIN m.listed : m.listed[i] = m.listed[j] => i = j

\* Who is listed owns what he is the source of, and nobody else is the source of
\* anything.
RegistryOwned(m) ==
    \A p \in RegistryProviders :
        Registry!OwnedBy(m, p) = IF Registry!Listed(m, p) THEN m.owns[p] ELSE {}

RegistryCalls ==
    [phase : Registry!Phases, new : MCPs \union {Registry!None},
     old : MCPs \union {Registry!None}, result : {"none", "ok", "raised"}]

\* A provider that is about to take over has its tools in the registry, and is
\* nobody else's new provider.
RegistryServed ==
    \A c \in Callers :
        /\ op[c].phase \in {"closing", "undoing"} =>
              /\ op[c].new \in MCPs /\ op[c].new # current
              /\ \A d \in Callers : op[d].new = op[c].new => d = c
        /\ op[c].phase = "closing" =>
              \A n \in offers[op[c].new] : tm.registry[n].source = op[c].new

\* Nobody is about to disconnect a provider that is listed.
RegistryAlive ==
    /\ RegistryOwned(tm)
    /\ \A p \in MCPs : Registry!Listed(tm, p) => p \in live
    /\ \A c \in Callers :
          /\ op[c].phase # "undoing"
          /\ op[c].phase \in {"closing", "unloading"} => ~Registry!Listed(tm, op[c].old)

RegistryInv ==
    /\ RegistryIndexed(tm)
    /\ offers \in [RegistryProviders -> SUBSET Names] /\ live \subseteq MCPs
    /\ current \in MCPs \union {Registry!None} /\ clash \in BOOLEAN
    /\ op \in [Callers -> RegistryCalls]
    /\ RegistryServed
    /\ ~clash => RegistryAlive

-----------------------------------------------------------------------------
RegistryKept(m, r, q, names) ==
    \A n \in names : m.registry[n].source = q => r.registry[n].source = q

LEMMA RegistryEntries ==
    ASSUME RegistryParameters, NEW m, RegistryIndexed(m)
    PROVE  /\ \A n \in Names : ~Registry!Taken(m, n) <=> m.registry[n] = Registry!Absent
           /\ \A n \in Names : m.registry[n].source \in RegistryProviders => Registry!Taken(m, n)
           /\ \A n \in Names, p \in RegistryProviders :
                 Registry!Made(p, n) \in m.known <=> m.registry[n].source = p
           /\ \A n \in Names : Registry!Taken(m, n) => m.registry[n] \in Registry!Entries
           /\ \A n \in Names : Registry!Taken(m, n) => m.registry[n].tool.name = n
           /\ \A p : Registry!OwnedBy(m, p) \subseteq Names
           /\ \A p : Registry!Listed(m, p) => p \in RegistryProviders
  <1>1. \A n \in Names : ~Registry!Taken(m, n) <=> m.registry[n] = Registry!Absent
    BY DEF Registry!Taken
  <1>2. \A n \in Names : m.registry[n].source \in RegistryProviders => Registry!Taken(m, n)
    BY <1>1 DEF Registry!Absent, RegistryParameters, RegistryProviders
  <1>3. \A n \in Names : Registry!Taken(m, n) => m.registry[n] \in Registry!Entries
    BY <1>1 DEF RegistryIndexed
  <1>4. ASSUME NEW n \in Names, NEW p \in RegistryProviders, m.registry[n].source = p
        PROVE  Registry!Made(p, n) \in m.known
    <2>1. Registry!Taken(m, n) /\ m.registry[n] \in Registry!Entries
      BY <1>2, <1>3, <1>4
    <2>2. m.registry[n].tool \in m.known
      BY <2>1 DEF RegistryIndexed
    <2>3. m.registry[n].tool \in Registry!Tools
      BY <2>1 DEF Registry!Entries
    <2>4. p # Registry!Direct
      BY DEF RegistryParameters, RegistryProviders
    <2>5. /\ m.registry[n].tool.name = n /\ m.registry[n].tool.maker = p
          /\ m.registry[n].tool.version = 1
      BY <1>4, <2>1, <2>4 DEF RegistryIndexed
    <2>6. m.registry[n].tool = Registry!Made(p, n)
      BY <2>3, <2>5 DEF Registry!Tools, Registry!Made
    <2> QED BY <2>2, <2>6
  <1>5. ASSUME NEW n \in Names, NEW p \in RegistryProviders, Registry!Made(p, n) \in m.known
        PROVE  m.registry[n].source = p
    <2>1. PICK k \in Names : Registry!Taken(m, k) /\ m.registry[k].tool = Registry!Made(p, n)
      BY <1>5 DEF RegistryIndexed
    <2>2. m.registry[k].tool.name = n /\ m.registry[k].tool.maker = p
      BY <2>1 DEF Registry!Made
    <2> QED BY <2>1, <2>2 DEF RegistryIndexed
  <1>6. \A p : Registry!OwnedBy(m, p) \subseteq Names
    BY DEF Registry!OwnedBy
  <1>7. \A p : Registry!Listed(m, p) => p \in RegistryProviders
    BY DEF Registry!Listed, RegistryIndexed
  <1>8. \A n \in Names : Registry!Taken(m, n) => m.registry[n].tool.name = n
    BY DEF RegistryIndexed
  <1> QED BY <1>1, <1>2, <1>3, <1>4, <1>5, <1>6, <1>7, <1>8

LEMMA RegistryFields ==
    ASSUME NEW m,
           m = [registry |-> m.registry, known |-> m.known, listed |-> m.listed, owns |-> m.owns]
    PROVE  /\ \A x, y : [m EXCEPT !.registry = x, !.known = y]
                        = [registry |-> x, known |-> y, listed |-> m.listed, owns |-> m.owns]
           /\ \A x, y : [m EXCEPT !.listed = x, !.owns = y]
                        = [registry |-> m.registry, known |-> m.known, listed |-> x, owns |-> y]
           /\ \A x : [m EXCEPT !.listed = x]
                     = [registry |-> m.registry, known |-> m.known, listed |-> x, owns |-> m.owns]
           /\ \A x : [m EXCEPT !.owns = x]
                     = [registry |-> m.registry, known |-> m.known, listed |-> m.listed, owns |-> x]
  <1>1. PICK r, k, l, o : /\ m = [registry |-> r, known |-> k, listed |-> l, owns |-> o]
                          /\ r = m.registry /\ k = m.known /\ l = m.listed /\ o = m.owns
    OBVIOUS
  <1>2. ASSUME NEW x, NEW y
        PROVE  [m EXCEPT !.registry = x, !.known = y]
               = [registry |-> x, known |-> y, listed |-> l, owns |-> o]
    <2>1. [m EXCEPT !.registry = x] = [registry |-> x, known |-> k, listed |-> l, owns |-> o]
      BY <1>1
    <2>2. [[registry |-> x, known |-> k, listed |-> l, owns |-> o] EXCEPT !.known = y]
          = [registry |-> x, known |-> y, listed |-> l, owns |-> o]
      OBVIOUS
    <2>3. [m EXCEPT !.registry = x, !.known = y] = [[m EXCEPT !.registry = x] EXCEPT !.known = y]
      BY Zenon
    <2> QED BY <2>1, <2>2, <2>3, Zenon
  <1>3. ASSUME NEW x, NEW y
        PROVE  [m EXCEPT !.listed = x, !.owns = y]
               = [registry |-> r, known |-> k, listed |-> x, owns |-> y]
    <2>1. [m EXCEPT !.listed = x] = [registry |-> r, known |-> k, listed |-> x, owns |-> o]
      BY <1>1
    <2>2. [[registry |-> r, known |-> k, listed |-> x, owns |-> o] EXCEPT !.owns = y]
          = [registry |-> r, known |-> k, listed |-> x, owns |-> y]
      OBVIOUS
    <2>3. [m EXCEPT !.listed = x, !.owns = y] = [[m EXCEPT !.listed = x] EXCEPT !.owns = y]
      BY Zenon
    <2> QED BY <2>1, <2>2, <2>3, Zenon
  <1>4. /\ \A x : [m EXCEPT !.listed = x] = [registry |-> r, known |-> k, listed |-> x, owns |-> o]
        /\ \A x : [m EXCEPT !.owns = x] = [registry |-> r, known |-> k, listed |-> l, owns |-> x]
    BY <1>1
  <1>5. ASSUME NEW x, NEW y
        PROVE  [m EXCEPT !.registry = x, !.known = y]
               = [registry |-> x, known |-> y, listed |-> m.listed, owns |-> m.owns]
    <2>1. [registry |-> x, known |-> y, listed |-> l, owns |-> o]
          = [registry |-> x, known |-> y, listed |-> m.listed, owns |-> m.owns]
      BY <1>1
    <2> QED BY <1>2, <2>1, Zenon
  <1>6. ASSUME NEW x, NEW y
        PROVE  [m EXCEPT !.listed = x, !.owns = y]
               = [registry |-> m.registry, known |-> m.known, listed |-> x, owns |-> y]
    <2>1. [registry |-> r, known |-> k, listed |-> x, owns |-> y]
          = [registry |-> m.registry, known |-> m.known, listed |-> x, owns |-> y]
      BY <1>1
    <2> QED BY <1>3, <2>1, Zenon
  <1>7. /\ \A x : [m EXCEPT !.listed = x]
                  = [registry |-> m.registry, known |-> m.known, listed |-> x, owns |-> m.owns]
        /\ \A x : [m EXCEPT !.owns = x]
                  = [registry |-> m.registry, known |-> m.known, listed |-> m.listed, owns |-> x]
    BY <1>1, <1>4
  <1> QED BY <1>5, <1>6, <1>7, Zenon

\* New objects under free names.
LEMMA RegistryPutAll ==
    ASSUME RegistryParameters, NEW m, RegistryIndexed(m),
           NEW p \in RegistryProviders \union {Registry!Direct},
           NEW names, names \subseteq Names, \A n \in names : ~Registry!Taken(m, n)
    PROVE  /\ RegistryIndexed(Registry!PutAll(m, p, names))
           /\ Registry!PutAll(m, p, names).listed = m.listed
           /\ Registry!PutAll(m, p, names).owns = m.owns
           /\ Registry!PutAll(m, p, names).registry
              = [n \in Names |-> IF n \in names THEN RegistryMine(n, p) ELSE m.registry[n]]
  <1> DEFINE r == [n \in Names |-> IF n \in names THEN RegistryMine(n, p) ELSE m.registry[n]]
  <1> DEFINE d == [registry |-> r, known |-> m.known \union Registry!MadeAll(p, names),
                   listed |-> m.listed, owns |-> m.owns]
  <1>1. Registry!PutAll(m, p, names) = d
    <2>1. m = [registry |-> m.registry, known |-> m.known, listed |-> m.listed, owns |-> m.owns]
      BY DEF RegistryIndexed
    <2>2. Registry!PutAll(m, p, names)
            = [m EXCEPT !.registry = r, !.known = m.known \union Registry!MadeAll(p, names)]
      BY Zenon DEF Registry!PutAll, RegistryMine
    <2>3. \A x, y : [m EXCEPT !.registry = x, !.known = y]
                    = [registry |-> x, known |-> y, listed |-> m.listed, owns |-> m.owns]
      BY <2>1, RegistryFields, Zenon
    <2> HIDE DEF r
    <2> QED BY <2>2, <2>3, Zenon
  <1>2. RegistryIndexed(d)
    <2>1. \A n \in names : RegistryMine(n, p) \in Registry!Entries /\ RegistryMine(n, p) # Registry!Absent
      BY DEF RegistryMine, Registry!Entries, Registry!Tools, Registry!Made, Registry!Sources,
         RegistryProviders, Registry!Absent, RegistryParameters
    <2>2. r \in [Names -> Registry!Entries \union {Registry!Absent}]
      BY <2>1 DEF RegistryIndexed
    <2>3. \A n \in Names : Registry!Taken(d, n) <=> n \in names \/ Registry!Taken(m, n)
      BY <2>1 DEF Registry!Taken
    <2>4. \A n \in Names : Registry!Taken(d, n) =>
            /\ r[n].tool.name = n /\ r[n].tool.maker = r[n].source
            /\ r[n].source # Registry!Direct => r[n].tool.version = 1
      BY <2>3 DEF RegistryIndexed, RegistryMine, Registry!Made
    <2>5. d.known = {r[n].tool : n \in {k \in Names : Registry!Taken(d, k)}}
      <3>1. \A n \in names : r[n].tool = Registry!Made(p, n)
        BY DEF RegistryMine
      <3>2. \A n \in Names : n \notin names => r[n].tool = m.registry[n].tool
        OBVIOUS
      <3>3. d.known = {m.registry[n].tool : n \in {k \in Names : Registry!Taken(m, k)}}
                      \union {Registry!Made(p, n) : n \in names}
        BY DEF RegistryIndexed, Registry!MadeAll
      <3> HIDE DEF r
      <3> QED BY <2>3, <3>1, <3>2, <3>3
    <2>6. /\ d = [registry |-> d.registry, known |-> d.known, listed |-> d.listed, owns |-> d.owns]
          /\ d.registry = r /\ d.listed = m.listed /\ d.owns = m.owns
      OBVIOUS
    <2> HIDE DEF d, r
    <2> QED BY <2>2, <2>4, <2>5, <2>6 DEF RegistryIndexed
  <1> QED BY <1>1, <1>2

LEMMA RegistryRemoveAll ==
    ASSUME RegistryParameters, NEW m, RegistryIndexed(m), NEW names, names \subseteq Names
    PROVE  /\ RegistryIndexed(Registry!RemoveAll(m, names))
           /\ Registry!RemoveAll(m, names).listed = m.listed
           /\ Registry!RemoveAll(m, names).owns = m.owns
           /\ Registry!RemoveAll(m, names).registry
              = [n \in Names |-> IF n \in names THEN Registry!Absent ELSE m.registry[n]]
  <1> DEFINE r == [n \in Names |-> IF n \in names THEN Registry!Absent ELSE m.registry[n]]
  <1> DEFINE t == {m.registry[n].tool : n \in {k \in names : Registry!Taken(m, k)}}
  <1> DEFINE d == [registry |-> r, known |-> m.known \ t, listed |-> m.listed, owns |-> m.owns]
  <1>1. Registry!RemoveAll(m, names) = d
    <2>1. m = [registry |-> m.registry, known |-> m.known, listed |-> m.listed, owns |-> m.owns]
      BY DEF RegistryIndexed
    <2>2. Registry!RemoveAll(m, names) = [m EXCEPT !.registry = r, !.known = m.known \ t]
      BY Zenon DEF Registry!RemoveAll
    <2>3. \A x, y : [m EXCEPT !.registry = x, !.known = y]
                    = [registry |-> x, known |-> y, listed |-> m.listed, owns |-> m.owns]
      BY <2>1, RegistryFields, Zenon
    <2> HIDE DEF r, t
    <2> QED BY <2>2, <2>3, Zenon
  <1>2. RegistryIndexed(d)
    <2>2. r \in [Names -> Registry!Entries \union {Registry!Absent}]
      BY DEF RegistryIndexed
    <2>3. \A n \in Names : Registry!Taken(d, n) <=> n \notin names /\ Registry!Taken(m, n)
      BY DEF Registry!Taken
    <2>4. \A n \in Names : Registry!Taken(d, n) =>
            /\ r[n].tool.name = n /\ r[n].tool.maker = r[n].source
            /\ r[n].source # Registry!Direct => r[n].tool.version = 1
      BY <2>3 DEF RegistryIndexed
    <2>5. d.known = {r[n].tool : n \in {k \in Names : Registry!Taken(d, k)}}
      <3>1. \A n \in Names : n \notin names => r[n].tool = m.registry[n].tool
        OBVIOUS
      <3>2. \A n, k \in Names : Registry!Taken(m, n) /\ Registry!Taken(m, k)
                                  => (m.registry[n].tool = m.registry[k].tool => n = k)
        <4>1. \A n \in Names : Registry!Taken(m, n) => m.registry[n].tool.name = n
          BY RegistryEntries
        <4> HIDE DEF d, r, t
        <4> QED BY <4>1
      <3>3. m.known = {m.registry[n].tool : n \in {k \in Names : Registry!Taken(m, k)}}
        BY DEF RegistryIndexed
      <3>4. d.known = m.known \ t
        OBVIOUS
      <3> HIDE DEF r, d
      <3> QED BY <2>3, <3>1, <3>2, <3>3, <3>4
    <2>6. /\ d = [registry |-> d.registry, known |-> d.known, listed |-> d.listed, owns |-> d.owns]
          /\ d.registry = r /\ d.listed = m.listed /\ d.owns = m.owns
      OBVIOUS
    <2> HIDE DEF d, r
    <2> QED BY <2>2, <2>4, <2>5, <2>6 DEF RegistryIndexed
  <1> QED BY <1>1, <1>2

\* A synchronisation: of the provider's own entries those it no longer offers go, and
\* if nothing was in the way it owns what it offers.
LEMMA RegistrySync ==
    ASSUME RegistryParameters, NEW m, RegistryIndexed(m), NEW p \in RegistryProviders,
           NEW names, names \subseteq Names,
           NEW r, r = Registry!Sync(m, p, names)
    PROVE  /\ r = [ok |-> r.ok, m |-> r.m]
           /\ (\A n \in Names : ~Registry!Taken(m, n)) => r.ok
           /\ r.ok \in BOOLEAN /\ RegistryIndexed(r.m) /\ r.m.listed = m.listed
           /\ \A q \in RegistryProviders : q # p => RegistryKept(m, r.m, q, Names)
           /\ RegistryKept(m, r.m, p, names)
           /\ r.ok => \A n \in names : r.m.registry[n].source = p
           /\ r.ok /\ Registry!OwnedBy(m, p) \subseteq m.owns[p] =>
                 /\ Registry!OwnedBy(r.m, p) = names /\ r.m.owns[p] = names
                 /\ \A q \in RegistryProviders : q # p =>
                       r.m.owns[q] = m.owns[q] /\ Registry!OwnedBy(r.m, q) = Registry!OwnedBy(m, q)
  <1> DEFINE fresh == {n \in names : Registry!Made(p, n) \notin m.known}
  <1> DEFINE taken == {n \in fresh : Registry!Taken(m, n)}
  <1> DEFINE before == {n \in fresh : \A c \in taken : n < c}
  <1> DEFINE done == Registry!PutAll(m, p, before)
  <1> DEFINE gone == {n \in m.owns[p] \ names : done.registry[n].source = p}
  <1> DEFINE less == Registry!RemoveAll(done, gone)
  <1> DEFINE mine == Registry!OwnedBy(done, p) \intersect names
  <1>1. r = IF taken # {} THEN [ok |-> FALSE, m |-> done]
            ELSE [ok |-> TRUE, m |-> [less EXCEPT !.owns[p] = mine]]
    BY Zenon DEF Registry!Sync
  <1>2. fresh = {n \in names : m.registry[n].source # p}
    BY RegistryEntries
  <1>3. before \subseteq Names /\ \A n \in before : ~Registry!Taken(m, n)
    <2>1. \A n \in Names : ~(n < n)
      BY DEF RegistryParameters
    <2> QED BY <2>1
  <1> HIDE DEF before
  <1>4. /\ RegistryIndexed(done) /\ done.listed = m.listed /\ done.owns = m.owns
        /\ done.registry = [n \in Names |-> IF n \in before THEN RegistryMine(n, p) ELSE m.registry[n]]
    BY <1>3, RegistryPutAll
  <1> HIDE DEF done
  <1>5. \A n \in Names : done.registry[n].source = IF n \in before THEN p ELSE m.registry[n].source
    BY <1>4 DEF RegistryMine
  <1>6. \A q \in RegistryProviders : RegistryKept(m, done, q, Names)
    <2>1. \A n \in before : m.registry[n].source \notin RegistryProviders
      BY <1>3, RegistryEntries
    <2> QED BY <1>5, <2>1 DEF RegistryKept
  <1>7. CASE taken # {}
    <2>1. r.ok = FALSE /\ r.m = done /\ r = [ok |-> r.ok, m |-> r.m]
      BY <1>1, <1>7
    <2>2. ~\A n \in Names : ~Registry!Taken(m, n)
      BY <1>7
    <2> QED BY <2>1, <2>2, <1>4, <1>6 DEF RegistryKept
  <1>8. CASE taken = {}
    <2> DEFINE d == [less EXCEPT !.owns[p] = mine]
    <2>1. r.ok = TRUE /\ r.m = d /\ r = [ok |-> r.ok, m |-> r.m]
      <3>1. r = [ok |-> TRUE, m |-> d]
        BY <1>1, <1>8
      <3> HIDE DEF d
      <3> QED BY <3>1
    <2>2. gone \subseteq Names
      BY DEF RegistryIndexed
    <2> HIDE DEF gone
    <2>3. /\ RegistryIndexed(less) /\ less.listed = m.listed /\ less.owns = m.owns
          /\ less.registry = [n \in Names |-> IF n \in gone THEN Registry!Absent ELSE done.registry[n]]
      BY <1>4, <2>2, RegistryRemoveAll
    <2> HIDE DEF less
    <2>4. /\ d.registry = less.registry /\ d.listed = m.listed
          /\ d.owns = [m.owns EXCEPT ![p] = mine] /\ RegistryIndexed(d)
      <3>1. d = [registry |-> less.registry, known |-> less.known, listed |-> less.listed,
                 owns |-> [less.owns EXCEPT ![p] = mine]]
        <4>1. less = [registry |-> less.registry, known |-> less.known, listed |-> less.listed,
                      owns |-> less.owns]
          BY <2>3 DEF RegistryIndexed
        <4> HIDE DEF mine
        <4> QED BY <4>1
      <3>2. mine \subseteq Names
        OBVIOUS
      <3>3. [m.owns EXCEPT ![p] = mine] \in [RegistryProviders -> SUBSET Names]
        BY <3>2, <2>3 DEF RegistryIndexed
      <3> HIDE DEF mine, d
      <3>4. \A n : Registry!Taken(d, n) <=> Registry!Taken(less, n)
        BY <3>1 DEF Registry!Taken
      <3>5. d.registry = less.registry /\ d.known = less.known /\ d.listed = less.listed
            /\ d.owns = [less.owns EXCEPT ![p] = mine]
        BY <3>1
      <3>6. {k \in Names : Registry!Taken(d, k)} = {k \in Names : Registry!Taken(less, k)}
        BY <3>4
      <3>7. d.known = {d.registry[n].tool : n \in {k \in Names : Registry!Taken(d, k)}}
        BY <2>3, <3>5, <3>6 DEF RegistryIndexed
      <3>8. \A n \in Names : Registry!Taken(d, n) =>
              /\ d.registry[n].tool.name = n /\ d.registry[n].tool.maker = d.registry[n].source
              /\ d.registry[n].source # Registry!Direct => d.registry[n].tool.version = 1
        BY <2>3, <3>4, <3>5 DEF RegistryIndexed
      <3>9. /\ d.registry \in [Names -> Registry!Entries \union {Registry!Absent}]
            /\ d.listed \in Seq(RegistryProviders)
            /\ \A i, j \in DOMAIN d.listed : d.listed[i] = d.listed[j] => i = j
            /\ d.owns \in [RegistryProviders -> SUBSET Names]
        BY <2>3, <3>3, <3>5 DEF RegistryIndexed
      <3>10. d = [registry |-> d.registry, known |-> d.known, listed |-> d.listed, owns |-> d.owns]
        BY <3>1
      <3>11. RegistryIndexed(d)
        BY <3>7, <3>8, <3>9, <3>10 DEF RegistryIndexed
      <3> QED BY <2>3, <3>5, <3>11
    <2>5. before = fresh
      BY <1>8 DEF before
    <2>6. \A n \in names : done.registry[n].source = p
      BY <1>2, <1>5, <2>5
    <2>7. mine = names
      BY <2>6 DEF Registry!OwnedBy
    <2> HIDE DEF d, mine, fresh, taken
    <2>8. \A n \in gone : n \notin names /\ done.registry[n].source = p
      BY DEF gone
    <2>9. \A n \in Names : d.registry[n] = IF n \in gone THEN Registry!Absent ELSE done.registry[n]
      BY <2>3, <2>4
    <2>10. \A q \in RegistryProviders : Registry!Absent.source # q
      BY DEF Registry!Absent, RegistryParameters, RegistryProviders
    <2>11. /\ \A q \in RegistryProviders : q # p => RegistryKept(m, d, q, Names)
           /\ RegistryKept(m, d, p, names)
      <3>1. \A q \in RegistryProviders : q # p => RegistryKept(done, d, q, Names)
        BY <2>8, <2>9 DEF RegistryKept
      <3>2. RegistryKept(done, d, p, names)
        BY <2>8, <2>9 DEF RegistryKept
      <3> QED BY <1>6, <3>1, <3>2 DEF RegistryKept
    <2>12. \A n \in names : d.registry[n].source = p
      BY <2>6, <2>8, <2>9
    <2>13. ASSUME Registry!OwnedBy(m, p) \subseteq m.owns[p]
           PROVE  Registry!OwnedBy(d, p) = names /\ d.owns[p] = names
      <3>1. d.owns[p] = names
        BY <2>4, <2>7 DEF RegistryIndexed
      <3>2. \A n \in Names : n \notin names /\ d.registry[n].source = p => FALSE
        <4>1. SUFFICES ASSUME NEW n \in Names, n \notin names, d.registry[n].source = p
                       PROVE  FALSE
          OBVIOUS
        <4>2. n \notin gone /\ done.registry[n].source = p
          BY <2>9, <2>10, <4>1
        <4>3. n \notin before
          BY <2>5, <4>1 DEF fresh
        <4>4. m.registry[n].source = p
          BY <1>5, <4>2, <4>3
        <4>5. n \in m.owns[p]
          BY <2>13, <4>4 DEF Registry!OwnedBy
        <4> QED BY <4>1, <4>2, <4>5 DEF gone
      <3> QED BY <2>12, <3>1, <3>2 DEF Registry!OwnedBy
    <2>14. ASSUME NEW q \in RegistryProviders, q # p
           PROVE  d.owns[q] = m.owns[q] /\ Registry!OwnedBy(d, q) = Registry!OwnedBy(m, q)
      <3>1. d.owns[q] = m.owns[q]
        BY <2>4, <2>14 DEF RegistryIndexed
      <3>2. \A n \in Names : d.registry[n].source = q <=> m.registry[n].source = q
        <4>1. \A n \in before : m.registry[n].source \notin RegistryProviders
          BY <1>3, RegistryEntries
        <4>2. \A n \in Names : done.registry[n].source = q <=> m.registry[n].source = q
          BY <1>5, <2>14, <4>1
        <4>3. \A n \in Names : d.registry[n].source = q <=> done.registry[n].source = q
          BY <2>8, <2>9, <2>10, <2>14
        <4> QED BY <4>2, <4>3
      <3> QED BY <3>1, <3>2 DEF Registry!OwnedBy
    <2> QED BY <2>1, <2>4, <2>11, <2>12, <2>13, <2>14
  <1> QED BY <1>7, <1>8

\* The same entries, another list of providers and other shares.
LEMMA RegistryRelisted ==
    ASSUME NEW m, RegistryIndexed(m), NEW l \in Seq(RegistryProviders),
           \A i, j \in DOMAIN l : l[i] = l[j] => i = j,
           NEW o \in [RegistryProviders -> SUBSET Names],
           NEW d, d = [registry |-> m.registry, known |-> m.known, listed |-> l, owns |-> o]
    PROVE  /\ RegistryIndexed(d) /\ d.registry = m.registry /\ d.listed = l /\ d.owns = o
           /\ \A q : Registry!OwnedBy(d, q) = Registry!OwnedBy(m, q)
  <1>1. /\ d = [registry |-> d.registry, known |-> d.known, listed |-> d.listed, owns |-> d.owns]
        /\ d.registry = m.registry /\ d.known = m.known /\ d.listed = l /\ d.owns = o
    OBVIOUS
  <1>2. \A n : Registry!Taken(d, n) <=> Registry!Taken(m, n)
    BY <1>1 DEF Registry!Taken
  <1>3. {k \in Names : Registry!Taken(d, k)} = {k \in Names : Registry!Taken(m, k)}
    BY <1>2
  <1>4. d.known = {d.registry[n].tool : n \in {k \in Names : Registry!Taken(d, k)}}
    <2>1. m.known = {m.registry[n].tool : n \in {k \in Names : Registry!Taken(m, k)}}
      BY DEF RegistryIndexed
    <2>2. d.known = {d.registry[n].tool : n \in {k \in Names : Registry!Taken(m, k)}}
      BY <1>1, <2>1
    <2> QED BY <1>3, <2>2, Zenon
  <1>5. \A n \in Names : Registry!Taken(d, n) =>
          /\ d.registry[n].tool.name = n /\ d.registry[n].tool.maker = d.registry[n].source
          /\ d.registry[n].source # Registry!Direct => d.registry[n].tool.version = 1
    BY <1>1, <1>2 DEF RegistryIndexed
  <1>6. d.registry \in [Names -> Registry!Entries \union {Registry!Absent}]
    BY <1>1 DEF RegistryIndexed
  <1>7. RegistryIndexed(d)
    BY <1>1, <1>4, <1>5, <1>6 DEF RegistryIndexed
  <1> QED BY <1>1, <1>7 DEF Registry!OwnedBy

LEMMA RegistryRegister ==
    ASSUME RegistryParameters, NEW m, RegistryIndexed(m), NEW p \in RegistryProviders,
           NEW names, names \subseteq Names,
           NEW r, r = Registry!Register(m, p, names)
    PROVE  /\ r.ok \in BOOLEAN /\ RegistryIndexed(r.m)
           /\ \A q : Registry!Listed(r.m, q) <=> Registry!Listed(m, q) \/ q = p
           /\ \A q \in RegistryProviders : q # p => RegistryKept(m, r.m, q, Names)
           /\ RegistryKept(m, r.m, p, names)
           /\ r.ok /\ ~Registry!Listed(m, p) => \A n \in names : r.m.registry[n].source = p
           /\ r.ok /\ RegistryOwned(m) => RegistryOwned(r.m)
           /\ (\A n \in Names : ~Registry!Taken(m, n)) => r.ok
  <1>1. CASE Registry!Listed(m, p)
    <2>1. r.ok = TRUE /\ r.m = m
      BY <1>1 DEF Registry!Register
    <2> QED BY <1>1, <2>1 DEF RegistryKept
  <1>2. CASE ~Registry!Listed(m, p)
    <2> DEFINE d == [m EXCEPT !.listed = Append(m.listed, p)]
    <2>1. r = Registry!Sync(d, p, names)
      BY <1>2, Zenon DEF Registry!Register
    <2>2. m.listed \in Seq(RegistryProviders) /\ m.owns \in [RegistryProviders -> SUBSET Names]
          /\ \A i, j \in DOMAIN m.listed : m.listed[i] = m.listed[j] => i = j
      BY DEF RegistryIndexed
    <2>3. \A i \in DOMAIN m.listed : m.listed[i] # p
      BY <1>2 DEF Registry!Listed
    <2>4. /\ Append(m.listed, p) \in Seq(RegistryProviders)
          /\ Len(m.listed) \in Nat /\ DOMAIN m.listed = 1..Len(m.listed)
          /\ DOMAIN Append(m.listed, p) = 1..Len(m.listed) + 1
          /\ \A i \in 1..Len(m.listed) : Append(m.listed, p)[i] = m.listed[i]
          /\ Append(m.listed, p)[Len(m.listed) + 1] = p
      BY <2>2
    <2>5. \A i, j \in DOMAIN Append(m.listed, p) :
              Append(m.listed, p)[i] = Append(m.listed, p)[j] => i = j
      BY <2>2, <2>3, <2>4
    <2>6. d = [registry |-> m.registry, known |-> m.known, listed |-> Append(m.listed, p), owns |-> m.owns]
      BY RegistryFields, Zenon DEF RegistryIndexed
    <2> HIDE DEF d
    <2>7. /\ RegistryIndexed(d) /\ d.registry = m.registry /\ d.owns = m.owns
          /\ d.listed = Append(m.listed, p)
          /\ \A q : Registry!OwnedBy(d, q) = Registry!OwnedBy(m, q)
      <3> DEFINE l == Append(m.listed, p)
      <3>1. /\ l \in Seq(RegistryProviders) /\ \A i, j \in DOMAIN l : l[i] = l[j] => i = j
            /\ d = [registry |-> m.registry, known |-> m.known, listed |-> l, owns |-> m.owns]
        BY <2>4, <2>5, <2>6
      <3> HIDE DEF l
      <3>2. /\ RegistryIndexed(d) /\ d.registry = m.registry /\ d.owns = m.owns /\ d.listed = l
            /\ \A q : Registry!OwnedBy(d, q) = Registry!OwnedBy(m, q)
        BY <2>2, <3>1, RegistryRelisted
      <3> QED BY <3>2 DEF l
    <2>8. \A q : Registry!Listed(d, q) <=> Registry!Listed(m, q) \/ q = p
      <3>1. \A i \in 1..Len(m.listed) + 1 : i \in 1..Len(m.listed) \/ i = Len(m.listed) + 1
        BY <2>4
      <3>2. /\ \A i \in 1..Len(m.listed) : i \in 1..Len(m.listed) + 1
            /\ Len(m.listed) + 1 \in 1..Len(m.listed) + 1
        BY <2>4
      <3> QED BY <2>4, <2>7, <3>1, <3>2 DEF Registry!Listed
    <2>9. /\ r.ok \in BOOLEAN /\ RegistryIndexed(r.m) /\ r.m.listed = d.listed
          /\ \A q \in RegistryProviders : q # p => RegistryKept(d, r.m, q, Names)
          /\ RegistryKept(d, r.m, p, names)
          /\ r.ok => \A n \in names : r.m.registry[n].source = p
      <3>1. RegistryIndexed(d)
        BY <2>7
      <3>2. r.ok \in BOOLEAN /\ RegistryIndexed(r.m) /\ r.m.listed = d.listed
        BY <2>1, <3>1, RegistrySync
      <3>3. \A q \in RegistryProviders : q # p => RegistryKept(d, r.m, q, Names)
        BY <2>1, <3>1, RegistrySync
      <3>4. RegistryKept(d, r.m, p, names)
        BY <2>1, <3>1, RegistrySync
      <3>5. r.ok => \A n \in names : r.m.registry[n].source = p
        BY <2>1, <3>1, RegistrySync
      <3> QED BY <3>2, <3>3, <3>4, <3>5
    <2>10. r.ok /\ Registry!OwnedBy(d, p) \subseteq d.owns[p] =>
             /\ Registry!OwnedBy(r.m, p) = names /\ r.m.owns[p] = names
             /\ \A q \in RegistryProviders : q # p =>
                   r.m.owns[q] = d.owns[q] /\ Registry!OwnedBy(r.m, q) = Registry!OwnedBy(d, q)
      BY <2>1, <2>7, RegistrySync
    <2>11. \A q : Registry!Listed(r.m, q) <=> Registry!Listed(m, q) \/ q = p
      BY <2>8, <2>9 DEF Registry!Listed
    <2>12. ASSUME r.ok, RegistryOwned(m)
           PROVE  RegistryOwned(r.m)
      <3>1. Registry!OwnedBy(d, p) = {}
        BY <1>2, <2>7, <2>12 DEF RegistryOwned
      <3>2. SUFFICES ASSUME NEW q \in RegistryProviders
                     PROVE  Registry!OwnedBy(r.m, q) = IF Registry!Listed(r.m, q) THEN r.m.owns[q] ELSE {}
        BY DEF RegistryOwned
      <3>3. CASE q = p
        BY <2>10, <2>11, <2>12, <3>1, <3>3
      <3>4. CASE q # p
        <4>1. r.m.owns[q] = d.owns[q] /\ Registry!OwnedBy(r.m, q) = Registry!OwnedBy(d, q)
          BY <2>10, <2>12, <3>1, <3>4
        <4>2. Registry!OwnedBy(r.m, q) = Registry!OwnedBy(m, q) /\ r.m.owns[q] = m.owns[q]
          BY <2>7, <4>1
        <4>3. Registry!OwnedBy(m, q) = IF Registry!Listed(m, q) THEN m.owns[q] ELSE {}
          BY <2>12 DEF RegistryOwned
        <4>4. Registry!Listed(r.m, q) <=> Registry!Listed(m, q)
          BY <2>11, <3>4
        <4> QED BY <4>2, <4>3, <4>4
      <3> QED BY <3>3, <3>4
    <2>13. /\ \A q \in RegistryProviders : q # p => RegistryKept(m, r.m, q, Names)
           /\ RegistryKept(m, r.m, p, names)
      BY <2>7, <2>9 DEF RegistryKept
    <2>14. (\A n \in Names : ~Registry!Taken(m, n)) => r.ok
      <3>1. (\A n \in Names : ~Registry!Taken(d, n)) => r.ok
        <4>1. RegistryIndexed(d)
          BY <2>7
        <4> QED BY <2>1, <4>1, RegistrySync
      <3> QED BY <2>7, <3>1 DEF Registry!Taken
    <2> QED BY <2>9, <2>11, <2>12, <2>13, <2>14
  <1> QED BY <1>1, <1>2

\* A list without one of its members.
LEMMA RegistryWithout ==
    ASSUME NEW l \in Seq(RegistryProviders), \A i, j \in DOMAIN l : l[i] = l[j] => i = j,
           NEW p, \E i \in DOMAIN l : l[i] = p,
           NEW w, w = Registry!Without(l, p)
    PROVE  /\ w \in Seq(RegistryProviders)
           /\ \A i, j \in DOMAIN w : w[i] = w[j] => i = j
           /\ \A q : (\E i \in DOMAIN w : w[i] = q) <=> q # p /\ \E i \in DOMAIN l : l[i] = q
  <1> DEFINE at == CHOOSE i \in DOMAIN l : l[i] = p /\ \A j \in DOMAIN l : l[j] = p => i <= j
  <1> DEFINE n == Len(l)
  <1>1. n \in Nat /\ DOMAIN l = 1..n /\ \A i \in 1..n : l[i] \in RegistryProviders
    OBVIOUS
  <1>2. at \in 1..n /\ l[at] = p
    <2>1. PICK i \in DOMAIN l : l[i] = p
      OBVIOUS
    <2>2. \A j \in DOMAIN l : l[j] = p => i <= j
      BY <1>1, <2>1
    <2>3. at \in DOMAIN l /\ l[at] = p
      BY <2>1, <2>2, Zenon
    <2> QED BY <1>1, <2>3
  <1>3. w = [i \in 1..n - 1 |-> IF i < at THEN l[i] ELSE l[i + 1]]
    BY Zenon DEF Registry!Without
  <1> HIDE DEF at, n
  <1>4. n - 1 \in Nat /\ \A i \in 1..n - 1 : w[i] = (IF i < at THEN l[i] ELSE l[i + 1]) /\ i \in 1..n /\ i + 1 \in 1..n
    BY <1>1, <1>2, <1>3
  <1>5. DOMAIN w = 1..n - 1
    BY <1>3
  <1>6. w \in Seq(RegistryProviders)
    BY <1>1, <1>3, <1>4
  <1>7. \A i, j \in 1..n - 1 : w[i] = w[j] => i = j
    <2>1. SUFFICES ASSUME NEW i \in 1..n - 1, NEW j \in 1..n - 1, w[i] = w[j] PROVE i = j
      OBVIOUS
    <2>2. \A a, b \in 1..n : l[a] = l[b] => a = b
      BY <1>1
    <2> QED BY <1>1, <1>2, <1>4, <2>1, <2>2
  <1>8. ASSUME NEW i \in 1..n - 1 PROVE w[i] # p /\ \E j \in 1..n : l[j] = w[i]
    <2>2. \A a, b \in 1..n : l[a] = l[b] => a = b
      BY <1>1
    <2> QED BY <1>1, <1>2, <1>4, <2>2
  <1>9. ASSUME NEW j \in 1..n, l[j] # p PROVE \E i \in 1..n - 1 : w[i] = l[j]
    <2>1. CASE j < at
      BY <1>1, <1>2, <1>4, <2>1
    <2>2. CASE at < j
      <3>1. j - 1 \in 1..n - 1 /\ ~(j - 1 < at) /\ (j - 1) + 1 = j
        BY <1>1, <1>2, <2>2
      <3> QED BY <1>4, <3>1
    <2> QED BY <1>1, <1>2, <1>9, <2>1, <2>2
  <1>10. \A q : (\E i \in 1..n - 1 : w[i] = q) <=> q # p /\ \E i \in 1..n : l[i] = q
    BY <1>8, <1>9
  <1> QED BY <1>1, <1>5, <1>6, <1>7, <1>10

LEMMA RegistryUnregister ==
    ASSUME RegistryParameters, NEW m, RegistryIndexed(m), NEW p \in RegistryProviders,
           NEW d, d = Registry!Unregister(m, p)
    PROVE  /\ RegistryIndexed(d)
           /\ \A q : Registry!Listed(d, q) <=> Registry!Listed(m, q) /\ q # p
           /\ \A q \in RegistryProviders : q # p => RegistryKept(m, d, q, Names)
           /\ RegistryOwned(m) => RegistryOwned(d)
  <1>1. CASE ~Registry!Listed(m, p)
    BY <1>1 DEF Registry!Unregister, RegistryKept
  <1>2. CASE Registry!Listed(m, p)
    <2> DEFINE gone == {n \in m.owns[p] : m.registry[n].source = p}
    <2> DEFINE less == Registry!RemoveAll(m, gone)
    <2> DEFINE l == Registry!Without(m.listed, p)
    <2> DEFINE o == [m.owns EXCEPT ![p] = {}]
    <2>1. d = [less EXCEPT !.listed = Registry!Without(less.listed, p), !.owns[p] = {}]
      BY <1>2, Zenon DEF Registry!Unregister
    <2>2. gone \subseteq Names
      BY DEF RegistryIndexed
    <2>3. /\ RegistryIndexed(less) /\ less.listed = m.listed /\ less.owns = m.owns
          /\ less.registry = [n \in Names |-> IF n \in gone THEN Registry!Absent ELSE m.registry[n]]
      BY <2>2, RegistryRemoveAll
    <2> HIDE DEF less
    <2>4. d = [registry |-> less.registry, known |-> less.known, listed |-> l, owns |-> o]
      <3>1. d = [[less EXCEPT !.listed = Registry!Without(less.listed, p)] EXCEPT !.owns[p] = {}]
        BY <2>1, Zenon
      <3>2. [less EXCEPT !.listed = Registry!Without(less.listed, p)]
            = [registry |-> less.registry, known |-> less.known, listed |-> l, owns |-> m.owns]
        <4>1. less = [registry |-> less.registry, known |-> less.known, listed |-> less.listed,
                      owns |-> less.owns]
          BY <2>3 DEF RegistryIndexed
        <4> HIDE DEF l
        <4>2. [less EXCEPT !.listed = l]
              = [registry |-> less.registry, known |-> less.known, listed |-> l, owns |-> m.owns]
          BY <2>3, <4>1
        <4> QED BY <2>3, <4>2 DEF l
      <3> HIDE DEF l
      <3> QED BY <3>1, <3>2
    <2>5. /\ l \in Seq(RegistryProviders)
          /\ \A i, j \in DOMAIN l : l[i] = l[j] => i = j
          /\ \A q : (\E i \in DOMAIN l : l[i] = q) <=> q # p /\ \E i \in DOMAIN m.listed : m.listed[i] = q
      <3>1. /\ m.listed \in Seq(RegistryProviders)
            /\ \A i, j \in DOMAIN m.listed : m.listed[i] = m.listed[j] => i = j
            /\ \E i \in DOMAIN m.listed : m.listed[i] = p
        BY <1>2 DEF RegistryIndexed, Registry!Listed
      <3> QED BY <3>1, RegistryWithout, ZenonT(80)
    <2> HIDE DEF l, o
    <2>6. o \in [RegistryProviders -> SUBSET Names]
      BY DEF RegistryIndexed, o
    <2>7. /\ RegistryIndexed(d) /\ d.registry = less.registry /\ d.listed = l /\ d.owns = o
          /\ \A q : Registry!OwnedBy(d, q) = Registry!OwnedBy(less, q)
      <3>1. RegistryIndexed(less)
        BY <2>3
      <3> QED BY <3>1, <2>4, <2>5, <2>6, RegistryRelisted
    <2>8. \A q : Registry!Listed(d, q) <=> Registry!Listed(m, q) /\ q # p
      BY <2>5, <2>7, SMTT(40) DEF Registry!Listed
    <2>9. \A n \in Names : d.registry[n] = IF n \in gone THEN Registry!Absent ELSE m.registry[n]
      BY <2>3, <2>7
    <2>10. \A n \in gone : n \in m.owns[p] /\ m.registry[n].source = p
      OBVIOUS
    <2>11. \A q \in RegistryProviders : Registry!Absent.source # q
      BY DEF Registry!Absent, RegistryParameters, RegistryProviders
    <2>12. \A n \in Names : n \notin gone /\ m.registry[n].source = p => n \notin m.owns[p]
      OBVIOUS
    <2> HIDE DEF gone
    <2>13. \A q \in RegistryProviders : q # p => RegistryKept(m, d, q, Names)
      BY <2>9, <2>10 DEF RegistryKept
    <2>14. ASSUME RegistryOwned(m)
           PROVE  RegistryOwned(d)
      <3>1. SUFFICES ASSUME NEW q \in RegistryProviders
                     PROVE  Registry!OwnedBy(d, q) = IF Registry!Listed(d, q) THEN d.owns[q] ELSE {}
        BY DEF RegistryOwned
      <3>2. CASE q = p
        <4>1. Registry!OwnedBy(m, p) = m.owns[p]
          BY <1>2, <2>14 DEF RegistryOwned
        <4>2. \A n \in Names : d.registry[n].source # p
          BY <2>9, <2>11, <2>12, <4>1 DEF Registry!OwnedBy
        <4>3. Registry!OwnedBy(d, p) = {}
          BY <4>2 DEF Registry!OwnedBy
        <4> QED BY <2>8, <3>2, <4>3
      <3>3. CASE q # p
        <4>1. \A n \in Names : d.registry[n].source = q <=> m.registry[n].source = q
          BY <2>9, <2>10, <2>11, <3>3
        <4>2. Registry!OwnedBy(d, q) = Registry!OwnedBy(m, q)
          BY <4>1 DEF Registry!OwnedBy
        <4>3. d.owns[q] = m.owns[q]
          BY <2>7, <3>3 DEF RegistryIndexed, o
        <4> QED BY <2>8, <2>14, <3>3, <4>2, <4>3 DEF RegistryOwned
      <3> QED BY <3>2, <3>3
    <2> QED BY <2>7, <2>8, <2>13, <2>14
  <1> QED BY <1>1, <1>2

\* refresh() goes through the providers one after the other.
RegistryRound(m, offer, after) ==
    after = [i \in 0..Len(m.listed) |->
               IF i = 0 THEN [ok |-> TRUE, m |-> m]
               ELSE IF after[i - 1].ok
                    THEN Registry!Sync(after[i - 1].m, m.listed[i], offer[m.listed[i]])
                    ELSE after[i - 1]]

LEMMA RegistryRounds ==
    ASSUME NEW m, RegistryIndexed(m), NEW offer
    PROVE  \E after : /\ Registry!Refresh(m, offer) = after[Len(m.listed)]
                      /\ RegistryRound(m, offer, after)
  <1> DEFINE First == [ok |-> TRUE, m |-> m]
  <1> DEFINE Turn(x, i) == IF x.ok THEN Registry!Sync(x.m, m.listed[i], offer[m.listed[i]]) ELSE x
  <1> DEFINE Round(f, k) == f = [i \in 0..k |-> IF i = 0 THEN First ELSE Turn(f[i - 1], i)]
  <1> DEFINE after == CHOOSE f : Round(f, Len(m.listed))
  <1>1. Len(m.listed) \in Nat
    BY DEF RegistryIndexed
  <1>2. Registry!Refresh(m, offer) = after[Len(m.listed)]
    BY Zenon DEF Registry!Refresh
  <1> HIDE DEF First, Turn
  <1>3. \A k \in Nat : \E f : Round(f, k)
    <2> DEFINE Bad == {k \in Nat : ~\E f : Round(f, k)}
    <2>1. SUFFICES ASSUME Bad # {} PROVE FALSE
      OBVIOUS
    <2>2. PICK k \in Bad : \A j \in Bad : k <= j
      <3> HIDE DEF Bad
      <3>1. Bad \subseteq Nat
        BY DEF Bad
      <3> QED BY <2>1, <3>1, LeastOf
    <2>3. k \in Nat /\ ~\E f : Round(f, k)
      OBVIOUS
    <2>4. CASE k = 0
      <3>1. Round([i \in 0..0 |-> First], 0)
        <4>1. \A i \in 0..0 : i = 0
          OBVIOUS
        <4> QED BY <4>1
      <3> QED BY <2>3, <2>4, <3>1
    <2>5. CASE k # 0
      <3>1. k - 1 \in Nat /\ k - 1 \notin Bad
        <4> HIDE DEF Bad
        <4> QED BY <2>2, <2>3, <2>5
      <3>2. PICK f : Round(f, k - 1)
        BY <3>1
      <3> DEFINE g == [i \in 0..k |-> IF i = k THEN Turn(f[k - 1], k) ELSE f[i]]
      <3>3. \A i \in 0..k - 1 : f[i] = IF i = 0 THEN First ELSE Turn(f[i - 1], i)
        BY <3>2
      <3>4. \A i \in 0..k : i # k => i \in 0..k - 1
        BY <2>3
      <3>5. \A i \in 0..k : i # 0 => i - 1 \in 0..k /\ i - 1 # k
        BY <2>3
      <3>6. \A i \in 0..k : g[i] = IF i = 0 THEN First ELSE Turn(g[i - 1], i)
        <4>1. SUFFICES ASSUME NEW i \in 0..k
                       PROVE  g[i] = IF i = 0 THEN First ELSE Turn(g[i - 1], i)
          OBVIOUS
        <4>2. CASE i = k
          <5>1. g[i] = Turn(f[k - 1], k) /\ g[k - 1] = f[k - 1]
            BY <3>5, <4>2, <2>5
          <5> QED BY <4>2, <5>1, <2>5
        <4>3. CASE i # k
          <5>1. i \in 0..k - 1 /\ g[i] = f[i]
            BY <3>4, <4>3
          <5>2. CASE i = 0
            BY <3>3, <5>1, <5>2
          <5>3. CASE i # 0
            <6>1. g[i - 1] = f[i - 1]
              BY <3>5, <5>3
            <6> QED BY <3>3, <5>1, <5>3, <6>1
          <5> QED BY <5>2, <5>3
        <4> QED BY <4>2, <4>3
      <3>7. Round(g, k)
        BY <3>6
      <3> QED BY <2>3, <3>7
    <2> QED BY <2>4, <2>5
  <1>4. Round(after, Len(m.listed))
    <2>1. \E f : Round(f, Len(m.listed))
      BY <1>1, <1>3
    <2> QED BY <2>1, Zenon
  <1>5. RegistryRound(m, offer, after)
    BY <1>4, Zenon DEF First, Turn, RegistryRound
  <1> QED BY <1>2, <1>5, Zenon

LEMMA RegistryRefresh ==
    ASSUME RegistryParameters, NEW m, RegistryIndexed(m),
           NEW offer \in [RegistryProviders -> SUBSET Names],
           NEW r, r = Registry!Refresh(m, offer)
    PROVE  /\ r = [ok |-> r.ok, m |-> r.m]
           /\ r.ok \in BOOLEAN /\ RegistryIndexed(r.m) /\ r.m.listed = m.listed
           /\ \A q \in RegistryProviders : RegistryKept(m, r.m, q, offer[q])
           /\ r.ok /\ RegistryOwned(m) => RegistryOwned(r.m)
  <1> DEFINE Fine(x) == /\ x = [ok |-> x.ok, m |-> x.m]
                        /\ x.ok \in BOOLEAN /\ RegistryIndexed(x.m) /\ x.m.listed = m.listed
                        /\ \A q \in RegistryProviders : RegistryKept(m, x.m, q, offer[q])
                        /\ x.ok /\ RegistryOwned(m) => RegistryOwned(x.m)
  <1>1. PICK after : /\ Registry!Refresh(m, offer) = after[Len(m.listed)]
                     /\ RegistryRound(m, offer, after)
    BY RegistryRounds, Zenon
  <1>2. Len(m.listed) \in Nat /\ \A i \in 1..Len(m.listed) : m.listed[i] \in RegistryProviders
        /\ DOMAIN m.listed = 1..Len(m.listed)
    BY DEF RegistryIndexed
  <1>3. /\ after[0] = [ok |-> TRUE, m |-> m]
        /\ \A i \in 1..Len(m.listed) :
              after[i] = IF after[i - 1].ok
                         THEN Registry!Sync(after[i - 1].m, m.listed[i], offer[m.listed[i]])
                         ELSE after[i - 1]
    <2>1. \A i \in 1..Len(m.listed) : i \in 0..Len(m.listed) /\ i # 0
      BY <1>2
    <2>2. 0 \in 0..Len(m.listed)
      BY <1>2
    <2> QED BY <1>1, <2>1, <2>2 DEF RegistryRound
  <1>4. Fine(after[0])
    BY <1>3 DEF RegistryKept
  <1>5. ASSUME NEW i \in 1..Len(m.listed), Fine(after[i - 1])
        PROVE  Fine(after[i])
    <2> DEFINE x == after[i - 1]
    <2> DEFINE p == m.listed[i]
    <2>1. CASE ~x.ok
      BY <1>3, <1>5, <2>1
    <2>2. CASE x.ok
      <3>1. after[i] = Registry!Sync(x.m, p, offer[p])
        BY <1>3, <2>2
      <3>2. p \in RegistryProviders /\ offer[p] \subseteq Names
        BY <1>2
      <3>3. RegistryIndexed(x.m) /\ x.m.listed = m.listed
        BY <1>5
      <3>4. \A q \in RegistryProviders : RegistryKept(m, x.m, q, offer[q])
        BY <1>5
      <3>5. RegistryOwned(m) => RegistryOwned(x.m)
        BY <1>5, <2>2
      <3>6. Registry!Listed(x.m, p)
        BY <1>2, <3>3 DEF Registry!Listed
      <3> DEFINE y == after[i]
      <3> HIDE DEF x, y, p
      <3>7. y = Registry!Sync(x.m, p, offer[p])
        BY <3>1 DEF y
      <3>8. y = [ok |-> y.ok, m |-> y.m] /\ y.ok \in BOOLEAN /\ RegistryIndexed(y.m) /\ y.m.listed = x.m.listed
        BY <3>2, <3>3, <3>7, RegistrySync
      <3>9. \A q \in RegistryProviders : q # p => RegistryKept(x.m, y.m, q, Names)
        BY <3>2, <3>3, <3>7, RegistrySync
      <3>10. RegistryKept(x.m, y.m, p, offer[p])
        BY <3>2, <3>3, <3>7, RegistrySync
      <3>11. y.ok /\ Registry!OwnedBy(x.m, p) \subseteq x.m.owns[p] =>
                 /\ Registry!OwnedBy(y.m, p) = offer[p] /\ y.m.owns[p] = offer[p]
                 /\ \A q \in RegistryProviders : q # p =>
                       y.m.owns[q] = x.m.owns[q] /\ Registry!OwnedBy(y.m, q) = Registry!OwnedBy(x.m, q)
        BY <3>2, <3>3, <3>7, RegistrySync
      <3>12. \A q \in RegistryProviders : RegistryKept(m, y.m, q, offer[q])
        <4>1. \A q \in RegistryProviders : RegistryKept(x.m, y.m, q, offer[q])
          <5>1. \A q \in RegistryProviders : offer[q] \subseteq Names
            OBVIOUS
          <5> QED BY <3>9, <3>10, <5>1 DEF RegistryKept
        <4> QED BY <3>4, <4>1 DEF RegistryKept
      <3>13. ASSUME y.ok, RegistryOwned(m)
             PROVE  RegistryOwned(y.m)
        <4>1. Registry!OwnedBy(x.m, p) = x.m.owns[p]
          BY <3>2, <3>5, <3>6, <3>13 DEF RegistryOwned
        <4>2. \A q : Registry!Listed(y.m, q) <=> Registry!Listed(x.m, q)
          BY <3>8 DEF Registry!Listed
        <4>3. SUFFICES ASSUME NEW q \in RegistryProviders
                       PROVE  Registry!OwnedBy(y.m, q) = IF Registry!Listed(y.m, q) THEN y.m.owns[q] ELSE {}
          BY DEF RegistryOwned
        <4>4. CASE q = p
          BY <3>6, <3>11, <3>13, <4>1, <4>2, <4>4
        <4>5. CASE q # p
          <5>1. y.m.owns[q] = x.m.owns[q] /\ Registry!OwnedBy(y.m, q) = Registry!OwnedBy(x.m, q)
            BY <3>11, <3>13, <4>1, <4>5
          <5>2. Registry!OwnedBy(x.m, q) = IF Registry!Listed(x.m, q) THEN x.m.owns[q] ELSE {}
            BY <3>5, <3>13 DEF RegistryOwned
          <5> QED BY <4>2, <5>1, <5>2
        <4> QED BY <4>4, <4>5
      <3> QED BY <3>3, <3>8, <3>12, <3>13 DEF y
    <2> QED BY <1>5, <2>1, <2>2
  <1> HIDE DEF Fine
  <1>6. \A i \in 0..Len(m.listed) : Fine(after[i])
    <2> DEFINE Bad == {i \in 0..Len(m.listed) : ~Fine(after[i])}
    <2>1. SUFFICES ASSUME Bad # {} PROVE FALSE
      OBVIOUS
    <2>2. PICK k \in Bad : \A j \in Bad : k <= j
      <3>1. Bad \subseteq Nat
        BY <1>2
      <3> HIDE DEF Bad
      <3> QED BY <2>1, <3>1, LeastOf
    <2>3. k \in 0..Len(m.listed) /\ ~Fine(after[k])
      OBVIOUS
    <2>4. k # 0
      BY <1>4, <2>3
    <2>5. k \in 1..Len(m.listed) /\ k - 1 \in 0..Len(m.listed) /\ k - 1 \notin Bad
      BY <1>2, <2>2, <2>3, <2>4
    <2> QED BY <1>5, <2>3, <2>5
  <1>7. Fine(r)
    <2>1. r = after[Len(m.listed)] /\ Len(m.listed) \in 0..Len(m.listed)
      BY <1>1, <1>2
    <2> QED BY <1>6, <2>1
  <1> QED BY <1>7 DEF Fine

\* What reload() does to the registry, and how it takes that back.
LEMMA RegistrySwap ==
    ASSUME RegistryParameters, NEW m, RegistryIndexed(m),
           NEW offer \in [RegistryProviders -> SUBSET Names],
           NEW old \in MCPs \union {Registry!None}, NEW new \in MCPs, new # old,
           ~Registry!Listed(m, new),
           NEW r, r = Registry!Swap(m, old, new, offer)
    PROVE  /\ r.ok \in BOOLEAN /\ RegistryIndexed(r.m)
           /\ \A q : Registry!Listed(r.m, q) <=> (Registry!Listed(m, q) /\ q # old) \/ q = new
           /\ \A q \in RegistryProviders : q # old => RegistryKept(m, r.m, q, offer[q])
           /\ r.ok => \A n \in offer[new] : r.m.registry[n].source = new
           /\ r.ok /\ RegistryOwned(m) => RegistryOwned(r.m)
  <1> DEFINE without == IF old = Registry!None THEN m ELSE Registry!Unregister(m, old)
  <1> DEFINE with == Registry!Register(without, new, offer[new])
  <1>1. r = IF with.ok THEN Registry!Refresh(with.m, offer) ELSE with
    BY Zenon DEF Registry!Swap
  <1>2. /\ RegistryIndexed(without)
        /\ \A q : Registry!Listed(without, q) <=> Registry!Listed(m, q) /\ q # old
        /\ \A q \in RegistryProviders : q # old => RegistryKept(m, without, q, offer[q])
        /\ RegistryOwned(m) => RegistryOwned(without)
    <2>1. CASE old = Registry!None
      <3>1. without = m /\ ~Registry!Listed(m, old)
        BY <2>1, RegistryEntries DEF RegistryParameters, RegistryProviders
      <3> QED BY <3>1 DEF RegistryKept
    <2>2. CASE old # Registry!None
      <3>1. without = Registry!Unregister(m, old) /\ old \in RegistryProviders
        BY <2>2 DEF RegistryProviders
      <3> HIDE DEF without
      <3>2. /\ RegistryIndexed(without)
            /\ \A q : Registry!Listed(without, q) <=> Registry!Listed(m, q) /\ q # old
            /\ RegistryOwned(m) => RegistryOwned(without)
        BY <3>1, RegistryUnregister
      <3>3. \A q \in RegistryProviders : q # old => RegistryKept(m, without, q, Names)
        BY <3>1, RegistryUnregister
      <3> QED BY <3>2, <3>3 DEF RegistryKept
    <2> QED BY <2>1, <2>2
  <1> HIDE DEF without
  <1>3. new \in RegistryProviders /\ offer[new] \subseteq Names /\ ~Registry!Listed(without, new)
    BY <1>2 DEF RegistryProviders
  <1> HIDE DEF with
  <1>4. with = Registry!Register(without, new, offer[new])
    BY DEF with
  <1>5. /\ with.ok \in BOOLEAN /\ RegistryIndexed(with.m)
        /\ \A q : Registry!Listed(with.m, q) <=> Registry!Listed(without, q) \/ q = new
    BY <1>2, <1>3, <1>4, RegistryRegister
  <1>6. \A q \in RegistryProviders : q # new => RegistryKept(without, with.m, q, Names)
    BY <1>2, <1>3, <1>4, RegistryRegister
  <1>7. RegistryKept(without, with.m, new, offer[new])
    BY <1>2, <1>3, <1>4, RegistryRegister
  <1>8. with.ok => \A n \in offer[new] : with.m.registry[n].source = new
    BY <1>2, <1>3, <1>4, RegistryRegister
  <1>9. with.ok /\ RegistryOwned(without) => RegistryOwned(with.m)
    BY <1>2, <1>3, <1>4, RegistryRegister
  <1>10. \A q \in RegistryProviders : q # old => RegistryKept(m, with.m, q, offer[q])
    <2>1. \A q \in RegistryProviders : RegistryKept(without, with.m, q, offer[q])
      <3>1. \A q \in RegistryProviders : offer[q] \subseteq Names
        OBVIOUS
      <3> QED BY <1>6, <1>7, <3>1 DEF RegistryKept
    <2> QED BY <1>2, <2>1 DEF RegistryKept
  <1>11. CASE ~with.ok
    <2>1. r = with
      BY <1>1, <1>11
    <2> QED BY <1>2, <1>5, <1>10, <1>11, <2>1
  <1>12. CASE with.ok
    <2>1. r = Registry!Refresh(with.m, offer)
      BY <1>1, <1>12
    <2>2. /\ r.ok \in BOOLEAN /\ RegistryIndexed(r.m) /\ r.m.listed = with.m.listed
          /\ r.ok /\ RegistryOwned(with.m) => RegistryOwned(r.m)
      BY <1>5, <2>1, RegistryRefresh
    <2>3. \A q \in RegistryProviders : RegistryKept(with.m, r.m, q, offer[q])
      BY <1>5, <2>1, RegistryRefresh
    <2>4. \A q : Registry!Listed(r.m, q) <=> (Registry!Listed(m, q) /\ q # old) \/ q = new
      BY <1>2, <1>5, <2>2 DEF Registry!Listed
    <2>5. \A q \in RegistryProviders : q # old => RegistryKept(m, r.m, q, offer[q])
      BY <1>10, <2>3 DEF RegistryKept
    <2>6. \A n \in offer[new] : r.m.registry[n].source = new
      BY <1>3, <1>8, <1>12, <2>3 DEF RegistryKept
    <2> QED BY <1>2, <1>9, <1>12, <2>2, <2>4, <2>5, <2>6
  <1> QED BY <1>5, <1>11, <1>12

LEMMA RegistryPutBack ==
    ASSUME RegistryParameters, NEW m, RegistryIndexed(m),
           NEW offer \in [RegistryProviders -> SUBSET Names],
           NEW old \in MCPs \union {Registry!None},
           NEW r, r = Registry!PutBack(m, old, offer)
    PROVE  /\ RegistryIndexed(r.m)
           /\ \A q \in RegistryProviders : RegistryKept(m, r.m, q, offer[q])
  <1> DEFINE back == Registry!Register(m, old, offer[old])
  <1>1. r = IF old = Registry!None THEN [ok |-> FALSE, m |-> m]
            ELSE IF back.ok THEN [Registry!Refresh(back.m, offer) EXCEPT !.ok = FALSE] ELSE back
    BY Zenon DEF Registry!PutBack
  <1>2. CASE old = Registry!None
    <2>1. r.m = m
      BY <1>1, <1>2
    <2> QED BY <2>1 DEF RegistryKept
  <1>3. CASE old # Registry!None
    <2>1. old \in RegistryProviders /\ offer[old] \subseteq Names
      BY <1>3 DEF RegistryProviders
    <2> HIDE DEF back
    <2>2. back = Registry!Register(m, old, offer[old])
      BY DEF back
    <2>3. RegistryIndexed(back.m)
      BY <2>1, <2>2, RegistryRegister
    <2>4. \A q \in RegistryProviders : q # old => RegistryKept(m, back.m, q, Names)
      BY <2>1, <2>2, RegistryRegister
    <2>5. RegistryKept(m, back.m, old, offer[old])
      BY <2>1, <2>2, RegistryRegister
    <2>6. \A q \in RegistryProviders : RegistryKept(m, back.m, q, offer[q])
      <3>1. \A q \in RegistryProviders : offer[q] \subseteq Names
        OBVIOUS
      <3> QED BY <2>4, <2>5, <3>1 DEF RegistryKept
    <2>7. CASE ~back.ok
      BY <1>1, <1>3, <2>3, <2>6, <2>7
    <2>8. CASE back.ok
      <3> DEFINE x == Registry!Refresh(back.m, offer)
      <3>1. r = [x EXCEPT !.ok = FALSE]
        BY <1>1, <1>3, <2>8
      <3> HIDE DEF x
      <3>2. x = Registry!Refresh(back.m, offer)
        BY DEF x
      <3>3. x = [ok |-> x.ok, m |-> x.m] /\ RegistryIndexed(x.m)
        BY <2>3, <3>2, RegistryRefresh
      <3>4. \A q \in RegistryProviders : RegistryKept(back.m, x.m, q, offer[q])
        BY <2>3, <3>2, RegistryRefresh
      <3>5. r.m = x.m
        BY <3>1, <3>3
      <3> QED BY <2>6, <3>3, <3>4, <3>5 DEF RegistryKept
    <2> QED BY <2>7, <2>8
  <1> QED BY <1>2, <1>3

LEMMA RegistryInit == ASSUME RegistryParameters, Registry!Init PROVE RegistryInv
  <1> DEFINE built == CHOOSE p \in MCPs : TRUE
  <1> DEFINE empty == Registry!Empty
  <1>1. PICK mine \in Remote, others \in SUBSET Local, known \in Remembered :
          /\ Registry!Register(Registry!WithPlugin(others).m, built, mine).ok
          /\ tm = Registry!Register(Registry!WithPlugin(others).m, built, mine).m
          /\ offers = [p \in RegistryProviders |->
                         IF p = Plugin THEN others ELSE IF p = built THEN mine ELSE {}]
          /\ live = {built}
          /\ current = IF known THEN built ELSE Registry!None
          /\ op = [c \in Callers |-> Registry!Idle]
          /\ clash = FALSE
    BY Zenon DEF Registry!Init, RegistryProviders
  <1> DEFINE first == Registry!WithPlugin(others)
  <1> DEFINE both == Registry!Register(first.m, built, mine)
  <1>2. built \in MCPs /\ built \in RegistryProviders /\ Plugin \in RegistryProviders
        /\ others \subseteq Names /\ mine \subseteq Names /\ built # Plugin
    BY DEF RegistryParameters, RegistryProviders
  <1>3. /\ empty = [registry |-> [n \in Names |-> Registry!Absent], known |-> {},
                    listed |-> <<>>, owns |-> [p \in RegistryProviders |-> {}]]
    BY DEF Registry!Empty, RegistryProviders
  <1> HIDE DEF empty, built
  <1>4. /\ \A n \in Names : ~Registry!Taken(empty, n)
        /\ \A q : ~Registry!Listed(empty, q)
        /\ \A q \in RegistryProviders : Registry!OwnedBy(empty, q) = {}
    BY <1>3 DEF Registry!Taken, Registry!Listed, Registry!OwnedBy, Registry!Absent,
       RegistryParameters, RegistryProviders
  <1>5. RegistryIndexed(empty)
    <2>1. /\ empty = [registry |-> empty.registry, known |-> empty.known,
                      listed |-> empty.listed, owns |-> empty.owns]
          /\ empty.known = {} /\ empty.listed = <<>>
          /\ empty.registry \in [Names -> Registry!Entries \union {Registry!Absent}]
          /\ empty.owns \in [RegistryProviders -> SUBSET Names]
      BY <1>3
    <2>2. {k \in Names : Registry!Taken(empty, k)} = {}
      BY <1>4
    <2>3. empty.known = {empty.registry[n].tool : n \in {k \in Names : Registry!Taken(empty, k)}}
      BY <2>1, <2>2
    <2>4. empty.listed \in Seq(RegistryProviders) /\ DOMAIN empty.listed = {}
      BY <2>1
    <2> QED BY <1>4, <2>1, <2>3, <2>4 DEF RegistryIndexed
  <1>6. RegistryOwned(empty)
    BY <1>4 DEF RegistryOwned
  <1>7. first = Registry!Register(empty, Plugin, others)
    BY DEF Registry!WithPlugin, empty
  <1> HIDE DEF first
  <1>8. first.ok
    BY <1>2, <1>4, <1>5, <1>7, RegistryRegister
  <1>9. RegistryIndexed(first.m) /\ \A q : Registry!Listed(first.m, q) <=> q = Plugin
    <2>1. RegistryIndexed(first.m)
      BY <1>2, <1>5, <1>7, RegistryRegister
    <2>2. \A q : Registry!Listed(first.m, q) <=> Registry!Listed(empty, q) \/ q = Plugin
      BY <1>2, <1>5, <1>7, RegistryRegister
    <2> QED BY <1>4, <2>1, <2>2
  <1>10. RegistryOwned(first.m)
    BY <1>2, <1>5, <1>6, <1>7, <1>8, RegistryRegister
  <1>11. both.ok /\ tm = both.m
    BY <1>1, Zenon DEF first
  <1> DEFINE twice == both
  <1>12. twice = Registry!Register(first.m, built, mine) /\ twice.ok /\ tm = twice.m
    BY <1>11
  <1> HIDE DEF both, twice
  <1>13. RegistryIndexed(tm) /\ \A q : Registry!Listed(tm, q) <=> q = Plugin \/ q = built
    BY <1>2, <1>9, <1>12, RegistryRegister
  <1>14. RegistryOwned(tm)
    BY <1>2, <1>9, <1>10, <1>12, RegistryRegister
  <1>15. offers \in [RegistryProviders -> SUBSET Names] /\ live \subseteq MCPs
         /\ current \in MCPs \union {Registry!None} /\ clash \in BOOLEAN
    BY <1>1, <1>2
  <1>16. op \in [Callers -> RegistryCalls] /\ \A c \in Callers : op[c].phase = "idle"
    <2>1. Registry!Idle \in RegistryCalls /\ Registry!Idle.phase = "idle"
      BY DEF Registry!Idle, RegistryCalls, Registry!Phases
    <2> QED BY <1>1, <2>1
  <1>17. RegistryServed
    BY <1>16 DEF RegistryServed
  <1>18. RegistryAlive
    <2>1. \A p \in MCPs : Registry!Listed(tm, p) => p \in live
      BY <1>1, <1>13 DEF RegistryParameters, built
    <2> QED BY <1>14, <1>16, <2>1 DEF RegistryAlive
  <1> QED BY <1>13, <1>15, <1>16, <1>17, <1>18 DEF RegistryInv

-----------------------------------------------------------------------------
(* The steps.                                                                *)

\* A step that changes entries but not whose they are.
LEMMA RegistryStill ==
    ASSUME RegistryInv, RegistryIndexed(tm'), tm'.listed = tm.listed, tm'.owns = tm.owns,
           \A n \in Names, q \in RegistryProviders :
              tm'.registry[n].source = q <=> tm.registry[n].source = q,
           UNCHANGED <<offers, live, current, op, clash>>
    PROVE  RegistryInv'
  <1>1. \A q : Registry!Listed(tm', q) <=> Registry!Listed(tm, q)
    BY DEF Registry!Listed
  <1>2. \A q \in RegistryProviders : Registry!OwnedBy(tm', q) = Registry!OwnedBy(tm, q)
    BY DEF Registry!OwnedBy
  <1>3. RegistryOwned(tm) => RegistryOwned(tm')
    BY <1>1, <1>2 DEF RegistryOwned
  <1>4. RegistryServed'
    <2>1. \A c \in Callers : op[c].phase = "closing" =>
              \A n \in offers[op[c].new] : n \in Names /\ op[c].new \in RegistryProviders
      BY DEF RegistryInv, RegistryServed, RegistryProviders
    <2> QED BY <2>1 DEF RegistryInv, RegistryServed
  <1>5. RegistryAlive => RegistryAlive'
    BY <1>1, <1>3 DEF RegistryAlive
  <1> QED BY <1>4, <1>5 DEF RegistryInv

\* A registry in which one entry has another tool of the same name and maker.
LEMMA RegistryEntry ==
    ASSUME RegistryParameters, NEW m, RegistryIndexed(m), NEW n \in Names, Registry!Taken(m, n),
           NEW e \in Registry!Entries, e.source = m.registry[n].source,
           e.tool.name = n, e.tool.maker = e.source,
           e.source # Registry!Direct => e.tool.version = 1,
           NEW d, d = [registry |-> [m.registry EXCEPT ![n] = e],
                       known |-> (m.known \ {m.registry[n].tool}) \union {e.tool},
                       listed |-> m.listed, owns |-> m.owns]
    PROVE  /\ RegistryIndexed(d) /\ d.listed = m.listed /\ d.owns = m.owns
           /\ \A k \in Names : d.registry[k].source = m.registry[k].source
  <1>1. /\ d = [registry |-> d.registry, known |-> d.known, listed |-> d.listed, owns |-> d.owns]
        /\ d.registry = [m.registry EXCEPT ![n] = e] /\ d.listed = m.listed /\ d.owns = m.owns
        /\ d.known = (m.known \ {m.registry[n].tool}) \union {e.tool}
    OBVIOUS
  <1>2. m.registry \in [Names -> Registry!Entries \union {Registry!Absent}]
    BY DEF RegistryIndexed
  <1>3. d.registry[n] = e /\ \A k \in Names : k # n => d.registry[k] = m.registry[k]
    BY <1>1, <1>2
  <1>4. e # Registry!Absent
    <2>1. m.registry[n] \in Registry!Entries
      BY RegistryEntries
    <2>2. e.source \in Registry!Sources
      BY DEF Registry!Entries
    <2>3. Registry!None \notin Registry!Sources
      BY DEF Registry!Sources, RegistryParameters, Registry!None, Registry!Direct
    <2> QED BY <2>2, <2>3 DEF Registry!Absent
  <1>5. \A k \in Names : Registry!Taken(d, k) <=> Registry!Taken(m, k)
    BY <1>3, <1>4 DEF Registry!Taken
  <1>6. d.known = {d.registry[k].tool : k \in {x \in Names : Registry!Taken(d, x)}}
    <2>1. m.known = {m.registry[k].tool : k \in {x \in Names : Registry!Taken(m, x)}}
      BY DEF RegistryIndexed
    <2>2. \A k \in Names : Registry!Taken(m, k) => m.registry[k].tool.name = k
      BY RegistryEntries
    <2>3. \A k \in Names : Registry!Taken(m, k) /\ k # n => m.registry[k].tool # m.registry[n].tool
      BY <2>2
    <2>4. {x \in Names : Registry!Taken(d, x)} = {x \in Names : Registry!Taken(m, x)}
      BY <1>5
    <2>5. {d.registry[k].tool : k \in {x \in Names : Registry!Taken(m, x)}}
          = {m.registry[k].tool : k \in {x \in Names : Registry!Taken(m, x) /\ x # n}} \union {e.tool}
      BY <1>3
    <2>6. {m.registry[k].tool : k \in {x \in Names : Registry!Taken(m, x) /\ x # n}}
          = m.known \ {m.registry[n].tool}
      BY <2>1, <2>3
    <2> QED BY <1>1, <2>4, <2>5, <2>6
  <1>7. \A k \in Names : Registry!Taken(d, k) =>
          /\ d.registry[k].tool.name = k /\ d.registry[k].tool.maker = d.registry[k].source
          /\ d.registry[k].source # Registry!Direct => d.registry[k].tool.version = 1
    <2>1. SUFFICES ASSUME NEW k \in Names, Registry!Taken(m, k)
                   PROVE  /\ d.registry[k].tool.name = k /\ d.registry[k].tool.maker = d.registry[k].source
                          /\ d.registry[k].source # Registry!Direct => d.registry[k].tool.version = 1
      BY <1>5
    <2>2. CASE k = n
      BY <1>3, <2>2
    <2>3. CASE k # n
      BY <1>3, <2>1, <2>3 DEF RegistryIndexed
    <2> QED BY <2>2, <2>3
  <1>8. d.registry \in [Names -> Registry!Entries \union {Registry!Absent}]
    BY <1>1, <1>2
  <1>9. /\ d.listed \in Seq(RegistryProviders) /\ d.owns \in [RegistryProviders -> SUBSET Names]
        /\ \A i, j \in DOMAIN d.listed : d.listed[i] = d.listed[j] => i = j
    BY <1>1 DEF RegistryIndexed
  <1>10. RegistryIndexed(d)
    BY <1>1, <1>6, <1>7, <1>8, <1>9 DEF RegistryIndexed
  <1> QED BY <1>1, <1>3, <1>10

LEMMA RegistryRegisterTool ==
    ASSUME RegistryParameters, RegistryInv, NEW n \in Names, Registry!RegisterTool(n)
    PROVE  RegistryInv'
  <1> DEFINE e == RegistryMine(n, Registry!Direct)
  <1>1. ~Registry!Taken(tm, n) /\ UNCHANGED <<offers, live, current, op, clash>>
        /\ tm' = Registry!Put(tm, Registry!Direct, Registry!Made(Registry!Direct, n))
    BY DEF Registry!RegisterTool
  <1>2. RegistryIndexed(tm)
    BY DEF RegistryInv
  <1>3. Registry!Made(Registry!Direct, n).name = n
    BY DEF Registry!Made
  <1>4. Registry!Put(tm, Registry!Direct, Registry!Made(Registry!Direct, n))
        = Registry!PutAll(tm, Registry!Direct, {n})
    <2>1. \A x, y : [tm EXCEPT !.registry = x, !.known = y]
                    = [registry |-> x, known |-> y, listed |-> tm.listed, owns |-> tm.owns]
      BY <1>2, RegistryFields, Zenon DEF RegistryIndexed
    <2>2. [tm.registry EXCEPT ![n] = e]
          = [k \in Names |-> IF k \in {n} THEN RegistryMine(k, Registry!Direct) ELSE tm.registry[k]]
      BY <1>2 DEF RegistryIndexed
    <2>3. Registry!MadeAll(Registry!Direct, {n}) = {Registry!Made(Registry!Direct, n)}
      BY DEF Registry!MadeAll
    <2>4. Registry!PutAll(tm, Registry!Direct, {n})
          = [tm EXCEPT !.registry = [k \in Names |->
                          IF k \in {n} THEN RegistryMine(k, Registry!Direct) ELSE tm.registry[k]],
                       !.known = tm.known \union Registry!MadeAll(Registry!Direct, {n})]
      BY Zenon DEF Registry!PutAll, RegistryMine
    <2>5. Registry!Put(tm, Registry!Direct, Registry!Made(Registry!Direct, n))
          = [tm EXCEPT !.registry = [tm.registry EXCEPT
                            ![Registry!Made(Registry!Direct, n).name] = e],
                       !.known = tm.known \union {Registry!Made(Registry!Direct, n)}]
      BY Zenon DEF Registry!Put, RegistryMine
    <2> QED BY <1>3, <2>2, <2>3, <2>4, <2>5, Zenon
  <1>5. /\ RegistryIndexed(tm') /\ tm'.listed = tm.listed /\ tm'.owns = tm.owns
        /\ tm'.registry = [k \in Names |-> IF k \in {n} THEN RegistryMine(k, Registry!Direct)
                                                       ELSE tm.registry[k]]
    BY <1>1, <1>2, <1>4, RegistryPutAll
  <1>6. \A k \in Names, q \in RegistryProviders :
            tm'.registry[k].source = q <=> tm.registry[k].source = q
    <2>1. tm'.registry[n].source = Registry!Direct
      BY <1>5 DEF RegistryMine
    <2>2. \A q \in RegistryProviders : tm.registry[n].source # q
      BY <1>1, <1>2, RegistryEntries
    <2>3. Registry!Direct \notin RegistryProviders
      BY DEF RegistryParameters, RegistryProviders
    <2> QED BY <1>5, <2>1, <2>2, <2>3
  <1> QED BY <1>1, <1>5, <1>6, RegistryStill

LEMMA RegistryUnregisterTool ==
    ASSUME RegistryParameters, RegistryInv, NEW n \in Names, Registry!UnregisterTool(n)
    PROVE  RegistryInv'
  <1>1. tm.registry[n].source = Registry!Direct /\ tm' = Registry!RemoveAll(tm, {n})
        /\ UNCHANGED <<offers, live, current, op, clash>>
    BY DEF Registry!UnregisterTool
  <1>2. /\ RegistryIndexed(tm') /\ tm'.listed = tm.listed /\ tm'.owns = tm.owns
        /\ tm'.registry = [k \in Names |-> IF k \in {n} THEN Registry!Absent ELSE tm.registry[k]]
    BY <1>1, RegistryRemoveAll DEF RegistryInv
  <1>3. \A k \in Names, q \in RegistryProviders :
            tm'.registry[k].source = q <=> tm.registry[k].source = q
    <2>1. tm'.registry[n].source = Registry!None
      BY <1>2 DEF Registry!Absent
    <2>2. Registry!Direct \notin RegistryProviders /\ Registry!None \notin RegistryProviders
      BY DEF RegistryParameters, RegistryProviders
    <2> QED BY <1>1, <1>2, <2>1, <2>2
  <1> QED BY <1>1, <1>2, <1>3, RegistryStill

LEMMA RegistryChangeStatus ==
    ASSUME RegistryParameters, RegistryInv, NEW n \in Names, Registry!ChangeStatus(n)
    PROVE  RegistryInv'
  <1> DEFINE old == tm.registry[n]
  <1> DEFINE e == [tool |-> old.tool, source |-> old.source, enabled |-> ~old.enabled]
  <1>1. Registry!Taken(tm, n) /\ tm' = [tm EXCEPT !.registry[n].enabled = ~@]
        /\ UNCHANGED <<offers, live, current, op, clash>>
    BY DEF Registry!ChangeStatus
  <1>2. RegistryIndexed(tm)
    BY DEF RegistryInv
  <1>3. old \in Registry!Entries
    BY <1>1, <1>2, RegistryEntries
  <1>4. e \in Registry!Entries /\ [old EXCEPT !.enabled = ~old.enabled] = e
    BY <1>3 DEF Registry!Entries
  <1>5. /\ old.tool.name = n /\ old.tool.maker = old.source
        /\ old.source # Registry!Direct => old.tool.version = 1
    BY <1>1, <1>2 DEF RegistryIndexed
  <1>6. tm' = [registry |-> [tm.registry EXCEPT ![n] = e],
               known |-> (tm.known \ {old.tool}) \union {e.tool},
               listed |-> tm.listed, owns |-> tm.owns]
    <2>1. tm' = [tm EXCEPT !.registry = [tm.registry EXCEPT ![n] = [old EXCEPT !.enabled = ~old.enabled]]]
      BY <1>1, Zenon
    <2>2. tm' = [tm EXCEPT !.registry = [tm.registry EXCEPT ![n] = e]]
      BY <1>4, <2>1, Zenon
    <2>3. old.tool \in tm.known
      BY <1>1, <1>2 DEF RegistryIndexed
    <2>4. (tm.known \ {old.tool}) \union {e.tool} = tm.known
      BY <2>3
    <2>5. tm = [registry |-> tm.registry, known |-> tm.known, listed |-> tm.listed, owns |-> tm.owns]
      BY <1>2 DEF RegistryIndexed
    <2>6. \A x : [[registry |-> tm.registry, known |-> tm.known, listed |-> tm.listed, owns |-> tm.owns]
                    EXCEPT !.registry = x]
                 = [registry |-> x, known |-> tm.known, listed |-> tm.listed, owns |-> tm.owns]
      OBVIOUS
    <2> HIDE DEF old, e
    <2>7. \A x : [tm EXCEPT !.registry = x]
                 = [registry |-> x, known |-> tm.known, listed |-> tm.listed, owns |-> tm.owns]
      BY <2>5, <2>6, Zenon
    <2> QED BY <2>2, <2>4, <2>7, Zenon
  <1>7. /\ e.source = old.source /\ e.tool.name = n /\ e.tool.maker = e.source
        /\ e.source # Registry!Direct => e.tool.version = 1
    BY <1>5
  <1> HIDE DEF e
  <1>8. /\ RegistryIndexed(tm') /\ tm'.listed = tm.listed /\ tm'.owns = tm.owns
        /\ \A k \in Names : tm'.registry[k].source = tm.registry[k].source
    <2>1. Registry!Taken(tm, n)
      BY <1>1
    <2> QED BY <1>2, <1>4, <1>6, <1>7, <2>1, RegistryEntry
  <1> QED BY <1>1, <1>8, RegistryStill

LEMMA RegistryUpdateTool ==
    ASSUME RegistryParameters, RegistryInv, NEW n \in Names, Registry!UpdateTool(n)
    PROVE  RegistryInv'
  <1> DEFINE old == tm.registry[n]
  <1> DEFINE new == [old.tool EXCEPT !.version = 3 - old.tool.version]
  <1> DEFINE e == [tool |-> new, source |-> old.source, enabled |-> old.enabled]
  <1>1. /\ tm.registry[n].source = Registry!Direct
        /\ tm' = [tm EXCEPT !.registry[n].tool = new, !.known = (tm.known \ {old.tool}) \union {new}]
        /\ UNCHANGED <<offers, live, current, op, clash>>
    BY Zenon DEF Registry!UpdateTool
  <1>2. RegistryIndexed(tm)
    BY DEF RegistryInv
  <1>3. Registry!Taken(tm, n) /\ old \in Registry!Entries
    <2>1. Registry!Taken(tm, n)
      BY <1>1, <1>2, RegistryEntries DEF Registry!Absent, Registry!Direct, Registry!None,
         RegistryParameters
    <2> QED BY <1>2, <2>1, RegistryEntries
  <1>4. old.tool.name = n /\ old.tool.maker = old.source
    BY <1>2, <1>3 DEF RegistryIndexed
  <1>5. new \in Registry!Tools /\ new.name = n /\ new.maker = old.source
    <2>1. old.tool \in Registry!Tools
      BY <1>3 DEF Registry!Entries
    <2> QED BY <1>4, <2>1 DEF Registry!Tools
  <1>6. e \in Registry!Entries /\ [old EXCEPT !.tool = new] = e
    BY <1>3, <1>5 DEF Registry!Entries
  <1>7. tm' = [registry |-> [tm.registry EXCEPT ![n] = e],
               known |-> (tm.known \ {old.tool}) \union {e.tool},
               listed |-> tm.listed, owns |-> tm.owns]
    <2>1. tm' = [tm EXCEPT !.registry = [tm.registry EXCEPT ![n] = [old EXCEPT !.tool = new]],
                           !.known = (tm.known \ {old.tool}) \union {new}]
      BY <1>1, Zenon
    <2>2. \A x, y : [tm EXCEPT !.registry = x, !.known = y]
                    = [registry |-> x, known |-> y, listed |-> tm.listed, owns |-> tm.owns]
      BY <1>2, RegistryFields, Zenon DEF RegistryIndexed
    <2>3. e.tool = new
      OBVIOUS
    <2> HIDE DEF old, new, e
    <2> QED BY <1>6, <2>1, <2>2, <2>3, Zenon
  <1>8. /\ e.source = old.source /\ e.tool.name = n /\ e.tool.maker = e.source
        /\ e.source # Registry!Direct => e.tool.version = 1
    BY <1>1, <1>5
  <1> HIDE DEF e
  <1>9. /\ RegistryIndexed(tm') /\ tm'.listed = tm.listed /\ tm'.owns = tm.owns
        /\ \A k \in Names : tm'.registry[k].source = tm.registry[k].source
    BY <1>2, <1>3, <1>6, <1>7, <1>8, RegistryEntry
  <1> QED BY <1>1, <1>9, RegistryStill

LEMMA RegistryOfferOther ==
    ASSUME RegistryParameters, RegistryInv, NEW n \in Names, Registry!OfferOther(n)
    PROVE  RegistryInv'
  <1>1. /\ offers' = [offers EXCEPT ![Plugin] = IF n \in offers[Plugin] THEN offers[Plugin] \ {n}
                                                 ELSE offers[Plugin] \union {n}]
        /\ UNCHANGED <<tm, live, current, op, clash>>
    BY DEF Registry!OfferOther
  <1>2. offers \in [RegistryProviders -> SUBSET Names] /\ Plugin \notin MCPs
    BY DEF RegistryInv, RegistryParameters
  <1>3. /\ offers' \in [RegistryProviders -> SUBSET Names]
        /\ \A p \in MCPs : offers'[p] = offers[p]
    BY <1>1, <1>2 DEF RegistryProviders
  <1>4. RegistryServed'
    BY <1>1, <1>3 DEF RegistryInv, RegistryServed
  <1>5. RegistryAlive => RegistryAlive'
    BY <1>1 DEF RegistryAlive
  <1> QED BY <1>1, <1>3, <1>4, <1>5 DEF RegistryInv

\* A caller's step that leaves the registry, and what is offered, alone: it ends with
\* nothing in its hands, and what it disconnects was not listed.
LEMMA RegistryEnds ==
    ASSUME RegistryParameters, RegistryInv, NEW c \in Callers, NEW x \in RegistryCalls, x.new = Registry!None,
           x.phase \in {"idle", "loading"}, op' = [op EXCEPT ![c] = x],
           live' \subseteq live, UNCHANGED <<tm, offers, clash>>,
           current' \in MCPs \union {Registry!None},
           current' \in {current, Registry!None}
              \/ (op[c].phase = "closing" /\ current' = op[c].new),
           RegistryAlive => \A p \in live \ live' : ~Registry!Listed(tm, p)
    PROVE  RegistryInv'
  <1>1. /\ op \in [Callers -> RegistryCalls] /\ op' \in [Callers -> RegistryCalls] /\ op'[c] = x
        /\ \A d \in Callers : d # c => op'[d] = op[d]
    BY DEF RegistryInv
  <1>2. RegistryServed'
    <2>1. SUFFICES ASSUME NEW d \in Callers, op'[d].phase \in {"closing", "undoing"}
                   PROVE  /\ op'[d].new \in MCPs /\ op'[d].new # current'
                          /\ \A b \in Callers : op'[b].new = op'[d].new => b = d
                          /\ op'[d].phase = "closing" =>
                                \A n \in offers'[op'[d].new] : tm'.registry[n].source = op'[d].new
      BY DEF RegistryServed
    <2>2. d # c /\ op'[d] = op[d]
      BY <1>1, <2>1
    <2>3. /\ op[d].new \in MCPs /\ op[d].new # current
          /\ \A b \in Callers : op[b].new = op[d].new => b = d
          /\ op[d].phase = "closing" =>
                \A n \in offers[op[d].new] : tm.registry[n].source = op[d].new
      BY <2>1, <2>2 DEF RegistryInv, RegistryServed
    <2>4. op[d].new # Registry!None
      BY <2>3 DEF RegistryParameters
    <2> QED BY <1>1, <2>1, <2>2, <2>3, <2>4
  <1>3. RegistryAlive => RegistryAlive'
    <2>1. SUFFICES ASSUME RegistryAlive PROVE RegistryAlive'
      OBVIOUS
    <2>2. \A p \in MCPs : Registry!Listed(tm, p) => p \in live'
      BY <2>1 DEF RegistryAlive
    <2>3. \A d \in Callers : /\ op'[d].phase # "undoing"
                             /\ op'[d].phase \in {"closing", "unloading"}
                                  => ~Registry!Listed(tm, op'[d].old)
      BY <1>1, <2>1 DEF RegistryAlive
    <2> QED BY <2>1, <2>2, <2>3 DEF RegistryAlive
  <1> QED BY <1>1, <1>2, <1>3 DEF RegistryInv

RegistryAt(phase, old, result) ==
    [phase |-> phase, new |-> Registry!None, old |-> old, result |-> result]

LEMMA RegistryIdle ==
    /\ Registry!Idle = RegistryAt("idle", Registry!None, "none")
    /\ [Registry!Idle EXCEPT !.phase = "loading"] = RegistryAt("loading", Registry!None, "none")
    /\ [Registry!Idle EXCEPT !.result = "ok"] = RegistryAt("idle", Registry!None, "ok")
    /\ [Registry!Idle EXCEPT !.result = "raised"] = RegistryAt("idle", Registry!None, "raised")
    /\ \A p : [Registry!Idle EXCEPT !.phase = "unloading", !.old = p]
             = RegistryAt("unloading", p, "none")
  <1>1. Registry!Idle = RegistryAt("idle", Registry!None, "none")
    BY DEF Registry!Idle, RegistryAt
  <1>2. ASSUME NEW p
        PROVE  [Registry!Idle EXCEPT !.phase = "unloading", !.old = p]
               = RegistryAt("unloading", p, "none")
    <2>1. [Registry!Idle EXCEPT !.phase = "unloading"]
          = RegistryAt("unloading", Registry!None, "none")
      BY <1>1 DEF RegistryAt
    <2>2. [RegistryAt("unloading", Registry!None, "none") EXCEPT !.old = p]
          = RegistryAt("unloading", p, "none")
      BY DEF RegistryAt
    <2>3. [Registry!Idle EXCEPT !.phase = "unloading", !.old = p]
          = [[Registry!Idle EXCEPT !.phase = "unloading"] EXCEPT !.old = p]
      BY Zenon
    <2> QED BY <2>1, <2>2, <2>3, Zenon
  <1>3. [Registry!Idle EXCEPT !.phase = "loading"] = RegistryAt("loading", Registry!None, "none")
    BY <1>1 DEF RegistryAt
  <1>4. [Registry!Idle EXCEPT !.result = "ok"] = RegistryAt("idle", Registry!None, "ok")
    BY <1>1 DEF RegistryAt
  <1>5. [Registry!Idle EXCEPT !.result = "raised"] = RegistryAt("idle", Registry!None, "raised")
    BY <1>1 DEF RegistryAt
  <1> QED BY <1>1, <1>2, <1>3, <1>4, <1>5, Zenon

LEMMA RegistryPlace ==
    ASSUME NEW old \in MCPs \union {Registry!None}, NEW phase \in Registry!Phases,
           NEW result \in {"none", "ok", "raised"},
           NEW x, x = RegistryAt(phase, old, result)
    PROVE  /\ x \in RegistryCalls /\ x.new = Registry!None /\ x.phase = phase /\ x.old = old
  BY DEF RegistryCalls, RegistryAt

LEMMA RegistryBegins ==
    ASSUME RegistryParameters, RegistryInv, NEW c \in Callers,
           Registry!BeginReload(c) \/ Registry!LoadFails(c)
    PROVE  RegistryInv'
  <1>1. UNCHANGED <<tm, offers, live, current, clash>>
    BY DEF Registry!BeginReload, Registry!LoadFails
  <1>2. PICK x \in RegistryCalls : /\ op' = [op EXCEPT ![c] = x] /\ x.new = Registry!None
                                  /\ x.phase \in {"idle", "loading"}
    <2>1. CASE Registry!BeginReload(c)
      <3> DEFINE y == [Registry!Idle EXCEPT !.phase = "loading"]
      <3>1. op' = [op EXCEPT ![c] = y]
        BY <2>1, Zenon DEF Registry!BeginReload
      <3>2. y = RegistryAt("loading", Registry!None, "none")
        BY RegistryIdle, Zenon
      <3> HIDE DEF y
      <3>3. y \in RegistryCalls /\ y.new = Registry!None /\ y.phase = "loading"
        BY <3>2, RegistryPlace DEF Registry!Phases
      <3> QED BY <3>1, <3>3
    <2>2. CASE Registry!LoadFails(c)
      <3> DEFINE y == [Registry!Idle EXCEPT !.result = "raised"]
      <3>1. op' = [op EXCEPT ![c] = y]
        BY <2>2, Zenon DEF Registry!LoadFails
      <3>2. y = RegistryAt("idle", Registry!None, "raised")
        BY RegistryIdle, Zenon
      <3> HIDE DEF y
      <3>3. y \in RegistryCalls /\ y.new = Registry!None /\ y.phase = "idle"
        BY <3>2, RegistryPlace DEF Registry!Phases
      <3> QED BY <3>1, <3>3
    <2> QED BY <2>1, <2>2
  <1> QED BY <1>1, <1>2, RegistryEnds DEF RegistryInv

LEMMA RegistryEndReload ==
    ASSUME RegistryParameters, RegistryInv, NEW c \in Callers, Registry!EndReload(c)
    PROVE  RegistryInv'
  <1>1. /\ op[c].phase = "closing" /\ live' = live \ {op[c].old} /\ current' = op[c].new
        /\ UNCHANGED <<tm, offers, clash>>
    BY DEF Registry!EndReload
  <1>2. PICK x \in RegistryCalls : /\ op' = [op EXCEPT ![c] = x] /\ x.new = Registry!None
                                  /\ x.phase \in {"idle", "loading"}
    <2> DEFINE y == [Registry!Idle EXCEPT !.result = "ok"]
    <2>1. op' = [op EXCEPT ![c] = y]
      BY Zenon DEF Registry!EndReload
    <2>2. y = RegistryAt("idle", Registry!None, "ok")
      BY RegistryIdle, Zenon
    <2> HIDE DEF y
    <2>3. y \in RegistryCalls /\ y.new = Registry!None /\ y.phase = "idle"
      BY <2>2, RegistryPlace DEF Registry!Phases
    <2> QED BY <2>1, <2>3
  <1>3. current' \in MCPs
    BY <1>1 DEF RegistryInv, RegistryServed
  <1>4. RegistryAlive => \A p \in live \ live' : ~Registry!Listed(tm, p)
    BY <1>1 DEF RegistryAlive
  <1> QED BY <1>1, <1>2, <1>3, <1>4, RegistryEnds

LEMMA RegistryEndUnload ==
    ASSUME RegistryParameters, RegistryInv, NEW c \in Callers, Registry!EndUnload(c)
    PROVE  RegistryInv'
  <1>1. /\ op[c].phase = "unloading" /\ live' = live \ {op[c].old} /\ current' = Registry!None
        /\ UNCHANGED <<tm, offers, clash>>
    BY DEF Registry!EndUnload
  <1>2. PICK x \in RegistryCalls : /\ op' = [op EXCEPT ![c] = x] /\ x.new = Registry!None
                                  /\ x.phase \in {"idle", "loading"}
    <2> DEFINE y == [Registry!Idle EXCEPT !.result = "ok"]
    <2>1. op' = [op EXCEPT ![c] = y]
      BY Zenon DEF Registry!EndUnload
    <2>2. y = RegistryAt("idle", Registry!None, "ok")
      BY RegistryIdle, Zenon
    <2> HIDE DEF y
    <2>3. y \in RegistryCalls /\ y.new = Registry!None /\ y.phase = "idle"
      BY <2>2, RegistryPlace DEF Registry!Phases
    <2> QED BY <2>1, <2>3
  <1>3. /\ current' \in MCPs \union {Registry!None} /\ current' \in {current, Registry!None}
        /\ live' \subseteq live /\ UNCHANGED <<tm, offers, clash>>
    BY <1>1
  <1>4. RegistryAlive => \A p \in live \ live' : ~Registry!Listed(tm, p)
    BY <1>1 DEF RegistryAlive
  <1> QED BY <1>2, <1>3, <1>4, RegistryEnds

LEMMA RegistryUndoReload ==
    ASSUME RegistryParameters, RegistryInv, NEW c \in Callers, Registry!UndoReload(c)
    PROVE  RegistryInv'
  <1>1. /\ op[c].phase = "undoing" /\ tm' = Registry!PutBack(tm, op[c].old, offers).m
        /\ live' = live \ {op[c].new} /\ UNCHANGED <<offers, current, clash>>
    BY DEF Registry!UndoReload
  <1>2. PICK x \in RegistryCalls : /\ op' = [op EXCEPT ![c] = x] /\ x.new = Registry!None
                                  /\ x.phase = "idle"
    <2> DEFINE y == [Registry!Idle EXCEPT !.result = "raised"]
    <2>1. op' = [op EXCEPT ![c] = y]
      BY Zenon DEF Registry!UndoReload
    <2>2. y = RegistryAt("idle", Registry!None, "raised")
      BY RegistryIdle, Zenon
    <2> HIDE DEF y
    <2>3. y \in RegistryCalls /\ y.new = Registry!None /\ y.phase = "idle"
      BY <2>2, RegistryPlace DEF Registry!Phases
    <2> QED BY <2>1, <2>3
  <1>3. /\ op \in [Callers -> RegistryCalls] /\ op' \in [Callers -> RegistryCalls] /\ op'[c] = x
        /\ \A d \in Callers : d # c => op'[d] = op[d]
    BY <1>2 DEF RegistryInv
  <1>4. op[c].old \in MCPs \union {Registry!None}
    BY <1>3 DEF RegistryCalls
  <1>5. /\ RegistryIndexed(tm')
        /\ \A q \in RegistryProviders : RegistryKept(tm, tm', q, offers[q])
    BY <1>1, <1>4, RegistryPutBack DEF RegistryInv
  <1>6. RegistryServed'
    <2>1. SUFFICES ASSUME NEW d \in Callers, op'[d].phase \in {"closing", "undoing"}
                   PROVE  /\ op'[d].new \in MCPs /\ op'[d].new # current'
                          /\ \A b \in Callers : op'[b].new = op'[d].new => b = d
                          /\ op'[d].phase = "closing" =>
                                \A n \in offers'[op'[d].new] : tm'.registry[n].source = op'[d].new
      BY DEF RegistryServed
    <2>2. d # c /\ op'[d] = op[d]
      BY <1>2, <1>3, <2>1
    <2>3. /\ op[d].new \in MCPs /\ op[d].new # current
          /\ \A b \in Callers : op[b].new = op[d].new => b = d
          /\ op[d].phase = "closing" =>
                \A n \in offers[op[d].new] : tm.registry[n].source = op[d].new
      BY <2>1, <2>2 DEF RegistryInv, RegistryServed
    <2>4. op[d].new # Registry!None /\ op[d].new \in RegistryProviders
      BY <2>3 DEF RegistryParameters, RegistryProviders
    <2>5. RegistryKept(tm, tm', op[d].new, offers[op[d].new])
      BY <1>5, <2>4
    <2>6. op[d].phase = "closing" =>
                \A n \in offers[op[d].new] : tm'.registry[n].source = op[d].new
      BY <2>3, <2>5 DEF RegistryKept
    <2>7. \A b \in Callers : op'[b].new = op[d].new => b = d
      BY <1>2, <1>3, <2>3, <2>4
    <2> QED BY <1>1, <2>2, <2>3, <2>6, <2>7
  <1>7. ~RegistryAlive
    BY <1>1 DEF RegistryAlive
  <1> QED BY <1>1, <1>3, <1>5, <1>6, <1>7 DEF RegistryInv

LEMMA RegistryLoaded ==
    ASSUME RegistryParameters, RegistryInv, NEW c \in Callers, Registry!Loaded(c)
    PROVE  RegistryInv'
  <1> DEFINE chosen == CHOOSE q \in MCPs : Registry!Unused(q)
  <1>1. PICK names \in Remote :
          /\ offers' = [offers EXCEPT ![chosen] = names] /\ live' = live \union {chosen}
          /\ tm' = Registry!Swap(tm, current, chosen, [offers EXCEPT ![chosen] = names]).m
          /\ clash' = (clash \/ ~Registry!Swap(tm, current, chosen, [offers EXCEPT ![chosen] = names]).ok)
          /\ op' = [op EXCEPT ![c] =
                      [phase |-> IF Registry!Swap(tm, current, chosen, [offers EXCEPT ![chosen] = names]).ok
                                 THEN "closing" ELSE "undoing",
                       new |-> chosen, old |-> current, result |-> "none"]]
    BY Zenon DEF Registry!Loaded
  <1>2. chosen \in MCPs /\ Registry!Unused(chosen) /\ op[c].phase = "loading" /\ current' = current
    <2>1. \E q \in MCPs : Registry!Unused(q)
      BY DEF Registry!Loaded
    <2>2. chosen \in MCPs /\ Registry!Unused(chosen)
      BY <2>1, Zenon
    <2> QED BY <2>2 DEF Registry!Loaded
  <1>3. PICK p \in MCPs : p = chosen /\ Registry!Unused(p)
    BY <1>2
  <1> HIDE DEF chosen
  <1>4. PICK offer : offer = [offers EXCEPT ![p] = names]
    OBVIOUS
  <1>5. PICK swap : swap = Registry!Swap(tm, current, p, offer)
    OBVIOUS
  <1>6. /\ offers' = offer /\ live' = live \union {p} /\ tm' = swap.m /\ current' = current
        /\ clash' = (clash \/ ~swap.ok)
        /\ op' = [op EXCEPT ![c] = [phase |-> IF swap.ok THEN "closing" ELSE "undoing",
                                    new |-> p, old |-> current, result |-> "none"]]
    BY <1>1, <1>2, <1>3, <1>4, <1>5, Zenon
  <1>7. /\ RegistryIndexed(tm) /\ offers \in [RegistryProviders -> SUBSET Names]
        /\ live \subseteq MCPs /\ current \in MCPs \union {Registry!None} /\ clash \in BOOLEAN
        /\ op \in [Callers -> RegistryCalls] /\ names \subseteq Names /\ p \in RegistryProviders
    BY DEF RegistryInv, RegistryParameters, RegistryProviders
  <1>8. /\ p \notin live /\ ~Registry!Listed(tm, p) /\ p # current
        /\ \A d \in Callers : op[d].new # p /\ op[d].old # p
    BY <1>3 DEF Registry!Unused
  <1>9. /\ offer \in [RegistryProviders -> SUBSET Names] /\ offer[p] = names
        /\ \A q \in RegistryProviders : q # p => offer[q] = offers[q]
    BY <1>4, <1>7
  <1>10. /\ RegistryIndexed(tm) /\ offer \in [RegistryProviders -> SUBSET Names] /\ p # current
         /\ current \in MCPs \union {Registry!None} /\ ~Registry!Listed(tm, p)
    BY <1>7, <1>8, <1>9
  <1>11. \A q : Registry!Listed(swap.m, q) <=> (Registry!Listed(tm, q) /\ q # current) \/ q = p
    BY <1>5, <1>10, RegistrySwap
  <1>12. \A q \in RegistryProviders : q # current => RegistryKept(tm, swap.m, q, offer[q])
    BY <1>5, <1>10, RegistrySwap
  <1>13. swap.ok => \A n \in offer[p] : swap.m.registry[n].source = p
    BY <1>5, <1>10, RegistrySwap
  <1>14. /\ swap.ok /\ RegistryOwned(tm) => RegistryOwned(swap.m)
         /\ swap.ok \in BOOLEAN /\ RegistryIndexed(swap.m)
    BY <1>5, <1>10, RegistrySwap
  <1>15. PICK x \in RegistryCalls :
           /\ op' = [op EXCEPT ![c] = x] /\ x.new = p /\ x.old = current
           /\ x.phase = IF swap.ok THEN "closing" ELSE "undoing"
    <2> DEFINE y == [phase |-> IF swap.ok THEN "closing" ELSE "undoing",
                     new |-> p, old |-> current, result |-> "none"]
    <2>1. op' = [op EXCEPT ![c] = y]
      BY <1>6
    <2>2. /\ y \in RegistryCalls /\ y.new = p /\ y.old = current
          /\ y.phase = IF swap.ok THEN "closing" ELSE "undoing"
      BY <1>7 DEF RegistryCalls, Registry!Phases
    <2> HIDE DEF y
    <2> QED BY <2>1, <2>2
  <1>16. /\ op' \in [Callers -> RegistryCalls] /\ op'[c] = x
         /\ \A d \in Callers : d # c => op'[d] = op[d]
    BY <1>7, <1>15
  <1>17. RegistryServed'
    <2>1. ASSUME NEW d \in Callers, d # c, op[d].phase \in {"closing", "undoing"}
          PROVE  /\ op[d].new \in MCPs /\ op[d].new # current
                 /\ \A b \in Callers : op'[b].new = op[d].new => b = d
                 /\ op[d].phase = "closing" =>
                       \A n \in offer[op[d].new] : swap.m.registry[n].source = op[d].new
      <3>1. /\ op[d].new \in MCPs /\ op[d].new # current /\ op[d].new # p
            /\ \A b \in Callers : op[b].new = op[d].new => b = d
            /\ op[d].phase = "closing" =>
                  \A n \in offers[op[d].new] : tm.registry[n].source = op[d].new
        BY <1>8, <2>1 DEF RegistryInv, RegistryServed
      <3>2. \A b \in Callers : op'[b].new = op[d].new => b = d
        BY <1>15, <1>16, <3>1
      <3>3. op[d].new \in RegistryProviders
        BY <3>1 DEF RegistryProviders
      <3>4. /\ offer[op[d].new] = offers[op[d].new]
            /\ RegistryKept(tm, swap.m, op[d].new, offer[op[d].new])
        BY <1>9, <1>12, <3>1, <3>3
      <3> QED BY <3>1, <3>2, <3>4 DEF RegistryKept
    <2>2. \A b \in Callers : op'[b].new = p => b = c
      BY <1>8, <1>16
    <2>3. SUFFICES ASSUME NEW d \in Callers, op'[d].phase \in {"closing", "undoing"}
                   PROVE  /\ op'[d].new \in MCPs /\ op'[d].new # current'
                          /\ \A b \in Callers : op'[b].new = op'[d].new => b = d
                          /\ op'[d].phase = "closing" =>
                                \A n \in offers'[op'[d].new] : tm'.registry[n].source = op'[d].new
      BY DEF RegistryServed
    <2>4. CASE d = c
      <3>1. op'[d].phase = "closing" => swap.ok
        BY <1>14, <1>15, <1>16, <2>4
      <3>2. /\ op'[d].new = p /\ current' = current /\ offers' = offer /\ tm' = swap.m
        BY <1>6, <1>15, <1>16, <2>4
      <3> QED BY <1>8, <1>13, <2>2, <2>4, <3>1, <3>2
    <2>5. CASE d # c
      <3>1. op'[d] = op[d] /\ current' = current /\ offers' = offer /\ tm' = swap.m
        BY <1>6, <1>16, <2>5
      <3> QED BY <2>1, <2>3, <2>5, <3>1
    <2> QED BY <2>4, <2>5
  <1>18. ASSUME RegistryAlive, swap.ok
         PROVE  RegistryAlive'
    <2>1. RegistryOwned(tm')
      BY <1>6, <1>14, <1>18 DEF RegistryAlive
    <2>2. \A q \in MCPs : Registry!Listed(tm', q) => q \in live'
      BY <1>6, <1>11, <1>18 DEF RegistryAlive
    <2>3. ASSUME NEW d \in Callers
          PROVE  /\ op'[d].phase # "undoing"
                 /\ op'[d].phase \in {"closing", "unloading"} => ~Registry!Listed(tm', op'[d].old)
      <3>1. CASE d = c
        <4>1. op'[d].phase = "closing" /\ op'[d].old = current
          BY <1>15, <1>16, <1>18, <3>1
        <4> QED BY <1>6, <1>8, <1>11, <4>1
      <3>2. CASE d # c
        <4>1. /\ op'[d] = op[d] /\ op[d].old # p
              /\ op[d].phase # "undoing"
              /\ op[d].phase \in {"closing", "unloading"} => ~Registry!Listed(tm, op[d].old)
          BY <1>8, <1>16, <1>18, <3>2 DEF RegistryAlive
        <4> QED BY <1>6, <1>11, <4>1
      <3> QED BY <3>1, <3>2
    <2> QED BY <2>1, <2>2, <2>3 DEF RegistryAlive
  <1>19. /\ RegistryIndexed(tm') /\ offers' \in [RegistryProviders -> SUBSET Names]
         /\ live' \subseteq MCPs /\ current' \in MCPs \union {Registry!None} /\ clash' \in BOOLEAN
    BY <1>6, <1>7, <1>9, <1>14
  <1>20. ~clash' => ~clash /\ swap.ok
    BY <1>6, <1>7, <1>14
  <1> QED BY <1>16, <1>17, <1>18, <1>19, <1>20 DEF RegistryInv

LEMMA RegistryBeginUnload ==
    ASSUME RegistryParameters, RegistryInv, NEW c \in Callers, Registry!BeginUnload(c)
    PROVE  RegistryInv'
  <1>1. PICK d : d = Registry!Unregister(tm, current)
    OBVIOUS
  <1>2. PICK r : r = Registry!Refresh(d, offers)
    OBVIOUS
  <1>3. /\ op[c].phase = "idle" /\ current # Registry!None
        /\ tm' = r.m /\ clash' = (clash \/ ~r.ok) /\ UNCHANGED <<offers, live, current>>
        /\ op' = [op EXCEPT ![c] = IF r.ok
                       THEN [Registry!Idle EXCEPT !.phase = "unloading", !.old = current]
                       ELSE [Registry!Idle EXCEPT !.result = "raised"]]
    BY <1>1, <1>2, Zenon DEF Registry!BeginUnload
  <1>4. /\ RegistryIndexed(tm) /\ offers \in [RegistryProviders -> SUBSET Names]
        /\ live \subseteq MCPs /\ current \in MCPs /\ current \in RegistryProviders
        /\ clash \in BOOLEAN /\ op \in [Callers -> RegistryCalls]
    BY <1>3 DEF RegistryInv, RegistryProviders
  <1>5. /\ RegistryIndexed(d)
        /\ \A q : Registry!Listed(d, q) <=> Registry!Listed(tm, q) /\ q # current
        /\ RegistryOwned(tm) => RegistryOwned(d)
    BY <1>1, <1>4, RegistryUnregister
  <1>6. \A q \in RegistryProviders : q # current => RegistryKept(tm, d, q, Names)
    BY <1>1, <1>4, RegistryUnregister
  <1>7. /\ r.ok \in BOOLEAN /\ RegistryIndexed(r.m) /\ r.m.listed = d.listed
        /\ r.ok /\ RegistryOwned(d) => RegistryOwned(r.m)
    BY <1>2, <1>4, <1>5, RegistryRefresh
  <1>8. \A q \in RegistryProviders : RegistryKept(d, r.m, q, offers[q])
    BY <1>2, <1>4, <1>5, RegistryRefresh
  <1>9. \A q : Registry!Listed(r.m, q) <=> Registry!Listed(tm, q) /\ q # current
    BY <1>5, <1>7 DEF Registry!Listed
  <1>10. PICK x \in RegistryCalls :
           /\ op' = [op EXCEPT ![c] = x] /\ x.new = Registry!None
           /\ x.phase \in {"idle", "unloading"}
           /\ x.phase = "unloading" => x.old = current
    <2>1. CASE r.ok
      <3> DEFINE y == [Registry!Idle EXCEPT !.phase = "unloading", !.old = current]
      <3>1. op' = [op EXCEPT ![c] = y]
        BY <1>3, <2>1, Zenon
      <3>2. y = RegistryAt("unloading", current, "none")
        BY RegistryIdle, Zenon
      <3> HIDE DEF y
      <3>3. y \in RegistryCalls /\ y.new = Registry!None /\ y.phase = "unloading" /\ y.old = current
        BY <1>4, <3>2, RegistryPlace DEF Registry!Phases
      <3> QED BY <3>1, <3>3
    <2>2. CASE ~r.ok
      <3> DEFINE y == [Registry!Idle EXCEPT !.result = "raised"]
      <3>1. op' = [op EXCEPT ![c] = y]
        BY <1>3, <2>2, Zenon
      <3>2. y = RegistryAt("idle", Registry!None, "raised")
        BY RegistryIdle, Zenon
      <3> HIDE DEF y
      <3>3. y \in RegistryCalls /\ y.new = Registry!None /\ y.phase = "idle"
        BY <3>2, RegistryPlace DEF Registry!Phases
      <3> QED BY <3>1, <3>3
    <2> QED BY <1>7, <2>1, <2>2
  <1>11. /\ op' \in [Callers -> RegistryCalls] /\ op'[c] = x
         /\ \A b \in Callers : b # c => op'[b] = op[b]
    BY <1>4, <1>10
  <1>12. RegistryServed'
    <2>1. SUFFICES ASSUME NEW b \in Callers, op'[b].phase \in {"closing", "undoing"}
                   PROVE  /\ op'[b].new \in MCPs /\ op'[b].new # current'
                          /\ \A a \in Callers : op'[a].new = op'[b].new => a = b
                          /\ op'[b].phase = "closing" =>
                                \A n \in offers'[op'[b].new] : tm'.registry[n].source = op'[b].new
      BY DEF RegistryServed
    <2>2. b # c /\ op'[b] = op[b]
      BY <1>10, <1>11, <2>1
    <2>3. /\ op[b].new \in MCPs /\ op[b].new # current
          /\ \A a \in Callers : op[a].new = op[b].new => a = b
          /\ op[b].phase = "closing" =>
                \A n \in offers[op[b].new] : tm.registry[n].source = op[b].new
      BY <2>1, <2>2 DEF RegistryInv, RegistryServed
    <2>4. op[b].new # Registry!None /\ op[b].new \in RegistryProviders
      BY <2>3 DEF RegistryParameters, RegistryProviders
    <2>5. /\ RegistryKept(tm, d, op[b].new, Names) /\ RegistryKept(d, r.m, op[b].new, offers[op[b].new])
          /\ offers[op[b].new] \subseteq Names
      BY <1>4, <1>6, <1>8, <2>3, <2>4
    <2>6. op[b].phase = "closing" =>
                \A n \in offers[op[b].new] : r.m.registry[n].source = op[b].new
      BY <2>3, <2>5 DEF RegistryKept
    <2>7. \A a \in Callers : op'[a].new = op[b].new => a = b
      BY <1>10, <1>11, <2>3, <2>4
    <2> QED BY <1>3, <2>2, <2>3, <2>6, <2>7
  <1>13. ASSUME RegistryAlive, r.ok
         PROVE  RegistryAlive'
    <2>1. RegistryOwned(tm')
      BY <1>3, <1>5, <1>7, <1>13 DEF RegistryAlive
    <2>2. \A q \in MCPs : Registry!Listed(tm', q) => q \in live'
      BY <1>3, <1>9, <1>13 DEF RegistryAlive
    <2>3. \A b \in Callers :
            /\ op'[b].phase # "undoing"
            /\ op'[b].phase \in {"closing", "unloading"} => ~Registry!Listed(tm', op'[b].old)
      BY <1>3, <1>9, <1>10, <1>11, <1>13 DEF RegistryAlive
    <2> QED BY <2>1, <2>2, <2>3 DEF RegistryAlive
  <1>14. ~clash' => ~clash /\ r.ok
    BY <1>3, <1>4, <1>7
  <1>15. /\ RegistryIndexed(tm') /\ offers' \in [RegistryProviders -> SUBSET Names]
         /\ live' \subseteq MCPs /\ current' \in MCPs \union {Registry!None} /\ clash' \in BOOLEAN
    BY <1>3, <1>4, <1>7
  <1> QED BY <1>11, <1>12, <1>13, <1>14, <1>15 DEF RegistryInv

LEMMA RegistryNext ==
    ASSUME RegistryParameters, RegistryInv, [Registry!Next]_(Registry!vars)
    PROVE  RegistryInv'
  <1>1. CASE UNCHANGED Registry!vars
    <2>1. UNCHANGED <<tm, offers, live, current, op, clash>>
      BY <1>1 DEF Registry!vars
    <2> QED BY <2>1 DEF RegistryInv, RegistryServed, RegistryAlive
  <1>2. CASE \E n \in Local : \/ Registry!RegisterTool(n) \/ Registry!UnregisterTool(n)
                             \/ Registry!UpdateTool(n) \/ Registry!OfferOther(n)
    <2>1. Local \subseteq Names
      BY DEF RegistryParameters
    <2> QED BY <1>2, <2>1, RegistryRegisterTool, RegistryUnregisterTool, RegistryUpdateTool,
               RegistryOfferOther
  <1>3. CASE \E n \in Names : Registry!ChangeStatus(n)
    BY <1>3, RegistryChangeStatus
  <1>4. CASE \E c \in Callers : \/ Registry!BeginReload(c) \/ Registry!LoadFails(c)
                               \/ Registry!Loaded(c) \/ Registry!EndReload(c)
                               \/ Registry!UndoReload(c) \/ Registry!BeginUnload(c)
                               \/ Registry!EndUnload(c)
    BY <1>4, RegistryBegins, RegistryLoaded, RegistryEndReload, RegistryUndoReload,
       RegistryBeginUnload, RegistryEndUnload
  <1> QED BY <1>1, <1>2, <1>3, <1>4 DEF Registry!Next

LEMMA RegistryHolds ==
    ASSUME RegistryParameters, RegistryInv
    PROVE  Registry!TypeOK /\ Registry!RegistryConsistent /\ Registry!SuccessIsTrue
  <1>1. RegistryIndexed(tm) /\ op \in [Callers -> RegistryCalls]
    BY DEF RegistryInv
  <1>2. tm.registry \in [Names -> Registry!Entries \union {Registry!Absent}]
    BY <1>1 DEF RegistryIndexed
  <1>3. \A n \in Names : Registry!Taken(tm, n) => tm.registry[n].tool \in Registry!Tools
    BY <1>1, RegistryEntries DEF Registry!Entries
  <1>4. tm.known = {tm.registry[n].tool : n \in {k \in Names : Registry!Taken(tm, k)}}
    BY <1>1 DEF RegistryIndexed
  <1>5. tm.known \subseteq Registry!Tools
    BY <1>3, <1>4
  <1>6. tm \in Registry!Managers
    BY <1>1, <1>5 DEF RegistryIndexed, Registry!Managers, RegistryProviders
  <1>7. Registry!TypeOK
    BY <1>6 DEF RegistryInv, Registry!TypeOK, RegistryCalls, RegistryProviders
  <1>8. \A n \in Names : Registry!Taken(tm, n) => tm.registry[n].tool.name = n
    BY <1>1, RegistryEntries
  <1>9. ASSUME ~clash
        PROVE  /\ \A p \in RegistryProviders :
                    Registry!OwnedBy(tm, p) = IF Registry!Listed(tm, p) THEN tm.owns[p] ELSE {}
               /\ \A p \in MCPs : Registry!OwnedBy(tm, p) # {} => p \in live
    <2>1. RegistryAlive
      BY <1>9 DEF RegistryInv
    <2>2. RegistryOwned(tm) /\ \A p \in MCPs : Registry!Listed(tm, p) => p \in live
      BY <2>1 DEF RegistryAlive
    <2> QED BY <2>2 DEF RegistryOwned, RegistryProviders
  <1>10. Registry!RegistryConsistent
    BY <1>4, <1>8, <1>9 DEF Registry!RegistryConsistent, RegistryProviders
  <1>11. Registry!SuccessIsTrue
    BY DEF Registry!SuccessIsTrue, RegistryInv, RegistryServed
  <1> QED BY <1>7, <1>10, <1>11

\* The index of tool objects and the registry agree after every operation; as long as
\* no registration has raised, a listed provider owns exactly its entries and no tool of
\* a disconnected server can be called; and a reload that reports success has put every
\* tool it found into the registry (_sync_provider_tools, unregister_provider, reload,
\* unload), whatever any number of reloads, unloads and registrations do meanwhile.
THEOREM RegistryAgrees ==
    ASSUME RegistryParameters
    PROVE  Registry!Spec => /\ [](Registry!TypeOK /\ Registry!RegistryConsistent)
                            /\ [][Registry!SuccessIsTrue]_(Registry!vars)
  <1>1. Registry!Init => RegistryInv
    BY RegistryInit
  <1>2. RegistryInv /\ [Registry!Next]_(Registry!vars) => RegistryInv'
    BY RegistryNext
  <1>3. RegistryInv => Registry!TypeOK /\ Registry!RegistryConsistent /\ Registry!SuccessIsTrue
    BY RegistryHolds
  <1>4. RegistryInv => [Registry!SuccessIsTrue]_(Registry!vars)
    BY <1>3
  <1> QED BY <1>1, <1>2, <1>3, <1>4, PTL DEF Registry!Spec

-----------------------------------------------------------------------------
(* EventBus.                                                                 *)

\* What is registered has a mode and a priority, events have a phase.
BusParameters ==
    /\ \A r \in Registrations : r.mode \in Bus!Modes /\ r.priority \in Int
    /\ \A e \in Events : e.phase \in {"before", "after"}

LEMMA BusSame ==
    /\ \A S, R : Bus!InOrder(S, R) = InOrder(S, R)
    /\ \A P : Bus!Places(P) = Places(P)
    /\ \A s, P : Bus!Taken(s, P) = Taken(s, P)
  <1>1. \A S, R : Bus!InOrder(S, R) = InOrder(S, R)
    BY Zenon DEF Bus!InOrder, InOrder, Bus!Cardinality, Cardinality, Bus!IsFiniteSet, IsFiniteSet
  <1>2. \A P : Bus!Places(P) = Places(P)
    BY <1>1 DEF Bus!Places, Places
  <1> QED BY <1>1, <1>2 DEF Bus!Taken, Taken

\* Sorting changes the order only.
LEMMA BusSorted ==
    ASSUME BusParameters, NEW ls \in Seq(Registrations)
    PROVE  LET t == Bus!Sorted(ls)
           IN  /\ t \in Seq(Registrations) /\ Len(t) = Len(ls) /\ Len(ls) \in Nat
               /\ \A k \in 1..Len(t) : \E i \in 1..Len(ls) : t[k] = ls[i]
               /\ \A i \in 1..Len(ls) : \E k \in 1..Len(t) : t[k] = ls[i]
               /\ \A j, k \in 1..Len(t) : j < k => t[j].priority <= t[k].priority
  <1> DEFINE R == Bus!ByPriority(ls)
             D == 1..Len(ls)
             at == InOrder(D, R)
             t == Bus!Sorted(ls)
  <1>1. Len(ls) \in Nat /\ DOMAIN ls = D /\ \A i \in D : ls[i] \in Registrations
    OBVIOUS
  <1>2. \A i \in D : ls[i].priority \in Int
    BY <1>1 DEF BusParameters
  <1>3. IsFiniteSet(D) /\ Cardinality(D) = Len(ls)
    <2>1. Len(ls) \in Int /\ 1 \in Int
      BY <1>1
    <2>2. IsFiniteSet(1..Len(ls)) /\ Cardinality(1..Len(ls)) = IF 1 > Len(ls) THEN 0 ELSE Len(ls) - 1 + 1
      BY <2>1, FS_Interval
    <2> QED BY <1>1, <2>2
  <1>4. \A i, j \in D : <<i, j>> \in R <=>
           ls[i].priority < ls[j].priority \/ (ls[i].priority = ls[j].priority /\ i < j)
    BY <1>1 DEF Bus!ByPriority, Bus!Precedes
  <1>5. Orders(R, D)
    <2> HIDE DEF R
    <2>1. \A i \in D : i \in Nat
      BY <1>1
    <2>2. \A i \in D : <<i, i>> \notin R
      BY <1>2, <1>4, <2>1
    <2>3. \A i, j, k \in D : <<i, j>> \in R /\ <<j, k>> \in R => <<i, k>> \in R
      BY <1>2, <1>4, <2>1
    <2>4. \A i, j \in D : i # j => <<i, j>> \in R \/ <<j, i>> \in R
      BY <1>2, <1>4, <2>1
    <2> QED BY <2>2, <2>3, <2>4 DEF Orders
  <1>6. t = [k \in D |-> ls[at[k]]]
    BY <1>1, BusSame DEF Bus!Sorted
  <1> HIDE DEF R
  <1>7. /\ at \in [D -> D]
        /\ \A x \in D : \E k \in D : at[k] = x
        /\ \A j, k \in D : j < k => <<at[j], at[k]>> \in R
    <2> HIDE DEF D
    <2>1. /\ at \in [1..Cardinality(D) -> D]
          /\ \A x \in D : \E k \in 1..Cardinality(D) : at[k] = x
          /\ \A j, k \in 1..Cardinality(D) : j < k => <<at[j], at[k]>> \in R
      BY <1>3, <1>5, Listing
    <2>2. D = 1..Cardinality(D)
      BY <1>3 DEF D
    <2> QED BY <2>1, <2>2
  <1> HIDE DEF at, t
  <1>8. \A k \in D : at[k] \in D /\ ls[at[k]] \in Registrations /\ t[k] = ls[at[k]]
    BY <1>1, <1>6, <1>7
  <1>9. t \in Seq(Registrations) /\ Len(t) = Len(ls)
    BY <1>1, <1>6, <1>8
  <1>10. \A j, k \in D : j < k => t[j].priority <= t[k].priority
    <2> SUFFICES ASSUME NEW j \in D, NEW k \in D, j < k PROVE t[j].priority <= t[k].priority
      OBVIOUS
    <2>1. <<at[j], at[k]>> \in R /\ at[j] \in D /\ at[k] \in D
      BY <1>7
    <2>2. ls[at[j]].priority \in Int /\ ls[at[k]].priority \in Int
      BY <1>2, <2>1
    <2>3. ls[at[j]].priority <= ls[at[k]].priority
      BY <1>4, <2>1, <2>2, SMTT(40)
    <2> QED BY <1>8, <2>3
  <1> HIDE DEF D
  <1>11. /\ t \in Seq(Registrations) /\ Len(t) = Len(ls) /\ Len(ls) \in Nat
         /\ \A k \in D : \E i \in D : t[k] = ls[i]
         /\ \A i \in D : \E k \in D : t[k] = ls[i]
         /\ \A j, k \in D : j < k => t[j].priority <= t[k].priority
    <2>1. \A k \in D : \E i \in D : t[k] = ls[i]
      BY <1>8
    <2>2. \A i \in D : \E k \in D : t[k] = ls[i]
      <3> SUFFICES ASSUME NEW i \in D PROVE \E k \in D : t[k] = ls[i]
        OBVIOUS
      <3>1. PICK k \in D : at[k] = i
        BY <1>7
      <3> QED BY <1>8, <3>1
    <2> QED BY <1>1, <1>9, <1>10, <2>1, <2>2
  <1> QED BY <1>11 DEF t, D

\* Each handler stays once, with its best registration.
LEMMA BusOnce ==
    ASSUME BusParameters, NEW s \in Seq(Registrations),
           \A j, k \in 1..Len(s) : j < k => s[j].priority <= s[k].priority
    PROVE  LET t == Bus!Once(s)
           IN  /\ t \in Seq(Registrations) /\ Len(t) \in Nat
               /\ \A k \in 1..Len(t) : \E i \in 1..Len(s) : t[k] = s[i]
               /\ \A j, k \in 1..Len(t) : j < k => t[j].handler # t[k].handler
                                                   /\ t[j].priority <= t[k].priority
               /\ \A i \in 1..Len(s) : \E k \in 1..Len(t) :
                     t[k].handler = s[i].handler /\ t[k].priority <= s[i].priority
  <1> DEFINE P == {i \in DOMAIN s : \A j \in 1..i - 1 : s[j].handler # s[i].handler}
             t == Bus!Once(s)
             at == Places(P)
  <1>1. Len(s) \in Nat /\ DOMAIN s = 1..Len(s) /\ \A i \in 1..Len(s) : s[i] \in Registrations
    OBVIOUS
  <1>2. t = Taken(s, P)
    BY BusSame DEF Bus!Once
  <1>3. P \in SUBSET (1..Len(s))
    BY <1>1
  <1>4. \A i \in 1..Len(s) : \E m \in P : m <= i /\ s[m].handler = s[i].handler
    <2> SUFFICES ASSUME NEW i \in 1..Len(s)
                 PROVE  \E m \in P : m <= i /\ s[m].handler = s[i].handler
      OBVIOUS
    <2> DEFINE T == {j \in 1..Len(s) : s[j].handler = s[i].handler}
    <2>0. T \subseteq Nat /\ i \in T
      BY <1>1
    <2>1. PICK m \in T : \A j \in T : m <= j
      <3> HIDE DEF T
      <3> QED BY <2>0, LeastOf
    <2>2. \A j \in 1..m - 1 : j \in 1..Len(s) /\ ~(m <= j)
      BY <1>1
    <2>3. m \in P
      BY <1>1, <2>1, <2>2
    <2>4. m <= i /\ s[m].handler = s[i].handler
      BY <2>0, <2>1
    <2> QED BY <2>3, <2>4
  <1>5. \A i, j \in P : i < j => s[i].handler # s[j].handler
    BY <1>1
  <1> HIDE DEF P
  <1>6. /\ t \in Seq(Registrations) /\ Len(t) \in Nat
        /\ \A k \in 1..Len(t) : at[k] \in P /\ t[k] = s[at[k]]
        /\ \A i \in P : \E k \in 1..Len(t) : t[k] = s[i]
        /\ \A j, k \in 1..Len(t) : j < k => at[j] < at[k]
    <2> DEFINE w == Taken(s, P)
    <2>1. /\ w \in Seq(Registrations) /\ Len(w) \in Nat
          /\ \A k \in 1..Len(w) : at[k] \in P /\ w[k] = s[at[k]]
          /\ \A i \in P : \E k \in 1..Len(w) : at[k] = i /\ w[k] = s[i]
          /\ \A j, k \in 1..Len(w) : j < k => at[j] < at[k]
      BY <1>3, Taking
    <2> HIDE DEF w
    <2>2. t = w
      BY <1>2 DEF w
    <2> HIDE DEF t, at
    <2> QED BY <2>1, <2>2
  <1> HIDE DEF t, at
  <1>7. \A j, k \in 1..Len(t) : j < k => t[j].handler # t[k].handler /\ t[j].priority <= t[k].priority
    <2> SUFFICES ASSUME NEW j \in 1..Len(t), NEW k \in 1..Len(t), j < k
                 PROVE  t[j].handler # t[k].handler /\ t[j].priority <= t[k].priority
      OBVIOUS
    <2>1. at[j] \in P /\ at[k] \in P /\ at[j] < at[k] /\ t[j] = s[at[j]] /\ t[k] = s[at[k]]
      BY <1>6
    <2>2. at[j] \in 1..Len(s) /\ at[k] \in 1..Len(s)
      BY <1>3, <2>1
    <2>3. s[at[j]].handler # s[at[k]].handler
      BY <1>5, <2>1
    <2>4. s[at[j]].priority <= s[at[k]].priority
      BY <2>1, <2>2
    <2> QED BY <2>1, <2>3, <2>4
  <1>8. \A i \in 1..Len(s) : \E k \in 1..Len(t) :
           t[k].handler = s[i].handler /\ t[k].priority <= s[i].priority
    <2> SUFFICES ASSUME NEW i \in 1..Len(s)
                 PROVE  \E k \in 1..Len(t) : t[k].handler = s[i].handler /\ t[k].priority <= s[i].priority
      OBVIOUS
    <2>1. PICK m \in P : m <= i /\ s[m].handler = s[i].handler
      BY <1>4
    <2>2. m \in 1..Len(s) /\ s[m].priority \in Int
      BY <1>1, <1>3 DEF BusParameters
    <2>3. s[m].priority <= s[i].priority
      <3>1. CASE m = i
        BY <2>2, <3>1
      <3>2. CASE m # i
        BY <2>1, <2>2, <3>2, <1>1
      <3> QED BY <3>1, <3>2
    <2> QED BY <1>6, <2>1, <2>3
  <1> QED BY <1>3, <1>6, <1>7, <1>8 DEF t

\* Who is called as an observer has no registration as an interceptor that ranks above, and
\* the other way round.
BusSettled(due, obs) ==
    /\ obs \subseteq Bus!HandlersOf(due)
    /\ \A l \in due : l.mode = "interceptor" /\ l.handler \in obs =>
          \E m \in due : m.handler = l.handler /\ m.mode = "observer" /\ m.priority <= l.priority
    /\ \A l \in due : l.mode = "observer" /\ l.handler \notin obs =>
          \E m \in due : m.handler = l.handler /\ m.mode = "interceptor" /\ m.priority <= l.priority

\* Who is yet to be called, each once and by rank.
BusAhead(due, todo) ==
    \A j, k \in 1..Len(todo) : j < k =>
        todo[j].handler # todo[k].handler /\ Bus!Outranks(due, todo[j].handler, todo[k].handler)

\* What emit() chooses among what it found.
LEMMA BusChosen ==
    ASSUME BusParameters, NEW f \in Seq(Registrations)
    PROVE  LET ls == Bus!Once(Bus!Sorted(f))
               todo == Bus!Taken(ls, {i \in DOMAIN ls : ls[i].mode = "interceptor"})
               obs == Bus!HandlersOf(Bus!InMode(Bus!Entries(ls), "observer"))
               due == Bus!Entries(f)
           IN  /\ due \subseteq Registrations /\ todo \in Seq(Registrations)
               /\ BusSettled(due, obs) /\ BusAhead(due, todo)
               /\ \A k \in 1..Len(todo) : todo[k].handler \in Bus!HandlersOf(due) \ obs
               /\ \A h \in Bus!HandlersOf(due) \ obs : \E k \in 1..Len(todo) : todo[k].handler = h
  <1> DEFINE s == Bus!Sorted(f)
             ls == Bus!Once(s)
             P == {i \in DOMAIN ls : ls[i].mode = "interceptor"}
             todo == Bus!Taken(ls, P)
             at == Places(P)
             obs == Bus!HandlersOf(Bus!InMode(Bus!Entries(ls), "observer"))
             due == Bus!Entries(f)
  <1>1. /\ s \in Seq(Registrations)
        /\ \A k \in 1..Len(s) : \E i \in 1..Len(f) : s[k] = f[i]
        /\ \A i \in 1..Len(f) : \E k \in 1..Len(s) : s[k] = f[i]
        /\ \A j, k \in 1..Len(s) : j < k => s[j].priority <= s[k].priority
    BY BusSorted
  <1> HIDE DEF s
  <1>2. /\ ls \in Seq(Registrations) /\ Len(ls) \in Nat
        /\ \A k \in 1..Len(ls) : \E i \in 1..Len(s) : ls[k] = s[i]
        /\ \A j, k \in 1..Len(ls) : j < k => ls[j].handler # ls[k].handler
                                              /\ ls[j].priority <= ls[k].priority
        /\ \A i \in 1..Len(s) : \E k \in 1..Len(ls) :
              ls[k].handler = s[i].handler /\ ls[k].priority <= s[i].priority
    BY <1>1, BusOnce
  <1> HIDE DEF ls
  <1>3. due = {f[i] : i \in 1..Len(f)} /\ due \subseteq Registrations
    BY DEF Bus!Entries
  <1>4. DOMAIN ls = 1..Len(ls) /\ P \in SUBSET (1..Len(ls))
    BY <1>2
  <1>5. \A k \in 1..Len(ls) : ls[k] \in due
    <2> SUFFICES ASSUME NEW k \in 1..Len(ls) PROVE ls[k] \in due
      OBVIOUS
    <2>1. PICK i \in 1..Len(s) : ls[k] = s[i]
      BY <1>2
    <2>2. PICK n \in 1..Len(f) : s[i] = f[n]
      BY <1>1
    <2> QED BY <1>3, <2>1, <2>2
  <1>6. \A l \in due : \E k \in 1..Len(ls) : ls[k].handler = l.handler /\ ls[k].priority <= l.priority
    <2> SUFFICES ASSUME NEW l \in due
                 PROVE  \E k \in 1..Len(ls) : ls[k].handler = l.handler /\ ls[k].priority <= l.priority
      OBVIOUS
    <2>1. PICK i \in 1..Len(f) : l = f[i]
      BY <1>3
    <2>2. PICK k \in 1..Len(s) : s[k] = l
      BY <1>1, <2>1
    <2> QED BY <1>2, <2>2
  <1>7. \A j, k \in 1..Len(ls) : ls[j].handler = ls[k].handler => j = k
    BY <1>2
  <1>8. obs = {ls[k].handler : k \in {i \in 1..Len(ls) : ls[i].mode = "observer"}}
    BY <1>4 DEF Bus!HandlersOf, Bus!InMode, Bus!Entries
  <1>9. Bus!HandlersOf(due) = {ls[k].handler : k \in 1..Len(ls)}
    BY <1>5, <1>6 DEF Bus!HandlersOf
  <1>10. /\ todo \in Seq(Registrations) /\ Len(todo) \in Nat
         /\ \A k \in 1..Len(todo) : at[k] \in P /\ todo[k] = ls[at[k]]
         /\ \A i \in P : \E k \in 1..Len(todo) : at[k] = i /\ todo[k] = ls[i]
         /\ \A j, k \in 1..Len(todo) : j < k => at[j] < at[k]
    <2>1. todo = Taken(ls, P)
      BY BusSame
    <2> HIDE DEF P, todo, at
    <2>2. at = Places(P)
      BY DEF at
    <2>3. /\ Taken(ls, P) \in Seq(Registrations) /\ Len(Taken(ls, P)) \in Nat
          /\ \A k \in 1..Len(Taken(ls, P)) : Places(P)[k] \in P /\ Taken(ls, P)[k] = ls[Places(P)[k]]
          /\ \A i \in P : \E k \in 1..Len(Taken(ls, P)) : Places(P)[k] = i /\ Taken(ls, P)[k] = ls[i]
          /\ \A j, k \in 1..Len(Taken(ls, P)) : j < k => Places(P)[j] < Places(P)[k]
      BY <1>2, <1>4, Taking
    <2> QED BY <2>1, <2>2, <2>3
  <1>11. \A k \in 1..Len(ls) : ls[k].mode \in {"interceptor", "observer"} /\ ls[k].priority \in Int
    BY <1>2 DEF BusParameters, Bus!Modes
  <1>12. P = {i \in 1..Len(ls) : ls[i].mode = "interceptor"}
    BY <1>4
  <1>13. \A l \in due : l.priority \in Int /\ l.mode \in {"interceptor", "observer"}
    BY <1>3 DEF BusParameters, Bus!Modes
  <1> HIDE DEF P, at, todo, due, obs
  <1>14. \A k \in 1..Len(todo) : at[k] \in 1..Len(ls) /\ ls[at[k]].mode = "interceptor" /\ todo[k] = ls[at[k]]
    BY <1>10, <1>12
  <1>15. \A k \in 1..Len(todo) : todo[k].handler \in Bus!HandlersOf(due) \ obs
    <2> SUFFICES ASSUME NEW k \in 1..Len(todo) PROVE todo[k].handler \in Bus!HandlersOf(due) \ obs
      OBVIOUS
    <2>1. at[k] \in 1..Len(ls) /\ ls[at[k]].mode = "interceptor" /\ todo[k] = ls[at[k]]
      BY <1>14
    <2>2. \A j \in 1..Len(ls) : ls[j].mode = "observer" => ls[j].handler # ls[at[k]].handler
      BY <1>7, <2>1
    <2> QED BY <1>8, <1>9, <2>1, <2>2
  <1>16. \A h \in Bus!HandlersOf(due) \ obs : \E k \in 1..Len(todo) : todo[k].handler = h
    <2> SUFFICES ASSUME NEW h \in Bus!HandlersOf(due) \ obs PROVE \E k \in 1..Len(todo) : todo[k].handler = h
      OBVIOUS
    <2>1. PICK i \in 1..Len(ls) : ls[i].handler = h
      BY <1>9
    <2>2. ls[i].mode = "interceptor"
      BY <1>8, <1>11, <2>1
    <2> QED BY <1>10, <1>12, <2>1, <2>2
  <1>17. BusAhead(due, todo)
    <2> SUFFICES ASSUME NEW j \in 1..Len(todo), NEW k \in 1..Len(todo), j < k
                 PROVE  /\ todo[j].handler # todo[k].handler
                        /\ \A l \in due : l.handler = todo[k].handler =>
                              \E m \in due : m.handler = todo[j].handler /\ m.priority <= l.priority
      BY DEF BusAhead, Bus!Outranks
    <2>1. /\ at[j] \in 1..Len(ls) /\ at[k] \in 1..Len(ls) /\ at[j] < at[k]
          /\ todo[j] = ls[at[j]] /\ todo[k] = ls[at[k]]
      BY <1>10, <1>14
    <2>2. ls[at[j]].handler # ls[at[k]].handler /\ ls[at[j]].priority <= ls[at[k]].priority
      <3> DEFINE a == at[j]
                 b == at[k]
      <3>1. a \in 1..Len(ls) /\ b \in 1..Len(ls) /\ a < b
        BY <2>1
      <3> HIDE DEF a, b
      <3>2. ls[a].handler # ls[b].handler /\ ls[a].priority <= ls[b].priority
        BY <1>2, <3>1
      <3> QED BY <3>2 DEF a, b
    <2>3. ASSUME NEW l \in due, l.handler = todo[k].handler
          PROVE  \E m \in due : m.handler = todo[j].handler /\ m.priority <= l.priority
      <3>1. PICK i \in 1..Len(ls) : ls[i].handler = l.handler /\ ls[i].priority <= l.priority
        BY <1>6, <2>3
      <3>2. i = at[k]
        BY <1>7, <2>1, <2>3, <3>1
      <3>3. ls[at[j]].priority \in Int /\ ls[at[k]].priority \in Int /\ l.priority \in Int
        BY <1>11, <1>13, <2>1
      <3>4. ls[at[j]].priority <= l.priority
        BY <2>2, <3>1, <3>2, <3>3
      <3> QED BY <1>5, <2>1, <3>4
    <2> QED BY <2>1, <2>2, <2>3
  <1>18. BusSettled(due, obs)
    <2>1. obs \subseteq Bus!HandlersOf(due)
      BY <1>8, <1>9
    <2>2. ASSUME NEW l \in due, l.mode = "interceptor", l.handler \in obs
          PROVE  \E m \in due : m.handler = l.handler /\ m.mode = "observer" /\ m.priority <= l.priority
      <3>1. PICK i \in 1..Len(ls) : ls[i].handler = l.handler /\ ls[i].mode = "observer"
        BY <1>8, <2>2
      <3>2. PICK k \in 1..Len(ls) : ls[k].handler = l.handler /\ ls[k].priority <= l.priority
        BY <1>6
      <3>3. i = k
        BY <1>7, <3>1, <3>2
      <3> QED BY <1>5, <3>1, <3>2, <3>3
    <2>3. ASSUME NEW l \in due, l.mode = "observer", l.handler \notin obs
          PROVE  \E m \in due : m.handler = l.handler /\ m.mode = "interceptor" /\ m.priority <= l.priority
      <3>1. PICK k \in 1..Len(ls) : ls[k].handler = l.handler /\ ls[k].priority <= l.priority
        BY <1>6
      <3>2. ls[k].mode = "interceptor"
        BY <1>8, <1>11, <2>3, <3>1
      <3> QED BY <1>5, <3>1, <3>2
    <2> QED BY <2>1, <2>2, <2>3 DEF BusSettled
  <1> QED BY <1>3, <1>10, <1>15, <1>16, <1>17, <1>18 DEF due, todo, obs, P, ls, s

BusEmissionType ==
    [at : {"new", "intercepting", "done"}, todo : Seq(Registrations),
     observers : SUBSET Bus!HandlersOf(Registrations), due : SUBSET Registrations]

BusTypes ==
    /\ listeners \in [Bus!Keys -> Seq(Registrations)]
    /\ \A k \in Bus!Keys : Bus!Entries(listeners[k]) \subseteq {r \in Registrations : <<r.type, r.phase>> = k}
    /\ emission \in [Emits -> BusEmissionType]
    /\ calls \in Seq(Emits \X Bus!HandlersOf(Registrations))
    /\ tasks \subseteq Emits \X Bus!HandlersOf(Registrations)
    /\ waiting \subseteq Emits \X Bus!HandlersOf(Registrations)
    /\ dropped \subseteq Emits \X Bus!HandlersOf(Registrations)

BusCalled(e, h) == \E i \in 1..Len(calls) : calls[i][1] = e /\ calls[i][2] = h

\* Nothing is there of an emission's observers.
BusNoTask(e) == \A h : <<e, h>> \notin tasks /\ <<e, h>> \notin dropped

\* Handlers of one emission are called once, interceptors by rank and before observers.
BusOrder(e, due, obs) ==
    \A i, j \in 1..Len(calls) : i < j /\ calls[i][1] = e /\ calls[j][1] = e =>
        /\ calls[i][2] # calls[j][2]
        /\ calls[j][2] \notin obs => calls[i][2] \notin obs /\ Bus!Outranks(due, calls[i][2], calls[j][2])

\* Between the interceptors: those called and those to be called are all there are.
BusBetween(e, due, obs, todo) ==
    /\ todo # <<>> /\ BusAhead(due, todo) /\ BusNoTask(e)
    /\ \A k \in 1..Len(todo) : todo[k].handler \in Bus!HandlersOf(due) \ obs
    /\ \A h \in Bus!HandlersOf(due) \ obs : BusCalled(e, h) \/ \E k \in 1..Len(todo) : todo[k].handler = h
    /\ \A i \in 1..Len(calls) : calls[i][1] = e =>
          /\ calls[i][2] \notin obs
          /\ \A k \in 1..Len(todo) : /\ calls[i][2] # todo[k].handler
                                     /\ Bus!Outranks(due, calls[i][2], todo[k].handler)

BusDone(e, due, obs) ==
    /\ \A h \in Bus!HandlersOf(due) \ obs : BusCalled(e, h)
    /\ \A h \in obs : BusCalled(e, h) \/ <<e, h>> \in tasks \union dropped
    /\ \A h : <<e, h>> \in tasks => h \in obs /\ ~BusCalled(e, h)

BusOf(e) ==
    LET em == emission[e]
    IN  /\ em.at = "new" => BusNoTask(e) /\ \A i \in 1..Len(calls) : calls[i][1] # e
        /\ em.at # "new" => BusSettled(em.due, em.observers) /\ BusOrder(e, em.due, em.observers)
        /\ em.at = "intercepting" => BusBetween(e, em.due, em.observers, em.todo)
        /\ em.at = "done" => BusDone(e, em.due, em.observers)

BusInv == BusTypes /\ \A e \in Emits : BusOf(e)

\* In which mode a handler takes part tells whether it is an observer.
LEMMA BusModes ==
    ASSUME BusParameters, NEW due \in SUBSET Registrations, NEW obs, BusSettled(due, obs)
    PROVE  /\ Bus!Acts(due, "interceptor") \subseteq Bus!HandlersOf(due) \ obs
           /\ Bus!Acts(due, "observer") \subseteq obs
  <1>1. \A l \in due : l.mode \in {"interceptor", "observer"} /\ l.priority \in Int
    BY DEF BusParameters, Bus!Modes
  <1>2. ASSUME NEW h \in Bus!Acts(due, "interceptor") PROVE h \in Bus!HandlersOf(due) \ obs
    <2>1. PICK l \in due : /\ l.mode = "interceptor" /\ l.handler = h
                           /\ \A m \in due : m.mode # "interceptor" /\ m.handler = h => l.priority < m.priority
      BY <1>2 DEF Bus!Acts, Bus!InMode
    <2>2. h \in Bus!HandlersOf(due)
      BY <2>1 DEF Bus!HandlersOf
    <2>3. CASE h \in obs
      <3>1. PICK m \in due : m.handler = h /\ m.mode = "observer" /\ m.priority <= l.priority
        BY <2>1, <2>3 DEF BusSettled
      <3>2. l.priority < m.priority
        BY <2>1, <3>1
      <3> QED BY <1>1, <3>1, <3>2
    <2> QED BY <2>2, <2>3
  <1>3. ASSUME NEW h \in Bus!Acts(due, "observer") PROVE h \in obs
    <2>1. PICK l \in due : /\ l.mode = "observer" /\ l.handler = h
                           /\ \A m \in due : m.mode # "observer" /\ m.handler = h => l.priority < m.priority
      BY <1>3 DEF Bus!Acts, Bus!InMode
    <2>2. CASE h \notin obs
      <3>1. PICK m \in due : m.handler = h /\ m.mode = "interceptor" /\ m.priority <= l.priority
        BY <2>1, <2>2 DEF BusSettled
      <3>2. l.priority < m.priority
        BY <2>1, <3>1
      <3> QED BY <1>1, <3>1, <3>2
    <2> QED BY <2>2
  <1> QED BY <1>2, <1>3

LEMMA BusHolds == ASSUME BusParameters, BusInv PROVE Bus!TypeOK /\ Bus!GatesFirst
  <1>1. Bus!TypeOK
    <2>1. DOMAIN listeners = Bus!Keys
      BY DEF BusInv, BusTypes
    <2>2. ASSUME NEW e \in Emits
          PROVE  /\ emission[e].at \in {"new", "intercepting", "done"}
                 /\ Bus!Entries(emission[e].todo) \union emission[e].due \subseteq Registrations
      <3>1. emission[e] \in BusEmissionType
        BY DEF BusInv, BusTypes
      <3>2. /\ emission[e].at \in {"new", "intercepting", "done"} /\ emission[e].todo \in Seq(Registrations)
            /\ emission[e].due \subseteq Registrations
        BY <3>1 DEF BusEmissionType
      <3> QED BY <3>2 DEF Bus!Entries
    <2>3. tasks \union waiting \union dropped \union Bus!Entries(calls) \subseteq Emits \X Bus!HandlersOf(Registrations)
      <3>1. calls \in Seq(Emits \X Bus!HandlersOf(Registrations))
        BY DEF BusInv, BusTypes
      <3>2. Bus!Entries(calls) \subseteq Emits \X Bus!HandlersOf(Registrations)
        BY <3>1 DEF Bus!Entries
      <3> QED BY <3>2 DEF BusInv, BusTypes
    <2> QED BY <2>1, <2>2, <2>3 DEF Bus!TypeOK, BusInv, BusTypes
  <1>2. ASSUME NEW e \in Emits
        PROVE  LET due == emission[e].due
                   gates == Bus!Acts(due, "interceptor")
                   watchers == Bus!Acts(due, "observer")
                   called == {i \in DOMAIN calls : calls[i][1] = e}
                   over == {calls[i][2] : i \in called}
               IN  /\ \A i, j \in called : i < j =>
                        /\ calls[i][2] # calls[j][2]
                        /\ calls[j][2] \in gates => calls[i][2] \notin watchers
                        /\ {calls[i][2], calls[j][2]} \subseteq gates =>
                              Bus!Outranks(due, calls[i][2], calls[j][2])
                   /\ emission[e].at = "done" =>
                        /\ gates \subseteq over
                        /\ \A h \in Bus!HandlersOf(due) \ gates : h \in over \/ <<e, h>> \in tasks \union dropped
    <2> DEFINE due == emission[e].due
               obs == emission[e].observers
               gates == Bus!Acts(due, "interceptor")
               watchers == Bus!Acts(due, "observer")
               called == {i \in DOMAIN calls : calls[i][1] = e}
               over == {calls[i][2] : i \in called}
    <2>1. /\ DOMAIN calls = 1..Len(calls) /\ Len(calls) \in Nat
          /\ emission[e].at \in {"new", "intercepting", "done"} /\ due \in SUBSET Registrations
      <3>1. calls \in Seq(Emits \X Bus!HandlersOf(Registrations)) /\ emission[e] \in BusEmissionType
        BY DEF BusInv, BusTypes
      <3> QED BY <3>1 DEF BusEmissionType
    <2>2. \A h : h \in over <=> BusCalled(e, h)
      BY <2>1 DEF BusCalled
    <2>3. CASE emission[e].at = "new"
      <3>1. \A i \in 1..Len(calls) : calls[i][1] # e
        BY <2>3 DEF BusInv, BusOf
      <3> QED BY <2>1, <2>3, <3>1
    <2>4. CASE emission[e].at # "new"
      <3>1. BusSettled(due, obs) /\ BusOrder(e, due, obs)
        BY <2>4 DEF BusInv, BusOf
      <3>2. gates \subseteq Bus!HandlersOf(due) \ obs /\ watchers \subseteq obs
        BY <2>1, <3>1, BusModes
      <3> HIDE DEF gates, watchers
      <3>3. \A i, j \in called : i < j =>
               /\ calls[i][2] # calls[j][2]
               /\ calls[j][2] \in gates => calls[i][2] \notin watchers
               /\ {calls[i][2], calls[j][2]} \subseteq gates => Bus!Outranks(due, calls[i][2], calls[j][2])
        BY <2>1, <3>1, <3>2 DEF BusOrder
      <3>4. ASSUME emission[e].at = "done"
            PROVE  /\ gates \subseteq over
                   /\ \A h \in Bus!HandlersOf(due) \ gates : h \in over \/ <<e, h>> \in tasks \union dropped
        <4>1. BusDone(e, due, obs)
          BY <3>4 DEF BusInv, BusOf
        <4> HIDE DEF over, due, obs
        <4> QED BY <2>2, <3>2, <4>1 DEF BusDone
      <3> QED BY <3>3, <3>4 DEF gates, watchers
    <2> QED BY <2>1, <2>3, <2>4
  <1> QED BY <1>1, <1>2 DEF Bus!GatesFirst

\* What happens elsewhere leaves an emission as it is.
LEMMA BusElsewhere ==
    ASSUME BusTypes, NEW e \in Emits, BusOf(e), emission'[e] = emission[e],
           \/ calls' = calls
           \/ \E c \in Emits \X Bus!HandlersOf(Registrations) : c[1] # e /\ calls' = Append(calls, c),
           \A h : <<e, h>> \in tasks' => <<e, h>> \in tasks,
           \A h : <<e, h>> \in tasks' \union dropped' <=> <<e, h>> \in tasks \union dropped
    PROVE  BusOf(e)'
  <1>1. Len(calls) \in Nat /\ calls \in Seq(Emits \X Bus!HandlersOf(Registrations))
    BY DEF BusTypes
  <1>2. /\ \A i \in 1..Len(calls) : i \in 1..Len(calls') /\ calls'[i] = calls[i]
        /\ \A i \in 1..Len(calls') : calls'[i][1] = e => i \in 1..Len(calls) /\ calls'[i] = calls[i]
    <2>1. CASE calls' = calls
      BY <2>1
    <2>2. ASSUME NEW c \in Emits \X Bus!HandlersOf(Registrations), c[1] # e, calls' = Append(calls, c)
          PROVE  <1>2!1 /\ <1>2!2
      <3>1. /\ Len(calls') = Len(calls) + 1 /\ calls'[Len(calls) + 1] = c
            /\ \A i \in 1..Len(calls) : calls'[i] = calls[i]
        BY <1>1, <2>2
      <3> QED BY <1>1, <2>2, <3>1
    <2> QED BY <2>1, <2>2
  <1>3. \A h : BusCalled(e, h)' <=> BusCalled(e, h)
    BY <1>2 DEF BusCalled
  <1>4. BusNoTask(e) => BusNoTask(e)'
    BY DEF BusNoTask
  <1> DEFINE due == emission[e].due
             obs == emission[e].observers
             todo == emission[e].todo
  <1>5. emission'[e].due = due /\ emission'[e].observers = obs /\ emission'[e].todo = todo
        /\ emission'[e].at = emission[e].at
    OBVIOUS
  <1> HIDE DEF due, obs, todo
  <1>6. BusOrder(e, due, obs) => BusOrder(e, due, obs)'
    <2> SUFFICES ASSUME BusOrder(e, due, obs), NEW i \in 1..Len(calls'), NEW j \in 1..Len(calls'),
                        i < j, calls'[i][1] = e, calls'[j][1] = e
                 PROVE  /\ calls'[i][2] # calls'[j][2]
                        /\ calls'[j][2] \notin obs => calls'[i][2] \notin obs /\ Bus!Outranks(due, calls'[i][2], calls'[j][2])
      BY <1>5 DEF BusOrder, due, obs, Bus!Outranks
    <2>1. i \in 1..Len(calls) /\ j \in 1..Len(calls) /\ calls'[i] = calls[i] /\ calls'[j] = calls[j]
      BY <1>2
    <2> QED BY <2>1 DEF BusOrder
  <1>7. BusBetween(e, due, obs, todo) => BusBetween(e, due, obs, todo)'
    BY <1>2, <1>3, <1>4, <1>5 DEF BusBetween, due, obs, todo
  <1>8. BusDone(e, due, obs) => BusDone(e, due, obs)'
    BY <1>3, <1>5 DEF BusDone, due, obs
  <1> QED BY <1>2, <1>4, <1>5, <1>6, <1>7, <1>8 DEF BusOf, due, obs, todo

\* A handler was called, or is called by the step that appends it.
LEMMA BusCalls ==
    ASSUME BusTypes, NEW e \in Emits, NEW g \in Bus!HandlersOf(Registrations),
           calls' = Append(calls, <<e, g>>)
    PROVE  /\ Len(calls) \in Nat /\ Len(calls') = Len(calls) + 1 /\ calls'[Len(calls) + 1] = <<e, g>>
           /\ \A i \in 1..Len(calls) : calls'[i] = calls[i]
           /\ \A i \in 1..Len(calls') : i \in 1..Len(calls) \/ i = Len(calls) + 1
           /\ \A h : BusCalled(e, h)' <=> BusCalled(e, h) \/ h = g
           /\ calls' \in Seq(Emits \X Bus!HandlersOf(Registrations))
  <1>1. calls \in Seq(Emits \X Bus!HandlersOf(Registrations)) /\ <<e, g>> \in Emits \X Bus!HandlersOf(Registrations)
    BY DEF BusTypes
  <1>2. /\ Len(calls) \in Nat /\ Len(calls') = Len(calls) + 1 /\ calls'[Len(calls) + 1] = <<e, g>>
        /\ \A i \in 1..Len(calls) : calls'[i] = calls[i]
        /\ calls' \in Seq(Emits \X Bus!HandlersOf(Registrations))
    BY <1>1
  <1>3. \A i \in 1..Len(calls') : i \in 1..Len(calls) \/ i = Len(calls) + 1
    BY <1>2
  <1>4. \A h : BusCalled(e, h)' <=> BusCalled(e, h) \/ h = g
    <2>1. ASSUME NEW h, BusCalled(e, h)' PROVE BusCalled(e, h) \/ h = g
      <3>1. PICK i \in 1..Len(calls') : calls'[i][1] = e /\ calls'[i][2] = h
        BY <2>1 DEF BusCalled
      <3> QED BY <1>2, <1>3, <3>1 DEF BusCalled
    <2>2. ASSUME NEW h, BusCalled(e, h) \/ h = g PROVE BusCalled(e, h)'
      <3>1. CASE BusCalled(e, h)
        <4>1. PICK i \in 1..Len(calls) : calls[i][1] = e /\ calls[i][2] = h
          BY <3>1 DEF BusCalled
        <4>2. i \in 1..Len(calls') /\ calls'[i] = calls[i]
          BY <1>2
        <4> QED BY <4>1, <4>2 DEF BusCalled
      <3>2. CASE h = g
        <4>1. Len(calls) + 1 \in 1..Len(calls')
          BY <1>2
        <4> QED BY <1>2, <3>2, <4>1 DEF BusCalled
      <3> QED BY <2>2, <3>1, <3>2
    <2> QED BY <2>1, <2>2
  <1> QED BY <1>2, <1>3, <1>4

\* The order of the calls, after one more.
LEMMA BusOneMore ==
    ASSUME BusTypes, NEW e \in Emits, NEW g \in Bus!HandlersOf(Registrations),
           calls' = Append(calls, <<e, g>>), NEW due, NEW obs,
           BusOrder(e, due, obs), ~BusCalled(e, g),
           g \notin obs => \A i \in 1..Len(calls) : calls[i][1] = e =>
               calls[i][2] \notin obs /\ Bus!Outranks(due, calls[i][2], g)
    PROVE  \A i, j \in 1..Len(calls') : i < j /\ calls'[i][1] = e /\ calls'[j][1] = e =>
              /\ calls'[i][2] # calls'[j][2]
              /\ calls'[j][2] \notin obs => calls'[i][2] \notin obs /\ Bus!Outranks(due, calls'[i][2], calls'[j][2])
  <1> SUFFICES ASSUME NEW i \in 1..Len(calls'), NEW j \in 1..Len(calls'), i < j,
                      calls'[i][1] = e, calls'[j][1] = e
               PROVE  /\ calls'[i][2] # calls'[j][2]
                      /\ calls'[j][2] \notin obs => calls'[i][2] \notin obs /\ Bus!Outranks(due, calls'[i][2], calls'[j][2])
    OBVIOUS
  <1>1. /\ Len(calls) \in Nat /\ Len(calls') = Len(calls) + 1 /\ calls'[Len(calls) + 1] = <<e, g>>
        /\ \A n \in 1..Len(calls) : calls'[n] = calls[n]
    BY BusCalls
  <1>2. i \in 1..Len(calls) /\ calls'[i] = calls[i]
    BY <1>1
  <1>3. CASE j \in 1..Len(calls)
    <2>1. calls'[j] = calls[j]
      BY <1>1, <1>3
    <2> QED BY <1>2, <1>3, <2>1 DEF BusOrder
  <1>4. CASE j = Len(calls) + 1
    <2>1. calls'[j][2] = g
      BY <1>1, <1>4
    <2>2. calls[i][2] # g
      BY <1>2 DEF BusCalled
    <2> QED BY <1>2, <2>1, <2>2
  <1> QED BY <1>1, <1>3, <1>4, SMTT(40)

\* Types of what emit() goes on with.
LEMMA BusGoesType ==
    ASSUME BusParameters, BusTypes, NEW e \in Emits, NEW em \in BusEmissionType, Bus!Goes(e, em),
           em.observers \subseteq Bus!HandlersOf(Registrations)
    PROVE  /\ emission' \in [Emits -> BusEmissionType]
           /\ tasks' \subseteq Emits \X Bus!HandlersOf(Registrations)
           /\ \A d \in Emits : d # e => emission'[d] = emission[d]
           /\ emission'[e].due = em.due /\ emission'[e].observers = em.observers /\ emission'[e].todo = em.todo
           /\ \A d, h : d # e => (<<d, h>> \in tasks' <=> <<d, h>> \in tasks)
           /\ em.todo = <<>> => /\ emission'[e].at = "done"
                                /\ \A h : <<e, h>> \in tasks' <=> <<e, h>> \in tasks \/ h \in em.observers
           /\ em.todo # <<>> => emission'[e].at = "intercepting" /\ tasks' = tasks
  <1>1. emission \in [Emits -> BusEmissionType] /\ tasks \subseteq Emits \X Bus!HandlersOf(Registrations)
    BY DEF BusTypes
  <1>2. CASE em.todo = <<>>
    <2>1. /\ emission' = [emission EXCEPT ![e] = [em EXCEPT !.at = "done"]]
          /\ tasks' = tasks \union {<<e, h>> : h \in em.observers}
      BY <1>2 DEF Bus!Goes, Bus!Spawned
    <2>2. [em EXCEPT !.at = "done"] \in BusEmissionType
      BY DEF BusEmissionType
    <2>3. emission'[e] = [em EXCEPT !.at = "done"]
      BY <1>1, <2>1
    <2>4. /\ emission'[e].at = "done" /\ emission'[e].due = em.due
          /\ emission'[e].observers = em.observers /\ emission'[e].todo = em.todo
      BY <2>3 DEF BusEmissionType
    <2> QED BY <1>1, <1>2, <2>1, <2>2, <2>4
  <1>3. CASE em.todo # <<>>
    <2>1. emission' = [emission EXCEPT ![e] = [em EXCEPT !.at = "intercepting"]] /\ tasks' = tasks
      BY <1>3 DEF Bus!Goes
    <2>2. [em EXCEPT !.at = "intercepting"] \in BusEmissionType
      BY DEF BusEmissionType
    <2>3. emission'[e] = [em EXCEPT !.at = "intercepting"]
      BY <1>1, <2>1
    <2>4. /\ emission'[e].at = "intercepting" /\ emission'[e].due = em.due
          /\ emission'[e].observers = em.observers /\ emission'[e].todo = em.todo
      BY <2>3 DEF BusEmissionType
    <2> QED BY <1>1, <1>3, <2>1, <2>2, <2>4
  <1> QED BY <1>2, <1>3

LEMMA BusStart == ASSUME BusParameters, Bus!Init PROVE BusInv
  <1> USE DEF Bus!Init
  <1>1. BusTypes
    <2>1. <<>> \in Seq(Registrations) /\ Bus!Entries(<<>>) = {}
      BY DEF Bus!Entries
    <2>2. Bus!NotEmitted \in BusEmissionType
      BY DEF Bus!NotEmitted, BusEmissionType
    <2> QED BY <2>1, <2>2 DEF BusTypes
  <1>2. ASSUME NEW e \in Emits PROVE BusOf(e)
    <2>1. emission[e].at = "new"
      BY DEF Bus!NotEmitted
    <2>2. BusNoTask(e) /\ \A i \in 1..Len(calls) : calls[i][1] # e
      BY DEF BusNoTask
    <2> QED BY <2>1, <2>2 DEF BusOf
  <1> QED BY <1>1, <1>2 DEF BusInv

LEMMA BusRegister ==
    ASSUME BusParameters, BusInv, NEW r \in Registrations, Bus!Register(r) PROVE BusInv'
  <1> DEFINE k == <<r.type, r.phase>>
             s == Append(listeners[k], r)
             t == Bus!Sorted(s)
  <1>1. /\ listeners' = [listeners EXCEPT ![k] = t] /\ k \in Bus!Keys
        /\ UNCHANGED <<emission, tasks, waiting, calls, dropped>>
    BY DEF Bus!Register, Bus!Keys, BusInv, BusTypes
  <1>2. /\ listeners \in [Bus!Keys -> Seq(Registrations)] /\ listeners[k] \in Seq(Registrations)
        /\ Bus!Entries(listeners[k]) \subseteq {m \in Registrations : <<m.type, m.phase>> = k}
    BY <1>1 DEF BusInv, BusTypes
  <1>3. s \in Seq(Registrations) /\ \A i \in 1..Len(s) : s[i] \in Bus!Entries(listeners[k]) \/ s[i] = r
    <2> DEFINE l == listeners[k]
    <2>1. l \in Seq(Registrations)
      BY <1>2
    <2> HIDE DEF l
    <2>2. /\ Append(l, r) \in Seq(Registrations) /\ Len(Append(l, r)) = Len(l) + 1 /\ Len(l) \in Nat
          /\ \A i \in 1..Len(l) : Append(l, r)[i] = l[i]
          /\ Append(l, r)[Len(l) + 1] = r
      BY <2>1, Added
    <2>3. \A i \in 1..Len(Append(l, r)) : i \in 1..Len(l) \/ i = Len(l) + 1
      BY <2>2
    <2>4. \A i \in 1..Len(l) : l[i] \in Bus!Entries(l)
      BY <2>1 DEF Bus!Entries
    <2> QED BY <2>2, <2>3, <2>4 DEF l
  <1> HIDE DEF s
  <1>4. t \in Seq(Registrations) /\ \A n \in 1..Len(t) : \E i \in 1..Len(s) : t[n] = s[i]
    BY <1>3, BusSorted
  <1> HIDE DEF t
  <1>5. Bus!Entries(t) \subseteq {m \in Registrations : <<m.type, m.phase>> = k}
    <2>1. DOMAIN t = 1..Len(t)
      BY <1>4
    <2> QED BY <1>2, <1>3, <1>4, <2>1 DEF Bus!Entries
  <1> HIDE DEF k
  <1>6. BusTypes'
    <2>1. listeners' \in [Bus!Keys -> Seq(Registrations)]
      BY <1>1, <1>2, <1>4
    <2>2. \A j \in Bus!Keys : Bus!Entries(listeners'[j]) \subseteq {m \in Registrations : <<m.type, m.phase>> = j}
      BY <1>1, <1>2, <1>5 DEF BusInv, BusTypes
    <2> QED BY <1>1, <2>1, <2>2 DEF BusInv, BusTypes
  <1>7. \A e \in Emits : BusOf(e)'
    BY <1>1, BusElsewhere DEF BusInv
  <1> QED BY <1>6, <1>7 DEF BusInv

LEMMA BusClear == ASSUME BusParameters, BusInv, Bus!Clear PROVE BusInv'
  <1>1. listeners' = [k \in Bus!Keys |-> <<>>] /\ UNCHANGED <<emission, tasks, waiting, calls, dropped>>
    BY DEF Bus!Clear
  <1>2. <<>> \in Seq(Registrations) /\ Bus!Entries(<<>>) = {}
    BY DEF Bus!Entries
  <1>3. BusTypes'
    BY <1>1, <1>2 DEF BusInv, BusTypes
  <1>4. \A e \in Emits : BusOf(e)'
    BY <1>1, BusElsewhere DEF BusInv
  <1> QED BY <1>3, <1>4 DEF BusInv

\* An emission begins: whom it is for, and who is called first, is settled.
LEMMA BusEmit ==
    ASSUME BusParameters, BusInv, NEW e \in Emits, NEW event \in Events, Bus!Emit(e, event) PROVE BusInv'
  <1> DEFINE f == Bus!Found(event)
             ls == Bus!Once(Bus!Sorted(f))
             todo == Bus!Taken(ls, {i \in DOMAIN ls : ls[i].mode = "interceptor"})
             obs == Bus!HandlersOf(Bus!InMode(Bus!Entries(ls), "observer"))
             due == Bus!Entries(f)
             em == [at |-> "new", due |-> due, todo |-> todo, observers |-> obs]
  <1>1. /\ emission[e].at = "new" /\ Bus!Goes(e, em) /\ UNCHANGED <<listeners, waiting, calls, dropped>>
    BY DEF Bus!Emit
  <1>2. f \in Seq(Registrations)
    <2>1. /\ <<event.type, event.phase>> \in Bus!Keys /\ <<event.type, "*">> \in Bus!Keys
          /\ <<"*", event.phase>> \in Bus!Keys /\ <<"*", "*">> \in Bus!Keys
      BY DEF BusParameters, Bus!Keys
    <2>2. \A k \in Bus!Keys : listeners[k] \in Seq(Registrations)
      BY DEF BusInv, BusTypes
    <2> QED BY <2>1, <2>2 DEF Bus!Found
  <1> HIDE DEF f
  <1>3. /\ due \subseteq Registrations /\ todo \in Seq(Registrations)
        /\ BusSettled(due, obs) /\ BusAhead(due, todo)
        /\ \A k \in 1..Len(todo) : todo[k].handler \in Bus!HandlersOf(due) \ obs
        /\ \A h \in Bus!HandlersOf(due) \ obs : \E k \in 1..Len(todo) : todo[k].handler = h
    BY <1>2, BusChosen
  <1> HIDE DEF ls, todo, obs, due
  <1>4. obs \subseteq Bus!HandlersOf(Registrations)
    BY <1>3 DEF BusSettled, Bus!HandlersOf
  <1>5. em \in BusEmissionType /\ em.due = due /\ em.observers = obs /\ em.todo = todo
    BY <1>3, <1>4 DEF BusEmissionType
  <1> HIDE DEF em
  <1>6. /\ emission' \in [Emits -> BusEmissionType]
        /\ tasks' \subseteq Emits \X Bus!HandlersOf(Registrations)
        /\ \A d \in Emits : d # e => emission'[d] = emission[d]
        /\ emission'[e].due = due /\ emission'[e].observers = obs /\ emission'[e].todo = todo
        /\ \A d, h : d # e => (<<d, h>> \in tasks' <=> <<d, h>> \in tasks)
        /\ todo = <<>> => /\ emission'[e].at = "done"
                          /\ \A h : <<e, h>> \in tasks' <=> <<e, h>> \in tasks \/ h \in obs
        /\ todo # <<>> => emission'[e].at = "intercepting" /\ tasks' = tasks
    BY <1>1, <1>4, <1>5, BusGoesType DEF BusInv
  <1>7. BusTypes'
    BY <1>1, <1>6 DEF BusInv, BusTypes
  <1>8. ASSUME NEW d \in Emits, d # e PROVE BusOf(d)'
    <2>1. /\ BusTypes /\ BusOf(d) /\ emission'[d] = emission[d] /\ calls' = calls
          /\ \A h : <<d, h>> \in tasks' => <<d, h>> \in tasks
          /\ \A h : <<d, h>> \in tasks' \union dropped' <=> <<d, h>> \in tasks \union dropped
      BY <1>1, <1>6, <1>8 DEF BusInv
    <2> QED BY <2>1, BusElsewhere
  <1>9. BusOf(e)'
    <2>1. BusNoTask(e) /\ \A i \in 1..Len(calls) : calls[i][1] # e
      BY <1>1 DEF BusInv, BusOf
    <2>2. BusSettled(due, obs)
      BY <1>3
    <2>3. BusSettled(emission'[e].due, emission'[e].observers)
      BY <1>6, <2>2
    <2>4. BusOrder(e, emission[e].due, emission[e].observers)'
      BY <1>1, <2>1 DEF BusOrder
    <2>5. CASE todo = <<>>
      <3>1. Bus!HandlersOf(due) \ obs = {}
        BY <1>3, <2>5
      <3>2. \A h : ~BusCalled(e, h)'
        BY <1>1, <2>1 DEF BusCalled
      <3>3. \A h : <<e, h>> \in tasks' <=> h \in obs
        BY <1>6, <2>1, <2>5 DEF BusNoTask
      <3>4. BusDone(e, emission[e].due, emission[e].observers)'
        BY <1>6, <3>1, <3>2, <3>3 DEF BusDone
      <3> QED BY <1>6, <2>3, <2>4, <2>5, <3>4 DEF BusOf
    <2>6. CASE todo # <<>>
      <3>1. BusNoTask(e)'
        BY <1>1, <1>6, <2>1, <2>6 DEF BusNoTask
      <3>2. BusBetween(e, emission[e].due, emission[e].observers, emission[e].todo)'
        <4>1. \A i \in 1..Len(calls') : calls'[i][1] # e
          BY <1>1, <2>1
        <4>2. BusAhead(emission'[e].due, emission'[e].todo) /\ emission'[e].todo # <<>>
          BY <1>3, <1>6, <2>6
        <4> QED BY <1>3, <1>6, <3>1, <4>1, <4>2 DEF BusBetween, BusAhead, Bus!Outranks
      <3> QED BY <1>6, <2>3, <2>4, <2>6, <3>2 DEF BusOf
    <2> QED BY <2>5, <2>6
  <1> QED BY <1>7, <1>8, <1>9 DEF BusInv

\* An interceptor was called: the rest are still ahead, or the observers are started.
LEMMA BusIntercepted ==
    ASSUME BusParameters, BusInv, NEW e \in Emits, Bus!Intercepted(e) PROVE BusInv'
  <1> DEFINE todo == emission[e].todo
             obs == emission[e].observers
             due == emission[e].due
             rest == Tail(todo)
             g == todo[1].handler
             em == [emission[e] EXCEPT !.todo = Tail(@)]
  <1>1. /\ emission[e].at = "intercepting" /\ calls' = Append(calls, <<e, Head(todo).handler>>)
        /\ Bus!Goes(e, em) /\ UNCHANGED <<listeners, waiting, dropped>>
    BY DEF Bus!Intercepted
  <1>2. /\ emission[e] \in BusEmissionType /\ todo \in Seq(Registrations) /\ due \subseteq Registrations
        /\ obs \subseteq Bus!HandlersOf(Registrations)
    <2>1. emission[e] \in BusEmissionType
      BY DEF BusInv, BusTypes
    <2> QED BY <2>1 DEF BusEmissionType
  <1>3. BusSettled(due, obs) /\ BusOrder(e, due, obs) /\ BusBetween(e, due, obs, todo)
    BY <1>1 DEF BusInv, BusOf
  <1> HIDE DEF todo, obs, due
  <1>4. /\ rest \in Seq(Registrations) /\ Len(rest) = Len(todo) - 1 /\ Len(todo) \in Nat \ {0}
        /\ Head(todo) = todo[1] /\ todo[1] \in Registrations
        /\ \A i \in 1..Len(todo) - 1 : rest[i] = todo[i + 1]
    BY <1>2, <1>3, Rest DEF BusBetween
  <1>5. em \in BusEmissionType /\ em.due = due /\ em.observers = obs /\ em.todo = rest
    BY <1>2, <1>4 DEF BusEmissionType, todo, obs, due
  <1>6. calls' = Append(calls, <<e, g>>) /\ g \in Bus!HandlersOf(Registrations)
    BY <1>1, <1>4 DEF Bus!HandlersOf
  <1> HIDE DEF em, rest
  <1>7. 1 \in 1..Len(todo) /\ \A k \in 1..Len(rest) : k + 1 \in 1..Len(todo) /\ 1 < k + 1 /\ rest[k] = todo[k + 1]
    BY <1>4
  <1>8. /\ g \in Bus!HandlersOf(due) /\ g \notin obs
        /\ \A i \in 1..Len(calls) : calls[i][1] = e =>
              calls[i][2] \notin obs /\ calls[i][2] # g /\ Bus!Outranks(due, calls[i][2], g)
        /\ ~BusCalled(e, g) /\ \A h : BusCalled(e, h) => h \notin obs
    BY <1>3, <1>7 DEF BusBetween, BusCalled
  <1>9. /\ \A k \in 1..Len(rest) : /\ rest[k].handler # g /\ Bus!Outranks(due, g, rest[k].handler)
                                   /\ rest[k].handler \in Bus!HandlersOf(due) \ obs
        /\ BusAhead(due, rest)
    <2>1. \A k \in 1..Len(rest) : rest[k].handler # g /\ Bus!Outranks(due, g, rest[k].handler)
      BY <1>3, <1>7 DEF BusBetween, BusAhead
    <2>2. \A k \in 1..Len(rest) : rest[k].handler \in Bus!HandlersOf(due) \ obs
      BY <1>3, <1>7 DEF BusBetween
    <2>3. BusAhead(due, rest)
      <3> SUFFICES ASSUME NEW j \in 1..Len(rest), NEW k \in 1..Len(rest), j < k
                   PROVE  rest[j].handler # rest[k].handler /\ Bus!Outranks(due, rest[j].handler, rest[k].handler)
        BY DEF BusAhead
      <3>1. j + 1 \in 1..Len(todo) /\ k + 1 \in 1..Len(todo) /\ j + 1 < k + 1
        BY <1>7
      <3>2. rest[j] = todo[j + 1] /\ rest[k] = todo[k + 1]
        BY <1>7
      <3> QED BY <1>3, <3>1, <3>2 DEF BusBetween, BusAhead
    <2> QED BY <2>1, <2>2, <2>3
  <1>10. \A h \in Bus!HandlersOf(due) \ obs : BusCalled(e, h) \/ h = g \/ \E k \in 1..Len(rest) : rest[k].handler = h
    <2> SUFFICES ASSUME NEW h \in Bus!HandlersOf(due) \ obs, ~BusCalled(e, h), h # g
                 PROVE  \E k \in 1..Len(rest) : rest[k].handler = h
      OBVIOUS
    <2>1. PICK k \in 1..Len(todo) : todo[k].handler = h
      BY <1>3 DEF BusBetween
    <2>2. k # 1
      BY <2>1
    <2>3. k - 1 \in 1..Len(rest) /\ rest[k - 1] = todo[k]
      BY <1>4, <2>2 DEF rest
    <2> QED BY <2>1, <2>3
  <1> HIDE DEF g
  <1>11. BusTypes
    BY DEF BusInv
  <1>12. /\ Len(calls) \in Nat /\ Len(calls') = Len(calls) + 1 /\ calls'[Len(calls) + 1] = <<e, g>>
         /\ \A i \in 1..Len(calls) : calls'[i] = calls[i]
         /\ \A i \in 1..Len(calls') : i \in 1..Len(calls) \/ i = Len(calls) + 1
         /\ \A h : BusCalled(e, h)' <=> BusCalled(e, h) \/ h = g
         /\ calls' \in Seq(Emits \X Bus!HandlersOf(Registrations))
    BY <1>6, <1>11, BusCalls
  <1>13. /\ emission' \in [Emits -> BusEmissionType]
         /\ tasks' \subseteq Emits \X Bus!HandlersOf(Registrations)
         /\ \A d \in Emits : d # e => emission'[d] = emission[d]
         /\ emission'[e].due = due /\ emission'[e].observers = obs /\ emission'[e].todo = rest
         /\ \A d, h : d # e => (<<d, h>> \in tasks' <=> <<d, h>> \in tasks)
         /\ rest = <<>> => /\ emission'[e].at = "done"
                           /\ \A h : <<e, h>> \in tasks' <=> <<e, h>> \in tasks \/ h \in obs
         /\ rest # <<>> => emission'[e].at = "intercepting" /\ tasks' = tasks
    BY <1>1, <1>2, <1>5, <1>11, BusGoesType
  <1>14. BusTypes'
    BY <1>1, <1>12, <1>13 DEF BusInv, BusTypes
  <1>15. ASSUME NEW d \in Emits, d # e PROVE BusOf(d)'
    <2>1. /\ BusTypes /\ BusOf(d) /\ emission'[d] = emission[d]
          /\ <<e, g>> \in Emits \X Bus!HandlersOf(Registrations) /\ <<e, g>>[1] # d
          /\ \A h : <<d, h>> \in tasks' => <<d, h>> \in tasks
          /\ \A h : <<d, h>> \in tasks' \union dropped' <=> <<d, h>> \in tasks \union dropped
      BY <1>1, <1>6, <1>13, <1>15 DEF BusInv
    <2> QED BY <1>6, <2>1, BusElsewhere
  <1>16. BusOf(e)'
    <2>1. \A i, j \in 1..Len(calls') : i < j /\ calls'[i][1] = e /\ calls'[j][1] = e =>
              /\ calls'[i][2] # calls'[j][2]
              /\ calls'[j][2] \notin obs => calls'[i][2] \notin obs /\ Bus!Outranks(due, calls'[i][2], calls'[j][2])
      BY <1>3, <1>6, <1>8, <1>11, BusOneMore, SMTT(40)
    <2>2. BusSettled(emission'[e].due, emission'[e].observers) /\ BusOrder(e, emission[e].due, emission[e].observers)'
      BY <1>3, <1>13, <2>1 DEF BusOrder, Bus!Outranks
    <2>3. CASE rest = <<>>
      <3>1. \A h \in Bus!HandlersOf(due) \ obs : BusCalled(e, h)'
        BY <1>10, <1>12, <2>3
      <3>2. \A h : <<e, h>> \in tasks' <=> h \in obs
        BY <1>3, <1>13, <2>3 DEF BusBetween, BusNoTask
      <3>3. \A h \in obs : ~BusCalled(e, h)'
        BY <1>8, <1>12
      <3>4. BusDone(e, emission[e].due, emission[e].observers)'
        BY <1>13, <3>1, <3>2, <3>3 DEF BusDone
      <3> QED BY <1>13, <2>2, <2>3, <3>4 DEF BusOf
    <2>4. CASE rest # <<>>
      <3>1. BusNoTask(e)'
        BY <1>1, <1>3, <1>13, <2>4 DEF BusBetween, BusNoTask
      <3>2. \A i \in 1..Len(calls') : calls'[i][1] = e =>
               /\ calls'[i][2] \notin obs
               /\ \A k \in 1..Len(rest) : /\ calls'[i][2] # rest[k].handler
                                          /\ Bus!Outranks(due, calls'[i][2], rest[k].handler)
        <4> SUFFICES ASSUME NEW i \in 1..Len(calls'), calls'[i][1] = e
                     PROVE  /\ calls'[i][2] \notin obs
                            /\ \A k \in 1..Len(rest) : /\ calls'[i][2] # rest[k].handler
                                                       /\ Bus!Outranks(due, calls'[i][2], rest[k].handler)
          OBVIOUS
        <4>1. CASE i \in 1..Len(calls)
          <5>1. calls'[i] = calls[i]
            BY <1>12, <4>1
          <5> QED BY <1>3, <1>7, <4>1, <5>1 DEF BusBetween
        <4>2. CASE i = Len(calls) + 1
          BY <1>8, <1>9, <1>12, <4>2
        <4> QED BY <1>12, <4>1, <4>2
      <3>3. BusBetween(e, emission[e].due, emission[e].observers, emission[e].todo)'
        BY <1>9, <1>10, <1>12, <1>13, <2>4, <3>1, <3>2 DEF BusBetween, BusAhead, Bus!Outranks
      <3> QED BY <1>13, <2>2, <2>4, <3>3 DEF BusOf
    <2> QED BY <2>3, <2>4
  <1> QED BY <1>14, <1>15, <1>16 DEF BusInv

\* An observer ran: only an emission that is through has any.
LEMMA BusObserved ==
    ASSUME BusParameters, BusInv, NEW t \in tasks, Bus!Observed(t) PROVE BusInv'
  <1>1. /\ tasks' = tasks \ {t} /\ calls' = Append(calls, t)
        /\ UNCHANGED <<listeners, emission, waiting, dropped>>
    BY DEF Bus!Observed
  <1>2. t \in Emits \X Bus!HandlersOf(Registrations) /\ BusTypes
    BY DEF BusInv, BusTypes
  <1>3. PICK e \in Emits, g \in Bus!HandlersOf(Registrations) : t = <<e, g>>
    BY <1>2
  <1>4. calls' = Append(calls, <<e, g>>)
    BY <1>1, <1>3
  <1>5. /\ \A h : BusCalled(e, h)' <=> BusCalled(e, h) \/ h = g
        /\ calls' \in Seq(Emits \X Bus!HandlersOf(Registrations))
    BY <1>2, <1>4, BusCalls
  <1>6. BusTypes'
    BY <1>1, <1>2, <1>5 DEF BusTypes
  <1>7. ASSUME NEW d \in Emits, d # e PROVE BusOf(d)'
    <2>1. /\ BusOf(d) /\ emission'[d] = emission[d] /\ t[1] # d
          /\ \A h : <<d, h>> \in tasks' => <<d, h>> \in tasks
          /\ \A h : <<d, h>> \in tasks' \union dropped' <=> <<d, h>> \in tasks \union dropped
      BY <1>1, <1>3, <1>7 DEF BusInv
    <2> QED BY <1>1, <1>2, <2>1, BusElsewhere
  <1>8. BusOf(e)'
    <2> DEFINE obs == emission[e].observers
               due == emission[e].due
    <2>1. BusOf(e) /\ <<e, g>> \in tasks /\ emission' = emission
      BY <1>1, <1>3 DEF BusInv
    <2>2. emission[e].at = "done"
      <3>1. emission[e].at \in {"new", "intercepting", "done"}
        <4>1. emission[e] \in BusEmissionType
          BY <1>2 DEF BusTypes
        <4> QED BY <4>1 DEF BusEmissionType
      <3>2. ~BusNoTask(e)
        BY <2>1 DEF BusNoTask
      <3> QED BY <2>1, <3>1, <3>2 DEF BusOf, BusBetween
    <2>3. BusSettled(due, obs) /\ BusOrder(e, due, obs) /\ BusDone(e, due, obs)
      BY <2>1, <2>2 DEF BusOf
    <2> HIDE DEF due, obs
    <2>4. g \in obs /\ ~BusCalled(e, g)
      BY <2>1, <2>3 DEF BusDone
    <2>5. \A i, j \in 1..Len(calls') : i < j /\ calls'[i][1] = e /\ calls'[j][1] = e =>
              /\ calls'[i][2] # calls'[j][2]
              /\ calls'[j][2] \notin obs => calls'[i][2] \notin obs /\ Bus!Outranks(due, calls'[i][2], calls'[j][2])
      BY <1>2, <1>4, <2>3, <2>4, BusOneMore
    <2>6. BusOrder(e, emission[e].due, emission[e].observers)'
      BY <2>1, <2>5 DEF BusOrder, Bus!Outranks, due, obs
    <2>7. BusDone(e, emission[e].due, emission[e].observers)'
      <3>1. \A h \in Bus!HandlersOf(due) \ obs : BusCalled(e, h)'
        BY <1>5, <2>3 DEF BusDone
      <3>2. \A h \in obs : BusCalled(e, h)' \/ <<e, h>> \in tasks' \union dropped'
        <4> SUFFICES ASSUME NEW h \in obs, h # g, ~BusCalled(e, h)
                     PROVE  <<e, h>> \in tasks' \union dropped'
          BY <1>5
        <4>1. <<e, h>> \in tasks \union dropped /\ <<e, h>> # t
          BY <1>3, <2>3 DEF BusDone
        <4> QED BY <1>1, <4>1
      <3>3. \A h : <<e, h>> \in tasks' => h \in obs /\ ~BusCalled(e, h)'
        <4> SUFFICES ASSUME NEW h, <<e, h>> \in tasks' PROVE h \in obs /\ ~BusCalled(e, h)'
          OBVIOUS
        <4>1. <<e, h>> \in tasks /\ h # g
          BY <1>1, <1>3
        <4> QED BY <1>5, <2>3, <4>1 DEF BusDone
      <3> QED BY <2>1, <3>1, <3>2, <3>3 DEF BusDone, due, obs
    <2> QED BY <2>1, <2>2, <2>3, <2>6, <2>7 DEF BusOf, due, obs
  <1> QED BY <1>6, <1>7, <1>8 DEF BusInv

LEMMA BusWaits == ASSUME BusParameters, BusInv, Bus!Waits \/ Bus!WaitEnds PROVE BusInv'
  <1>1. /\ UNCHANGED <<listeners, emission, calls>>
        /\ waiting' \subseteq tasks /\ tasks' \subseteq tasks /\ tasks' \union dropped' = tasks \union dropped
    BY DEF Bus!Waits, Bus!WaitEnds
  <1>2. BusTypes'
    BY <1>1 DEF BusInv, BusTypes
  <1>3. ASSUME NEW e \in Emits PROVE BusOf(e)'
    <2>1. /\ BusTypes /\ BusOf(e) /\ emission'[e] = emission[e] /\ calls' = calls
          /\ \A h : <<e, h>> \in tasks' => <<e, h>> \in tasks
          /\ \A h : <<e, h>> \in tasks' \union dropped' <=> <<e, h>> \in tasks \union dropped
      BY <1>1 DEF BusInv
    <2> QED BY <2>1, BusElsewhere
  <1> QED BY <1>2, <1>3 DEF BusInv

LEMMA BusStep == ASSUME BusParameters, BusInv, [Bus!Next]_Bus!vars PROVE BusInv'
  <1>1. CASE \E r \in Registrations : Bus!Register(r)
    BY <1>1, BusRegister
  <1>2. CASE Bus!Clear
    BY <1>2, BusClear
  <1>3. CASE \E e \in Emits, event \in Events : Bus!Emit(e, event)
    BY <1>3, BusEmit
  <1>4. CASE \E e \in Emits : Bus!Intercepted(e)
    BY <1>4, BusIntercepted
  <1>5. CASE \E t \in tasks : Bus!Observed(t)
    BY <1>5, BusObserved
  <1>6. CASE Bus!Waits \/ Bus!WaitEnds
    BY <1>6, BusWaits
  <1>7. CASE UNCHANGED Bus!vars
    <2>1. UNCHANGED <<listeners, emission, tasks, waiting, calls, dropped>>
      BY <1>7 DEF Bus!vars
    <2> QED BY <2>1 DEF BusInv, BusTypes, BusOf, BusOrder, BusBetween, BusDone, BusNoTask, BusCalled
  <1> QED BY <1>1, <1>2, <1>3, <1>4, <1>5, <1>6, <1>7 DEF Bus!Next

\* The bus calls each handler of an emission once, the interceptors by their best priority
\* and before the observers, and forgets no observer but by a wait that ran out of time.
THEOREM GatesComeFirst == ASSUME BusParameters PROVE Bus!Spec => [](Bus!TypeOK /\ Bus!GatesFirst)
  <1>1. Bus!Init => BusInv
    BY BusStart
  <1>2. BusInv /\ [Bus!Next]_Bus!vars => BusInv'
    BY BusStep
  <1>3. BusInv => Bus!TypeOK /\ Bus!GatesFirst
    BY BusHolds
  <1> QED BY <1>1, <1>2, <1>3, PTL DEF Bus!Spec
=============================================================================
