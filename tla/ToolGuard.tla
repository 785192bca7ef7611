------------------------------ MODULE ToolGuard ------------------------------
(***************************************************************************)
(* One tool call of the five-layer agent through its gates: hooks, trust   *)
(* and policy of the security boundary, human approval, the tool itself,   *)
(* and the hook that traces it.  There are two ways through: the tool loop *)
(* (with its retries until a predicate holds) and a custom step executor,  *)
(* which passes the same gates in another order and by other code.         *)
(*                                                                         *)
(* Each gate is an await: the registry of tools may change in between.     *)
(***************************************************************************)
EXTENDS Naturals, Sequences, FiniteSets, Functions

CONSTANTS
    Configs,        \* boundary, policy and hook settings: see TypeOK
    HookRuns,       \* what the hooks of a dispatch do: sequences over HookOutcomes
    MaxAttempts     \* _tool_loop_max_calls

Risks == {"read_only", "effect"}
Requirements == {"yes", "no", "unknown"}        \* of a descriptor; "unknown": none

\* A hook run twice at most: what its first and its second attempt would do.
HookOutcomes == {"allow", "ask", "block", "timeout", "raise"} \X {"allow", "block", "raise"}

VARIABLES
    config, \* fixed per behaviour
    registry,   \* requires_approval of the capability, as listed now
    call,       \* the call under way
    cleared,    \* gates this attempt has passed (history)
    trace       \* ObservabilityHook: spans of the call

vars == <<config, registry, call, cleared, trace>>

NoCall == [phase |-> "idle", path |-> "tool_loop", desc |-> "no", meta |-> FALSE,
           risk |-> "none", attempt |-> 0, decision |-> "allow", needs |-> {}, said |-> {}]
NoTrace == [open |-> FALSE, lost |-> FALSE, counted |-> 0]

TypeOK ==
    /\ config \in [boundary : {"noop", "policy"}, denied : BOOLEAN, deny : SUBSET Risks,
                   approve : SUBSET Risks, default : {"allow", "approve", "deny"},
                   strict : BOOLEAN, manager : BOOLEAN, enforce : BOOLEAN, retries : BOOLEAN]
    /\ registry \in Requirements
    /\ call.phase \in {"idle", "hook", "security", "gate", "approval", "invoking", "returned",
                       "raised"}
    /\ call.attempt \in 0..MaxAttempts
    /\ cleared \subseteq {"hook", "policy", "approval"}
    /\ trace \in [open : BOOLEAN, lost : BOOLEAN, counted : 0..MaxAttempts]

Init ==
    /\ config \in Configs
    /\ registry \in Requirements
    /\ call = NoCall /\ cleared = {} /\ trace = NoTrace

-----------------------------------------------------------------------------
(* HookExtensionPoint.                                                       *)

\* run_with_policy: an error is retried where hooks are idempotent, a timeout is
\* not; what fails for good allows.
RunHook(outcome) ==
    LET final == IF outcome[1] = "raise" /\ config.retries THEN outcome[2] ELSE outcome[1]
    IN  IF final \in {"timeout", "raise"} THEN "allow" ELSE final

\* Mutant of Arbitrate: the last hook has the last word.
ArbitrateLast(said) == IF said = <<>> THEN "allow" ELSE said[Len(said)]

\* arbitrate: block before ask before allow.
Arbitrate(said) ==
    IF "block" \in Range(said) THEN "block"
    ELSE IF "ask" \in Range(said) THEN "ask" ELSE "allow"

\* emit, for a phase that accepts no patch; in shadow mode nothing is enforced.
Emit(said) == IF config.enforce THEN Arbitrate(said) ELSE "allow"

\* _on_before_tool and _on_after_tool, keyed by the id of the call.
Before(t) == [t EXCEPT !.open = TRUE, !.lost = (@ \/ t.open)]
After(t) == [t EXCEPT !.open = FALSE, !.counted = @ + 1]

-----------------------------------------------------------------------------
(* The security boundary.                                                    *)

\* _derive_risk_level: the descriptor's, else the caller's.
RiskOf(c) == c.risk

\* _derive_requires_approval, and the context _evaluate_tool_security gives it.
Requires(c) == IF c.desc = "unknown" THEN c.meta ELSE c.desc = "yes"

\* verify_trust.
Trusted(c) == config.boundary = "noop" \/ RiskOf(c) # "none" \/ ~config.strict

\* check_policy; a risk unknown counts as read_only.
Policy(c) ==
    LET risk == IF RiskOf(c) = "none" THEN "read_only" ELSE RiskOf(c)
    IN  IF config.boundary = "noop" THEN "allow"
        ELSE IF config.denied \/ risk \in config.deny THEN "deny"
        ELSE IF Requires(c) \/ risk \in config.approve THEN "approve"
        ELSE config.default

-----------------------------------------------------------------------------
(* The call.                                                                 *)

\* A call as it comes in, with the descriptor the registry has for it now: the loop
\* begins with the hook, the executor with the policy.
Entered(path, meta, risk) ==
    [NoCall EXCEPT !.phase = IF path = "executor" THEN "security" ELSE "hook",
                   !.path = path, !.desc = registry, !.meta = meta, !.risk = risk]

Begin ==
    /\ call.phase = "idle"
    /\ \E path \in {"tool_loop", "executor"}, meta \in BOOLEAN, risk \in Risks \union {"none"} :
          call' = Entered(path, meta, risk)
    /\ cleared' = {} /\ trace' = NoTrace
    /\ UNCHANGED <<config, registry>>

\* Mutant of Refused: a refusal is not reported to the hooks.
RefusedSilently ==
    call' = [call EXCEPT !.phase = "returned"] /\ UNCHANGED trace

\* The call is answered with an error, AFTER_TOOL first.
Refused ==
    call' = [call EXCEPT !.phase = "returned"] /\ trace' = After(trace)

\* An attempt begins: the budget, then BEFORE_TOOL.
BeforeTool ==
    /\ call.phase = "hook"
    /\ \E run \in HookRuns :
        LET said == [i \in DOMAIN run |-> RunHook(run[i])]
            goes == Emit(said) = "allow"
            next == [call EXCEPT
                       !.attempt = IF call.path = "tool_loop" THEN @ + 1 ELSE 1,
                       !.said = Range(said),
                       !.phase = IF ~goes THEN "returned"
                                 ELSE IF call.path = "tool_loop" THEN "security" ELSE "gate"]
        IN  /\ call' = next
            /\ trace' = IF goes THEN Before(trace) ELSE After(Before(trace))
            /\ cleared' = (IF call.path = "tool_loop" THEN {} ELSE cleared)
                          \union (IF goes THEN {"hook"} ELSE {})
    /\ UNCHANGED <<config, registry>>

\* _evaluate_tool_security and what follows from it: a call that is not trusted
\* or is denied ends here, and in the loop one nobody could approve.
Preflight ==
    /\ call.phase = "security"
    /\ LET decision == Policy(call)
           inLoop == call.path = "tool_loop"
           unapprovable == /\ inLoop /\ ~config.manager /\ call.desc # "yes"
                           /\ call.meta \/ decision = "approve"
       IN  IF ~Trusted(call) \/ decision = "deny" \/ unapprovable
           THEN Refused /\ UNCHANGED cleared
           ELSE /\ call' = [call EXCEPT !.decision = decision,
                              !.phase = IF inLoop THEN "gate" ELSE "hook"]
                /\ cleared' = cleared \union {"policy"}
                /\ UNCHANGED trace
    /\ UNCHANGED <<config, registry>>

\* Mutant of NeedsApproval: the policy's word is forgotten.
NeedsApprovalDeclared(c) == c.meta \/ (registry = "yes" /\ c.path = "tool_loop")

\* force_approval and GovernedToolGateway._requires_approval, which looks at the
\* registry again; effective_requires_approval of the executor does not.
NeedsApproval(c) ==
    \/ c.meta
    \/ c.decision = "approve"
    \/ IF c.path = "tool_loop" THEN registry = "yes" ELSE c.desc = "yes"

Gate ==
    /\ call.phase = "gate"
    /\ call' = [call EXCEPT
          !.phase = IF NeedsApproval(call) THEN "approval" ELSE "invoking",
          !.needs = {call.decision = "approve", call.meta, call.desc = "yes" /\ registry = "yes"}]
    /\ UNCHANGED <<config, registry, cleared, trace>>

\* _resolve_approval: a rule or a human allows or denies; the evaluation may raise,
\* and without a manager it always is an error.
Verdicts == IF config.manager THEN {"allow", "deny", "error"} ELSE {"error"}

\* The verdict for the call is taken; the executor's is _resolve_tool_approval.
Approve ==
    /\ call.phase = "approval"
    /\ \E verdict \in Verdicts :
          IF verdict = "allow"
          THEN /\ call' = [call EXCEPT !.phase = "invoking"]
               /\ cleared' = cleared \union {"approval"}
               /\ UNCHANGED trace
          ELSE Refused /\ UNCHANGED cleared
    /\ UNCHANGED <<config, registry>>

\* The tool has run: done, failed or raised; the loop tries again while its
\* predicate does not hold and calls are left.
ToolEnds ==
    /\ call.phase = "invoking"
    /\ trace' = After(trace)
    /\ \/ call' = [call EXCEPT !.phase = "returned"]
       \/ /\ call.path = "tool_loop" /\ call.attempt < MaxAttempts
          /\ call' = [call EXCEPT !.phase = "hook"]
    /\ UNCHANGED <<config, registry, cleared>>

\* The event log refuses an entry, the budget is spent or the call is cancelled:
\* no AFTER_TOOL is sent.
Raises ==
    /\ call.phase \in {"hook", "security", "gate", "approval", "invoking"}
    /\ call' = [call EXCEPT !.phase = "raised"]
    /\ UNCHANGED <<config, registry, cleared, trace>>

\* A provider is registered again while the call awaits (ToolManager).
Reregister ==
    /\ registry' \in Requirements
    /\ UNCHANGED <<config, call, cleared, trace>>

Next == Begin \/ BeforeTool \/ Preflight \/ Gate \/ Approve \/ ToolEnds \/ Raises \/ Reregister

Spec == Init /\ [][Next]_vars

-----------------------------------------------------------------------------

\* Whichever way a call goes, and however often the loop tries, its tool runs
\* only when in this attempt no hook that is enforced spoke against it, trust
\* and policy were checked, and whatever asked for approval got it
\* (run_tool_loop, _execute_step_via_custom_executor).
OnlyCleared ==
    call.phase = "invoking" =>
        /\ {"hook", "policy"} \subseteq cleared
        /\ config.enforce => call.said \intersect {"ask", "block"} = {}
        /\ TRUE \in call.needs => "approval" \in cleared

\* A call that has returned left no span open and lost none, and each of its
\* attempts was counted (AFTER_TOOL on every path; _on_after_tool).
SpansClose ==
    call.phase = "returned" =>
        /\ ~trace.open /\ ~trace.lost
        /\ trace.counted = IF call.attempt = 0 THEN 1 ELSE call.attempt
=============================================================================
