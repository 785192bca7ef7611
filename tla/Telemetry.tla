------------------------------ MODULE Telemetry ------------------------------
(***************************************************************************)
(* What the hooks of observability make of the phases a five-layer agent   *)
(* emits: ObservabilityHook opens a span before a phase and closes it      *)
(* after, keeping it by a key meanwhile; LLMIOCaptureHook joins the        *)
(* request of a model call with its answer.                                *)
(*                                                                         *)
(* The agent does not close every phase it opened: a model call or a       *)
(* verification a hook refuses has no AFTER, and an error (or an           *)
(* interrupt) unwinds to AFTER_RUN at once.  Spans are entered in the      *)
(* context of the task that runs: one per run, or one for all.             *)
(***************************************************************************)
EXTENDS Naturals, Sequences, FiniteSets, SequencesExt

CONSTANTS
    Separate,   \* is each run a task of its own? a set of BOOLEANs
    MaxRuns, MaxSpans

VARIABLES
    separate,   \* fixed per behaviour
    runNo,      \* the run under way or the last one
    path,       \* keys of the phases under way, outermost first
    iteration,  \* of the execute loop
    hook,       \* ObservabilityHook and the context of the task: see NoHook
    capture     \* LLMIOCaptureHook: requests pending, records written, calls so far

vars == <<separate, runNo, path, iteration, hook, capture>>

Phases == {"run", "session", "milestone", "plan", "execute", "model", "tool", "verify"}

\* open: _active_spans; tree: the spans started, each with its run and its parent;
\* current: the span of the task's context, 0 for none; counted: model_invocations.
NoHook == [open |-> <<>>, tree |-> <<>>, current |-> 0, counted |-> 0]

TypeOK ==
    /\ separate \in Separate /\ runNo \in 0..MaxRuns
    /\ \A i \in DOMAIN path : path[i][1] \in Phases
    /\ iteration \in 0..MaxSpans
    /\ Len(hook.tree) <= MaxSpans /\ hook.current \in 0..Len(hook.tree)
    /\ \A k \in DOMAIN hook.open : hook.open[k].span \in DOMAIN hook.tree
    /\ capture.calls \in 0..MaxSpans
    /\ capture.written \subseteq (0..capture.calls) \X (1..capture.calls)

Init ==
    /\ separate \in Separate
    /\ runNo = 0 /\ path = <<>> /\ iteration = 0 /\ hook = NoHook
    /\ capture = [pending |-> <<>>, written |-> {}, calls |-> 0]

-----------------------------------------------------------------------------
(* Spans.                                                                    *)

\* The task of a run, as contexts tell tasks apart.
Task == IF separate THEN runNo ELSE 1

\* Mutant of Detach: the context is put back wherever the span was entered.
DetachAnywhere(h, entry) == [h EXCEPT !.current = entry.saved]

\* dict[k] = v.
Put(f, k, v) == [x \in DOMAIN f \union {k} |-> IF x = k THEN v ELSE f[x]]

\* The end of a span: the context becomes what it was at its start, provided it
\* is the same context (the library logs the error otherwise).
Detach(h, entry) == IF entry.task = Task THEN [h EXCEPT !.current = entry.saved] ELSE h

\* _start_span: the new span is a child of the current one.  An entry left under
\* the same key is replaced, and closed as its context manager is dropped.
StartSpan(h, key) ==
    LET entry == [span |-> Len(h.tree) + 1, saved |-> h.current, task |-> Task]
        started == [h EXCEPT !.tree = Append(@, [run |-> runNo, parent |-> h.current]),
                             !.current = entry.span, !.open = Put(@, key, entry)]
    IN  IF key \in DOMAIN h.open THEN Detach(started, h.open[key]) ELSE started

\* _end_span: nothing without an entry.
EndSpan(h, key) ==
    IF key \in DOMAIN h.open
    THEN [Detach(h, h.open[key]) EXCEPT !.open = [k \in DOMAIN h.open \ {key} |-> h.open[k]]]
    ELSE h

\* TraceAwareEventLog.append: an event is written with the trace of the current
\* span, if there is one; a trace is the run of its root.
TraceOfEvents(h) == IF h.current = 0 THEN 0 ELSE h.tree[h.current].run

-----------------------------------------------------------------------------
(* Metrics and captured calls.                                               *)

\* Mutant of Reset: a run goes on with the numbers of the last one.
ResetNothing(h) == h

\* MetricsCollector.reset, before a run.
Reset(h) == [h EXCEPT !.counted = 0]

\* _on_before_model: the invocation is counted.
CountModel(h) == [h EXCEPT !.counted = @ + 1]

\* The pending request of this run and iteration.
Pending == <<runNo, iteration + 1>>

\* Mutant of Asks: an earlier request under the key is kept.
AsksUnlessPending(c, key) ==
    [c EXCEPT !.calls = @ + 1, !.pending = IF key \in DOMAIN @ THEN @ ELSE Put(@, key, c.calls + 1)]

\* LLMIOCaptureHook._on_before_model.
Asks(c, key) == [c EXCEPT !.calls = @ + 1, !.pending = Put(@, key, c.calls + 1)]

\* _on_after_model: the request is taken from the pending ones, or empty.
Answers(c, key) ==
    LET asked == IF key \in DOMAIN c.pending THEN c.pending[key] ELSE 0
    IN  [c EXCEPT !.pending = [k \in DOMAIN c.pending \ {key} |-> c.pending[k]],
                  !.written = @ \union {<<asked, c.calls>>}]

-----------------------------------------------------------------------------
(* Phases.                                                                   *)

Top == path[Len(path)][1]
Room(n) == Len(hook.tree) + n <= MaxSpans

\* Milestones, like tool calls, have ids of their own.
KeyOf(phase) == <<phase, IF phase \in {"milestone", "tool"} THEN Len(hook.tree) + 1 ELSE 0>>

\* execute: BEFORE_RUN.  A task starts out with no span.
RunBegins ==
    /\ path = <<>> /\ runNo < MaxRuns /\ Room(1)
    /\ runNo' = runNo + 1
    /\ LET bare == IF separate THEN [hook EXCEPT !.current = 0] ELSE hook
           n == Len(hook.tree) + 1
           key == <<"run", 0>>
       IN  /\ path' = <<key>>
           /\ hook' = [Reset(bare) EXCEPT
                         !.tree = Append(@, [run |-> runNo + 1, parent |-> bare.current]),
                         !.current = n,
                         !.open = Put(@, key, [span |-> n, saved |-> bare.current,
                                               task |-> IF separate THEN runNo + 1 ELSE 1])]
    /\ UNCHANGED <<separate, iteration, capture>>

Inner == [run |-> {"session"}, session |-> {"milestone"},
          milestone |-> {"plan", "execute", "verify"}, execute |-> {"tool"}]

Begins(phase) ==
    /\ path # <<>> /\ Top \in DOMAIN Inner /\ phase \in Inner[Top] /\ Room(1)
    /\ path' = Append(path, KeyOf(phase))
    /\ hook' = StartSpan(hook, KeyOf(phase))
    /\ UNCHANGED <<separate, runNo, capture>>

SessionBegins == Begins("session") /\ UNCHANGED iteration
MilestoneBegins == Begins("milestone") /\ UNCHANGED iteration
PlanBegins == Begins("plan") /\ UNCHANGED iteration
ExecuteBegins == Begins("execute") /\ iteration' = 0
ToolBegins == Begins("tool") /\ UNCHANGED iteration
VerifyBegins == Begins("verify") /\ UNCHANGED iteration

\* AFTER_ the innermost phase, which is this one.
Closes(phase) ==
    /\ path # <<>> /\ Top = phase
    /\ hook' = EndSpan(hook, Last(path))
    /\ path' = Front(path)
    /\ UNCHANGED <<separate, runNo, iteration, capture>>

RunEnds == Closes("run")
SessionEnds == Closes("session")
MilestoneEnds == Closes("milestone")
PlanEnds == Closes("plan")
ExecuteEnds == Closes("execute")
ToolEnds == Closes("tool")
VerifyEnds == Closes("verify")

\* BEFORE_MODEL, allowed.
ModelBegins ==
    /\ path # <<>> /\ Top = "execute" /\ Room(1)
    /\ path' = Append(path, <<"model", 0>>)
    /\ hook' = CountModel(StartSpan(hook, <<"model", 0>>))
    /\ capture' = Asks(capture, Pending)
    /\ UNCHANGED <<separate, runNo, iteration>>

\* AFTER_MODEL.
ModelEnds ==
    /\ path # <<>> /\ Top = "model"
    /\ path' = Front(path)
    /\ hook' = EndSpan(hook, <<"model", 0>>)
    /\ capture' = Answers(capture, Pending)
    /\ iteration' = iteration + 1
    /\ UNCHANGED <<separate, runNo>>

\* BEFORE_MODEL, refused by a hook: AFTER_EXECUTE is next.
ModelRefused ==
    /\ path # <<>> /\ Top = "execute" /\ Room(1)
    /\ hook' = EndSpan(CountModel(StartSpan(hook, <<"model", 0>>)), Last(path))
    /\ capture' = Asks(capture, Pending)
    /\ path' = Front(path)
    /\ UNCHANGED <<separate, runNo, iteration>>

\* BEFORE_VERIFY, refused by a hook: there is no AFTER_VERIFY.
VerifyRefused ==
    /\ path # <<>> /\ Top = "milestone" /\ Room(1)
    /\ hook' = StartSpan(hook, <<"verify", 0>>)
    /\ UNCHANGED <<separate, runNo, path, iteration, capture>>

\* An error, a budget or an interrupt ends the run: only AFTER_RUN is emitted.
Unwinds ==
    /\ Len(path) > 1
    /\ hook' = EndSpan(hook, <<"run", 0>>)
    /\ path' = <<>>
    /\ UNCHANGED <<separate, runNo, iteration, capture>>

Next ==
    \/ RunBegins \/ SessionBegins \/ MilestoneBegins \/ PlanBegins \/ ExecuteBegins
    \/ ToolBegins \/ VerifyBegins
    \/ RunEnds \/ SessionEnds \/ MilestoneEnds \/ PlanEnds \/ ExecuteEnds \/ ToolEnds
    \/ VerifyEnds
    \/ ModelBegins \/ ModelEnds \/ ModelRefused
    \/ VerifyRefused \/ Unwinds

Spec == Init /\ [][Next]_vars

-----------------------------------------------------------------------------
(* Properties.                                                               *)

\* What is recorded is attributed to what it belongs to, whatever earlier runs
\* and attempts left behind: where runs are tasks of their own no span is the
\* child of another run's span (_start_span, _end_span), and no event a run
\* appends carries another run's trace (TraceAwareEventLog); every captured record
\* joins the answer with the request of the same call (LLMIOCaptureHook); and
\* the model calls counted for a run are no more than the run made.
OwnAttribution ==
    /\ separate => \A n \in DOMAIN hook.tree :
          LET parent == hook.tree[n].parent
          IN  parent # 0 => hook.tree[parent].run = hook.tree[n].run
    /\ separate /\ path # <<>> => TraceOfEvents(hook) \in {0, runNo}
    /\ \A record \in capture.written : record[1] = record[2]
    /\ hook.counted <= Cardinality({n \in DOMAIN hook.tree : hook.tree[n].run = runNo})
=============================================================================
