---------------------------- MODULE RunApprovals ----------------------------
(***************************************************************************)
(* Approvals in a run nobody sits at: `run` and `script` of the client.    *)
(* The agent announces a request on the transport and waits; the event     *)
(* pump hands the announcement to the policy, which may grant it itself,   *)
(* and to a watch, which ends the task when a request waits too long; a    *)
(* host may decide through the control frames on stdin.                    *)
(*                                                                         *)
(* Events are handled one after the other: a grant in flight keeps the     *)
(* pump.  Times are "too long ago" or not.                                 *)
(***************************************************************************)
EXTENDS Naturals, Sequences, FiniteSets, Functions

CONSTANTS
    MaxTasks,    \* tasks (lines of a script)
    MaxRequests  \* bound: requests in all

Requests == 1..MaxRequests

\* The options of `run` and `script` that bear on approvals; `wait` is
\* --approval-timeout-seconds, "off" when it is not positive.
Common == [auto : {"none"}, wait : {"default", "off", "given"},
           headless : BOOLEAN, control : BOOLEAN, json : BOOLEAN]
Script(o) == [name |-> "script", with |-> o]
RunOf(o, a) == [name |-> "run", with |-> [o EXCEPT !.auto = a]]
Commands == {Script(o) : o \in Common} \union {RunOf(o, a) : o \in Common, a \in {"none", "some", "all"}}

\* _validate_cli_args.
Accepted(c) == (c.with.headless => ~c.with.json) /\ (c.with.control => c.with.headless)

\* A run waits 120 seconds unless it is told otherwise, a script only when headless.
LimitsWaits(c) ==
    \/ c.with.wait = "given"
    \/ c.with.wait = "default" /\ (c.name = "run" \/ c.with.headless)

\* Who asks (the agent's own path or the gateway), what is granted without asking,
\* whether a wait is limited, whether a host decides.
Setup(c, p) == [path |-> p, auto |-> c.with.auto, timeout |-> LimitsWaits(c),
                control |-> c.with.control]
Setups == {Setup(c, p) : c \in {x \in Commands : Accepted(x)}, p \in {"gateway", "agent"}}

NoGrant == [id |-> 0, answer |-> "none"]

VARIABLES
    limits,    \* the setup of the run
    tasks,     \* tasks begun
    stage,     \* the agent: "idle", "working", "waiting"
    asked,     \* requests made so far; the last one is the task's
    safe,      \* the last request is for a tool that is granted without asking
    open,      \* requests pending in the approval manager
    mail,      \* events sent to the client
    frames,    \* control frames read from stdin and not handled yet: requests to decide
    granting,  \* the pump's own grant: its request, and the answer when it is there
    attempted, \* requests the policy has tried to grant
    watch,     \* [id, long]: the request the watch holds, 0 for none
    shown,     \* pending_runtime_approvals, what status:get reports
    ended      \* how the tasks ended (history)

vars == <<limits, tasks, stage, asked, safe, open, mail, frames, granting, attempted, watch, shown, ended>>

TypeOK ==
    /\ limits \in Setups
    /\ limits.path \in {"gateway", "agent"} /\ limits.auto \in {"none", "some", "all"}
    /\ tasks \in 0..MaxTasks /\ stage \in {"idle", "working", "waiting"}
    /\ asked \in 0..MaxRequests /\ safe \in BOOLEAN /\ open \subseteq Requests
    /\ \A m \in Range(mail) : m.is \in {"ask", "answered"} /\ m.id \in Requests
    /\ Range(frames) \subseteq Requests /\ Len(frames) <= MaxRequests
    /\ granting.id \in 0..MaxRequests /\ granting.answer \in {"none", "ok", "error"}
    /\ attempted \subseteq Requests /\ shown \subseteq Requests
    /\ watch.id \in 0..MaxRequests /\ watch.long \in BOOLEAN
    /\ Range(ended) \subseteq {"ok", "timeout"} /\ Len(ended) <= MaxTasks

Off == [id |-> 0, long |-> FALSE]

Init ==
    /\ limits \in Setups
    /\ tasks = 0 /\ stage = "idle" /\ asked = 0 /\ safe = FALSE /\ open = {} /\ mail = <<>>
    /\ frames = <<>>
    /\ granting = NoGrant /\ attempted = {} /\ watch = Off /\ shown = {} /\ ended = <<>>

-----------------------------------------------------------------------------
(* The watch and the policy.                                                 *)

\* mark_pending: a request keeps the time it was first seen at.
Watched(id) == IF watch.id = id THEN watch ELSE [id |-> id, long |-> FALSE]

\* mark_resolved: another request's watch stays.
Unwatched(id) == IF watch.id = id THEN Off ELSE watch

\* What the policy grants by itself.
Allowed(id) == limits.auto = "all" \/ (limits.auto = "some" /\ id = asked /\ safe)

\* Mutant of Pending: the watch begins only for what the policy tries itself.
PendingUnwatched(id) ==
    IF Allowed(id) THEN watch' = Watched(id) /\ granting' = [NoGrant EXCEPT !.id = id]
    ELSE UNCHANGED <<watch, granting>>

\* _RunApprovalPolicy.on_pending up to its await.
Pending(id) ==
    /\ watch' = Watched(id)
    /\ granting' = IF Allowed(id) /\ id \notin attempted THEN [NoGrant EXCEPT !.id = id] ELSE NoGrant

-----------------------------------------------------------------------------
(* The client.                                                               *)

\* _execute_task_with_approval_timeout begins a task with the watch reset.
Begin ==
    /\ stage = "idle" /\ tasks < MaxTasks
    /\ tasks' = tasks + 1 /\ stage' = "working" /\ watch' = Off
    /\ UNCHANGED <<limits, asked, safe, frames, open, mail, granting, attempted, shown, ended>>

\* The pump takes an announced request.
TakeAsk ==
    /\ granting = NoGrant /\ mail # <<>> /\ Head(mail).is = "ask"
    /\ LET id == Head(mail).id
       IN  /\ shown' = shown \union {id}
           /\ Pending(id)
           /\ attempted' = IF Allowed(id) THEN attempted \union {id} ELSE attempted
    /\ mail' = Tail(mail)
    /\ UNCHANGED <<limits, tasks, stage, asked, safe, frames, open, ended>>

\* ... or learns that one was decided.
TakeAnswered ==
    /\ granting = NoGrant /\ mail # <<>> /\ Head(mail).is = "answered"
    /\ shown' = shown \ {Head(mail).id}
    /\ watch' = Unwatched(Head(mail).id)
    /\ mail' = Tail(mail)
    /\ UNCHANGED <<limits, tasks, stage, asked, safe, frames, open, granting, attempted, ended>>

\* The action approvals:grant reaches the manager, or is answered with an error, a
\* timeout of the channel's among them.
Grant ==
    /\ granting.id # 0 /\ granting.answer = "none"
    /\ \/ granting.id \in open /\ open' = open \ {granting.id}
          /\ granting' = [granting EXCEPT !.answer = "ok"]
       \/ granting' = [granting EXCEPT !.answer = "error"] /\ UNCHANGED open
    /\ UNCHANGED <<limits, tasks, stage, asked, safe, frames, mail, attempted, watch, shown, ended>>

\* on_pending after its await; the pump goes on.
Granted ==
    /\ granting.answer # "none"
    /\ watch' = IF granting.answer = "ok" THEN Unwatched(granting.id) ELSE watch
    /\ granting' = NoGrant
    /\ UNCHANGED <<limits, tasks, stage, asked, safe, frames, open, mail, attempted, shown, ended>>

\* A line of the host, approvals:grant or approvals:deny of a request it was told of:
\* a thread of its own reads it and hands it to the loop (_ControlStdinReader).
HostWrites ==
    /\ limits.control /\ Len(frames) < MaxRequests
    /\ \E id \in 1..asked : frames' = Append(frames, id)
    /\ UNCHANGED <<limits, tasks, stage, asked, safe, open, mail, granting, attempted, watch, shown, ended>>

\* The control loop handles one frame after the other; one whose request is decided
\* already is answered with an error.
HandleFrame ==
    /\ frames # <<>>
    /\ open' = open \ {Head(frames)} /\ frames' = Tail(frames)
    /\ UNCHANGED <<limits, tasks, stage, asked, safe, mail, granting, attempted, watch, shown, ended>>

\* approval_timeout_seconds pass: many seconds, in which all that is ready is done; a
\* grant may be out that long, and a task at work.
Elapses ==
    /\ limits.timeout /\ watch.id # 0 /\ ~watch.long
    /\ stage = "waiting" => asked \in open /\ asked \notin Range(frames)
    /\ \/ mail = <<>>
       \/ granting.id # 0 /\ granting.answer = "none"
    /\ watch' = [watch EXCEPT !.long = TRUE]
    /\ UNCHANGED <<limits, tasks, stage, asked, safe, frames, open, mail, granting, attempted, shown, ended>>

\* The task is over: the watch is reset, and what status:get reports is cleared.
Over(how) ==
    /\ stage' = "idle" /\ ended' = Append(ended, how)
    /\ watch' = Off /\ shown' = {}

\* The waiting loop cancels the task; its request stays in the manager.
TimesOut ==
    /\ stage # "idle" /\ watch.long
    /\ Over("timeout")
    /\ UNCHANGED <<limits, tasks, asked, safe, frames, open, mail, granting, attempted>>

-----------------------------------------------------------------------------
(* The agent.                                                                *)

\* What the agent sends the client: a request as it comes up, and its decision.
AskEvent(id) == [is |-> "ask", id |-> id]
AnsweredEvent(id) == [is |-> "answered", id |-> id]
Announced(id) == Append(mail, AskEvent(id))
AnswerTold(id) == Append(mail, AnsweredEvent(id))

\* A tool needs an approval: pending, announced, waited for.
Asks ==
    /\ stage = "working" /\ asked < MaxRequests
    /\ asked' = asked + 1 /\ safe' \in BOOLEAN
    /\ open' = open \union {asked + 1}
    /\ mail' = Announced(asked + 1)
    /\ stage' = "waiting"
    /\ UNCHANGED <<limits, tasks, frames, granting, attempted, watch, shown, ended>>

\* The decision is there.  The agent's own path announces it; the governed gateway,
\* which every tool loop uses, does not.
Resumes ==
    /\ stage = "waiting" /\ asked \notin open
    /\ stage' = "working"
    /\ mail' = IF limits.path = "agent" THEN AnswerTold(asked) ELSE mail
    /\ UNCHANGED <<limits, tasks, asked, safe, frames, open, granting, attempted, watch, shown, ended>>

Finishes ==
    /\ stage = "working"
    /\ Over("ok")
    /\ UNCHANGED <<limits, tasks, asked, safe, frames, open, mail, granting, attempted>>

Agent == Asks \/ Resumes \/ Finishes
Pump == TakeAsk \/ TakeAnswered \/ Grant \/ Granted

Next == Begin \/ Pump \/ HostWrites \/ HandleFrame \/ Elapses \/ TimesOut \/ Agent

Spec == Init /\ [][Next]_vars

\* The event loop runs what is ready, time passes, and the waiting loop polls.  A host
\* owes nothing.
Fairness ==
    /\ WF_vars(Agent) /\ WF_vars(Pump) /\ WF_vars(HandleFrame)
    /\ WF_vars(Elapses) /\ WF_vars(TimesOut)
FairSpec == Spec /\ Fairness

-----------------------------------------------------------------------------
(* Properties.                                                               *)

\* With a limit on waits no task waits for ever, whatever the policy, the host and
\* failing grants do.
Bounded == limits.timeout /\ stage # "idle"
Settled == stage = "idle"
NoEndlessWait == Bounded ~> Settled

\* docs/guides/Tool_Approval_Memory.md:138-139, "the runtime sends" the request and
\* then the decision on the transport, and client/README.md:526, a run fails when
\* the approval takes too long: with no event or grant under way, only a task that
\* still waits is ended.
TimeoutDeserved ==
    Len(ended') > Len(ended) /\ ended'[Len(ended')] = "timeout" =>
        stage = "waiting" \/ mail # <<>> \/ granting # NoGrant
=============================================================================
