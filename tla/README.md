# A TLA+ model of the DARE agent runtime

DARE (`dare_framework/`, with the command line client in `client/`) runs agents
on one asyncio event loop: a client sends a message over a channel, the agent
plans, calls a model, calls tools, and replies; a human approves dangerous tool
calls on the way. This directory models the parts of it where order, failure and
concurrency decide whether it is right, checks them with TLC and proves the most
important invariants with TLAPS.

The source is Python under `asyncio`: whatever lies between two `await`s is
atomic, and everything else may interleave. That is the granularity of every
module here. A step is what one task does between two of its awaits; an
`asyncio.Lock` around code without an await adds nothing to it. Where processes
share a file or a database (event log, checkpoints, sessions, the workspace) the
granularity is one file operation or one SQL statement, and a process may be
killed between two of them.

## 1. Inventory

| Component | State it keeps | Operations | What makes it hard | What makes it correct |
|---|---|---|---|---|
| Tool approval (`tool/_internal/control/approval_manager.py`, `governed_tool_gateway.py`) | four rule lists, two JSON files, pending requests under two indexes, buffered decisions | evaluate, wait_for_resolution, grant, deny, revoke, poll_pending, save, load | calls that share a request; waiting begins three awaits after asking; saves that fail half way | only authorised calls run; one decision per request, delivered to all; memory and files agree |
| Transport and lifecycle (`transport/_internal/*.py`, `agent/base_agent.py`) | bounded inbox and outbox, pump task, loop task, task in flight, status | ask, send, poll, start, stop, interrupt | cancellation as a signal between tasks, backpressure, stop and start at any moment, timeouts | one honest reply per request; status is true; interrupts arrive; stop returns |
| Five-layer loop (`agent/dare_agent.py`, `agent/_internal/*.py`) | loop counters, snapshot, milestone notes, event trail | execute, plan, execute step or model turn, tool call, verify, remediate | nested retries over one shared memory; exceptions that leave all loops | a failed attempt leaves no trace; budget holds; every run ends; the log is complete |
| Tool gates (`dare_agent.py`, `tool_executor.py`, `hook/`, `security/`) | the call, its decisions, its span | hooks, trust, policy, approval, invoke, retry | two ways through, each gate an await; the registry changes meanwhile | a tool runs only when this attempt is cleared; its span ends |
| Plans and steps (`plan/_internal/`, `step_executor.py`) | draft plans, validated steps, results | plan, validate, execute, verify, remediate | trust derived before an await, used after it | steps run on trust taken from the registry |
| Context, memory, guidance (`context/`, `guidance/`, `memory/in_memory_stm.py`) | message list, budget counters, guidance queue | assemble, stm_add, budget_use, enqueue, drain | guidance arrives from another task in the middle of an attempt | guidance heard once and in order |
| ReAct and chat agents, compression (`agent/react_agent.py`, `compression/`, `context/manage_context.py`) | message list, summaries | execute, compress, manage_context | compression cuts between a call and its result | what the model sees is in pairs and within its window; executions end |
| Execution control (`tool/_internal/control/*_execution_control.py`) | one signal, checkpoints, events of waiters | pause, resume, wait_for_human, poll_or_raise | requests that overwrite each other | who waits can be released |
| Event log (`event/_internal/sqlite_event_log.py`) | hash-chained rows | append, query, replay, verify_chain | several connections, failing commits | the chain of an untouched log verifies; appends last |
| Event bus (`events/`) | listeners, observer tasks | register, clear, emit, wait_for_observers | registrations during an emission | interceptors before observers, each once |
| Capability registry and MCP (`tool/tool_manager.py`, `mcp/*.py`) | entries by name, by object, by provider; connections; caches | register, unregister, refresh, reload, unload | failure half way, reloads across awaits | the indexes agree; a reload that reports success serves its tools |
| MCP client (`mcp/client.py`, `mcp/transports/`) | request counter, buffers, stream | connect, call, disconnect | several requests on one stream, late answers, a dead server | each call gets its own answer, and gets it |
| Checkpoints, session store (`checkpoint/`, `client/session_store.py`) | files | save, restore, trim, load latest | files cut short, processes that share a directory, the clock set back | what was saved can be restored |
| CLI client (`client/`) | session state, tasks, event pump, approval watch | lines, control frames, run, script | a task in the background, approvals nobody answers, resume while a task runs | a snapshot holds one conversation; the exit code is true; nothing waits for ever |
| Terminal (`transport/_internal/adapters.py`, `ask_user.py`) | two readers of one stdin | type, send, ask, answer | who reads the next line | every line has one outcome |
| A2A (`a2a/`) | task store, files | send, get, cancel, subscribe | cancel of a running task, two sends of one id | nothing of a message is lost; artifacts are the task's own |
| plan_v2 (`plan_v2/`) | plan and step states | create, validate, revise, delegate, finish | sub-agents that return into a plan that moved on | advice matches the plan; a finished plan stays finished |
| Built-in tools (`tool/_internal/tools/`) | files, processes | read, write, edit, search, run | line ends, the user's own edits, children that outlive a timeout | edits are exact; an answered command is over |
| Model adapters (`model/`) | none of its own | write a conversation, read an answer | calls without id, arguments that do not parse, another adapter on resume | results keep their calls |
| Builder, configuration (`agent/builder.py`, `config/`, `client/runtime/bootstrap.py`) | what was given, layers of settings | with_*, build, reload | several builds of one builder, reloads of edited files | what was asked for is what is built |
| Knowledge and memory, skills (`knowledge/`, `memory/`, `embedding/`, `skill/`) | rows, catalogue | add, remove, query, reload, mount | several back ends behind one contract | a query gets the best there is |
| Observability (`observability/`) | open spans by key | before and after each phase | phases that never close, runs that overlap | spans and counts belong to their run |

How they interact: `DirectClientChannel.ask` puts an envelope into the agent's
inbox or hands it to a handler; the transport loop of `BaseAgent` takes prompts
off the inbox and runs `execute()` as a task, which is the five loops; the tool
loop goes through the gates of one call and `GovernedToolGateway`, which may
block on the approval manager; replies go through the outbox and its pump back
to the future the client awaits. Interrupts cancel the task in flight, so a
cancellation can hit the loops and an approval wait at any await. The models
meet there: `Raise` of `DareLoops` and `Interrupt` of `ToolApproval` are what a
cancellation of `AgentTransport` does inside; `NotInvoked` of `DareLoops` is a
call `ToolGuard` refuses, whose approval gate is `ToolApproval`; `Fail` of
`AgentTransport` is `Unwind` of `DareLoops`; `RunApprovals` is a client of
`ToolApproval` through events; the registry that changes under `ToolGuard` and
`StepPlans` is that of `McpRegistry`.

`PROJECT.json` lists every component with its files, and the hazards of each at
their line.

## 2. Modules

| Module | What it is | Checked in |
|---|---|---|
| `ToolApproval` | approval manager, gateway, rule files, pollers, restart | `approval_*` |
| `ApprovalContract` | what approval promises, seen from the calls alone; implemented by `ToolApproval` | `approval_calls` |
| `AgentTransport` | client, channel, pump, transport loop, executions, hosts | `transport_*` |
| `DareLoops` | the five loops over memory, sandbox, budget, signal, guidance | `loops_*` |
| `AttemptContract` | what a milestone attempt promises about memory; implemented by `DareLoops` | `loops_runs` |
| `StepPlans` | plans, validators, trusted steps, custom executors | `components` |
| `ToolGuard` | one tool call through its gates, on both ways, with its span | `components` |
| `ReactLoop` | ReAct and chat agents, compression, manage_context | `executions` |
| `RunApprovals` | `run` and `script`: approvals nobody sits at | `executions` |
| `EventLog` | the hash chain through several SQLite connections | `components` |
| `ExecutionControl` | signal, checkpoints, waiters | `components` |
| `EventBus` | registration, emission, observer tasks | `components` |
| `McpRegistry` | `ToolManager`, `MCPManager`, providers and overlapping reloads | `components` |
| `McpClient` | handshake, correlation, stdio and HTTP transports | `components` |
| `Checkpoints` | two processes over one directory of checkpoints | `components` |
| `CliSession` | the command line's loop, tasks, pump and snapshots | `components` |
| `Console` | stdio client, actions and controls, ask_user at one terminal | `components` |
| `A2aServer` | task store, conversion of messages and artifacts, event stream | `components` |
| `PlanTools` | plan_v2 with its sub-agents | `components` |
| `BuiltinTools` | files, edits, searches, commands | `components` |
| `ModelAdapters` | four adapters over one conversation | `components` |
| `Configuration`, `AgentBuilder` | layers of settings; builds | `components` |
| `KnowledgeStores`, `Skills` | five stores; skill directories | `components` |
| `Telemetry` | spans and captures | `components` |
| `MCToolApproval`, `MCAgentTransport`, `MCTransportScenes`, `MCDareLoops`, `MCComponents`, `MCExecutions` | instances for TLC | |
| `Components` | the twenty-one components that stand by themselves, as one system | `components`, `executions` |
| `ToolApproval_proofs`, `AgentTransport_proofs`, `DareLoops_proofs` | proofs of the three core components, section 5 | |
| `Records_proofs` | proofs of `EventLog`, `ExecutionControl`, `Checkpoints`, `Telemetry`, `BuiltinTools`, `KnowledgeStores`, `Skills`, `ModelAdapters` | |
| `Guarded_proofs` | proofs of `ToolGuard`, `PlanTools`, `StepPlans`, `McpRegistry`, `EventBus` | |
| `Channels_proofs` | proofs of `CliSession`, `McpClient`, `A2aServer`, `Console`, `Configuration`, `AgentBuilder`, `ReactLoop`, `RunApprovals` | |
| `Components_proofs` | what follows for `Components` | |
| `Listings` | a set put in order, and what is left of a sequence, without recursion | |
| `SequenceFacts` | lemmas on these, on sequences and on numbers that several proofs need | |

Definitions marked "Mutant of" next to a definition are plausible bugs in it;
each property has at least one that it catches.

### ToolApproval

A *call* is one `GovernedToolGateway.invoke`. `pc` says where it is: `idle`,
`announcing` (asked, not yet waiting), `waiting`, `allowed`, and its ends.
`evaluate()` is three actions, by its three outcomes: a rule applies
(`EvaluateByRule`), a new request (`EvaluateAsk`), a request of the same
fingerprint is pending (`EvaluateJoin`). `wait_for_resolution` is two
(`BeginWait`, `EndWait`), since it awaits an event in between. A human grants or
denies once (`DecideOnce`) or leaves a rule (`Decide`); the save may fail with
the rule in memory and the request undecided (`DecideSaveFails`), leaving the
file as it was or truncated. `Restart` builds a new manager from the files.
Clients block in `poll_pending` (`Poll`, `PollAgain`).

A fingerprint is a capability with a hash of its parameters; a command is a
sequence of words, because prefixes are compared word by word. Which of several
applicable denials (or allowances) is reported is left open. Pending requests
hold no time, so `_oldest_pending_locked` is "some request that concerns me".

### AgentTransport

`ask` is where each client request is, `exec` what became of its execution,
`loop` and `pumps` the tasks spawned by each `start()`, `loopTask`, `pumpTask`
and `inFlight` the fields by which the code refers to them (they may be stale,
and that is a subject of the model). `parked` holds envelopes whose sender is
blocked in `outbox.put`; which of them gets room first is left open. The
transport loop swallows `CancelledError` while it awaits an execution, so
`CancelWork` of a `stop()` does not end such a loop: it goes round once more and
looks at the status. `stop()` is therefore up to three steps with awaits in
between (`Stop`, `StopChannel`, `StopEnds`), in which another host's `start()`
may come.

### DareLoops

One task, at phase `at`, with the loop counters in `pos`. What planner, model,
validator, tools, hooks and policies answer is free choice: a plan may be
accepted or rejected, a model may answer or ask for 1 to `MaxCalls` tools, a
tool may fail. `Refuse` is the exception of a budget or signal check; `Raise` is
any other exception or a cancellation, at any await; both leave all loops
without a rollback, as the code does. `Guide`, `Request` and `Resume` are the
tasks around it. `fate` records for each milestone attempt whether its memory
was kept, dropped, or left behind by an exception; messages carry the attempt
that wrote them, so "no trace" can be stated. Token, cost and time budgets, and
failures of log, planner, model and validator, are instances of `Raise`.

### ToolGuard and StepPlans

They look into two things `DareLoops` leaves to choice. `ToolGuard` follows one
call through `BeforeTool` (hooks that may time out, raise, ask or block),
`Preflight` (budget and signal), `Gate` (trust and policy of the boundary),
`Approve` and `ToolEnds`, on the way of the tool loop, with its retries, and on
that of a custom step executor, which takes the same gates in another order. The
set `cleared` says what this attempt has passed. `Reregister` is the registry
changing at any await. The policy is its sets of risks and its default for what
they do not name. `StepPlans` follows a milestone: `Plan`, `Validate` (the
registry gives each proposed step its capability and risk, found by id or by an
alias that only one capability has), the steps one after the other or the model's
turn, `Verify`, `Remediate`. `RegistryChanges` is the registry beside it: capabilities are
withdrawn, added, and replaced by others of the same id.

### Records: EventLog, ExecutionControl, Checkpoints, Telemetry

`EventLog` separates the SELECT of the last hash, the INSERT and the COMMIT, each
of which may fail; a hash is the event it is the hash of. SQLite's write lock and
its snapshot of an open transaction are external. `ExecutionControl` keeps the
event objects of its waiters by owner, since `wait_for_human` replaces one.
`Checkpoints` lets two processes save, list, trim and restore in one directory,
with kills in the middle of a write and a clock set back. `Telemetry` follows the
keys under which spans are kept between the phase that opens them and the phase
that closes them, or that never comes.

### Sessions and clients: CliSession, RunApprovals, Console, A2aServer

`CliSession` has one process at a time with its loop, its foreground or
background task, the event pump, host frames and the snapshot file. Messages are
tagged with the session they were said in. `RunApprovals` is the watch over
approvals: an event pump that is busy while a grant is in flight, timeouts that
count from what the pump has seen. `Console` is two readers at one terminal.
`A2aServer` handles requests for the same task at once.

### Tools and plans: McpRegistry, McpClient, PlanTools, BuiltinTools

`McpRegistry` has the three indexes of `ToolManager` and reloads by several
callers; a reload is `BeginReload`, `Loaded` or `LoadFails` (the connection
awaits), `EndReload` or `UndoReload` (closing the old or the new one awaits).
`McpClient` models the byte stream as pieces: a line half read stays in the
buffer when its reader is cancelled, and a chunk cut inside a character is lost
and fails the request that read it. A handshake may be cancelled too. `PlanTools` has the nine tools of plan_v2
and delegations that hold a step across an await. `BuiltinTools` has files with
their line ends, what the model was last told, and commands with children.

### EventBus

`Register`, `Clear`, and emissions that overlap: `Emit` sorts what is registered
and keeps each handler in its best place; interceptors are awaited one by one,
observers run as tasks, and a wait for observers may run out of time and drop
them. Nothing else in the repository imports `events/`, and `event_bus.py:10` takes
its names from a package `framework` the repository does not hold: the module is a
model of the code as it stands, which no part of the runtime uses yet.

### Data: ModelAdapters, Configuration, AgentBuilder, KnowledgeStores, Skills, ReactLoop

These follow what becomes of data on its way through conversions: a call with its
id, name and arguments through each adapter's request and answer; a setting
through files, flags, reloads and builds; a text through five stores; a message
through compression. The answer of a query is an operator of the state.

The result of a call in `ReactLoop` is named by the id of its call or, when that has
none, by its tool. `ReactLoop` counts the tokens of a conversation as the pairs of a message and one
of its tokens, and `Dropped`, the only loop whose end depends on data, is a recursive
function of what has been dropped so far.

Most of them sort or filter lists. `Listings` says what such a list is and not how
it is computed: `InOrder(S, R)` is the set S in the order R, and `Taken(s, P)` what
the sequence s has at the places P. The lemmas of `SequenceFacts` about the two
replace the induction that a fold would ask for.

## 3. Runs

`tlc -config <cfg> <module>` with the pairs in `PROJECT.json`. Times are for two
workers.

| Run | Instance | Shows | States |
|---|---|---|---|
| `approval_calls` | three calls, two with one fingerprint from two sessions, two requests, two rules, one interrupt | type, `Books`, `Authorised`, `DecisionIsFinal`, and `ImplementsContract` (refinement) | 263,654 (42 s) |
| `approval_memory` | two calls on one request, rules of several scopes, two hand-written files with a once rule and a rule in the other scope's file, a poller, one restart | `MemoryMatchesFiles`, `OnceSpentOnce`, `NoLostWakeup`; `DecisionDelivered` under fairness | 300,884 (59 s) |
| `approval_latewait` | two calls | *violated* `WaitsForDecision`, section 6 | |
| `transport_restart` | queues of one, two starts, three scenes, below | type, `ReplyOnce`, `HonestAnswers`, `HostsInControl`; `QueuesServed`, `StopsReturn` under fairness | 204,102 (150 s) |
| `transport_race` | three prompts, two hosts | *violated* `InterruptReaches`, section 6 | |
| `loops_runs` | two runs over one memory and budget, model-driven without a planner, two attempts, two turns | type, `DroppedLeavesNoTrace`, `CallsAnswered`, `HostHeard`, `KeepsContract` (refinement) | 717,188 (14 s) |
| `loops_steps` | two milestones, step-driven, two plan attempts, done predicates tried twice | `AuditTrail`, `BudgetBound`, `SessionHonest`, `RunEnds` under fairness | 799,120 (41 s) |
| `loops_answers`, `loops_unvalidated` | one milestone | *violated* `EveryCallAnswered`, `OnlyValidPlansExecute`, section 6 | |
| `components` | twenty-one components, each in an instance of its own | eleven invariants and an action property, below | 3,702,212 (134 s) |
| `executions` | ReAct agents of four kinds; runs with approvals | `ModelSeesPairs`; `ExecutionEnds`, `NoEndlessWait` under fairness | 588,163 (159 s) |
| `approval_timeout` | a run with one host | *violated* `TimeoutDeserved`, section 6 | |

### Three scenes for the transport

Every mix of clients and hosts at once is more than TLC can hold, so
`MCTransportScenes` fixes one of three in the initial state, and clients and hosts
outside the scene stay idle. `restart`: one host starts and stops the agent twice
under two prompts and an interrupt. `rivals`: two hosts do so under a prompt and a
message that is none. `actions`: a prompt and an action of `interaction/`, whose
handler runs beside the loop. The invariants are checked in all of them;
`HostsInControl` speaks of hosts that take turns, which the history variable
`crowded` records. `QueuesServed` and `StopsReturn` are promised to a host that is
alone, and say so by naming the scene.

### Two runs for many components

`Components` is a sum: the variable `part`, fixed in the initial state, names
the component that runs, and the components share a pool of variables `v1` to
`v14`, which each instantiates as its own (`INSTANCE EventLog WITH rows <- v1,
...`); what a component does not use stays `"unused"`. The parameters of a
component are the fields of one constant of the sum, a record (`ForLog`, `ForCli`,
...), for which `MCComponents` has a small value. A property of the sum
speaks of each component under `part = ...`, so it holds exactly when it holds of
every component's own specification. `MCExecutions` is the sum again, begun only in
the two components whose properties need fairness, with the fairness of those. This
is two TLC runs instead of twenty-one, nothing else: the components in a sum do not
interact.

| Property of the sum | of | says |
|---|---|---|
| `McpTrue` | `McpRegistry`, `McpClient` | `RegistryConsistent`, `OwnAnswer`, `AnswerNotLost` |
| `CallsCleared` | `ToolGuard`, `EventBus` | `OnlyCleared`, `SpansClose`, `GatesFirst` |
| `FilesExact` | `BuiltinTools` | `EditsAreExact`, `PathsLeadBack`, `AnsweredIsOver` |
| `RecordsKept` | `EventLog`, `Checkpoints`, `ExecutionControl`, `Telemetry` | `ChainVerifies`, `AppendsLast`, `SavedIsKept`, `WaiterReachable`, `OwnAttribution` |
| `SessionTrue` | `CliSession` | `SnapshotOwnsMessages`, `ExitCodeTrue` |
| `ChannelsHonest` | `Console`, `A2aServer` | `LinesAccounted`, `NothingLost`, `OwnArtifact` |
| `PlansHeld` | `PlanTools`, `StepPlans` | `AdviceHolds`, `StepsOnTrust` |
| `ConversationWhole` | `ModelAdapters` | `ResultsKeepTheirCalls`, `TokensCharged` |
| `AsAsked` | `Configuration`, `AgentBuilder` | `FlagsWin`, `PromptAsAsked`, `ProxyAsAsked`, `ExplicitUsed`, `HooksOrdered` |
| `BestFound` | `KnowledgeStores`, `Skills` | `AnswersBest`, `ReadBack`, `NamedIsServed` |
| `StepsTrue` | `McpRegistry`, `PlanTools` | `SuccessIsTrue`, `FinishedStays` (no step ...) |
| `ModelSeesPairs` | `ReactLoop` | `ModelSeesPairs`, `ToolsAfterManage` |
| `ExecutionEnds`, `NoEndlessWait` | `ReactLoop`, `RunApprovals` | an execution is over again and again; a task with a limit on waits is settled |

### Bounds

Queues of one are full and empty after one message, so blocking, parking and
draining all happen; two starts are enough for a loop that outlives its stop
and a second one beside it. Two calls with one fingerprint are enough for one
to take what the other needs; a third with another fingerprint and a shared
command prefix makes rules apply across requests. Two attempts of a milestone
give a snapshot over memory that already holds a kept and a dropped attempt;
the tool limit lies below the number of calls a run can make, so that it is
overdrawn. `MaxRestarts`, `MaxInterrupts`, `MaxStarts`, `MaxRuns`, `MaxGuides`
and `MaxCalls` cap what is unbounded in the code; the other bounds are its
parameters. The theorems hold for every value of them.

In the sums: two callers reload three servers' providers over two names (a
conflict needs two providers that offer one name, an overlap two callers); two
tasks share a client with three requests, so that an answer can be late for a
request of its own task and of another; two connections append three events, one
of them after a rollback; three workers wait at two checkpoints; two processes
save three checkpoints of which two are kept, so that trimming happens; two
sessions and two tasks on four front ends; three lines at the terminal, three A2A
requests for two tasks; two delegations and four proposals; two milestones, two
attempts, two plans, four setups of planner and executor; four adapters and
conversations of four messages; two builds over two configurations; five stores
with three rows and the two best; five skill directories with one id twice; two
emissions to two listeners; two overlapping runs of eight spans; five settings of
boundary and approval with four lists of hooks; four kinds of
ReAct agent, three rounds, two tasks, one guidance and a window smaller than two
large messages; and two tasks with two approval requests.

`CHECK_DEADLOCK FALSE` stands where the system may stop: all calls or requests
of the instance are over and nobody acts. In the loops and in the transport
somebody can always act, so deadlock is checked there.

Symmetry (approval: request and rule ids) permutes values nothing distinguishes,
and is used only in runs without liveness.

### Fairness

- `ToolApproval`: a call that can step does, and a notified poller looks again:
  the event loop runs ready tasks. Humans, interrupts and restarts owe nothing,
  so only a *decided* waiter is promised anything.
- `AgentTransport`: tasks that can run do; an execution or action handler
  returns in the end (action handlers have `action_timeout_seconds`, executions
  are bounded by their loops, see `RunEnds`); `wait_for` timers fire. Clients
  and hosts owe nothing. `QueuesServed` therefore has the host's stop as an
  alternative.
- `DareLoops`: `WF(at # "idle" /\ Work)`, the one task is scheduled and what it
  awaits answers. `execute()` need not be called again.
- `ReactLoop`: `WF(Step)`, models and tools answer or fail.
- `RunApprovals`: the event loop runs the agent, the pump and the handler of
  frames, time passes, and the loop that waits polls. A host owes nothing, so
  `NoEndlessWait` is about tasks with a limit.

## 4. Properties

Approval. `Books`: `evaluate` deduplicates on one map, `grant` and the waiters
use the other; they agree, no late waiter takes another request's decision or
waits for one nobody can give. `Authorised` and `ImplementsContract`: a call runs
only on a matching allow rule or grant, refusals never turn into runs, one answer
settles all calls that ask the same at the moment it is given.
`MemoryMatchesFiles` excludes scopes whose last save failed, because the code
really leaves those apart, until the next start reads what is in the file. A file
may hold more than its list in memory, but only rules of another scope than its
own: once rules, which are spent in memory only, and rules whose scope names the
other file, whose revocation rewrites that one.

Transport. `ReplyOnce` and `HonestAnswers` hold however many loops race.
`HostsInControl` (the status is true, one execution runs, an interrupt reaches
it) holds as long as no host calls `start()` or `stop()` while another is inside
one: section 6 shows why. Three things carry it: `stop()`
waits for the loop it has detached, that loop ends only when the execution it
awaits is over, and a host that waits in `stop()` cannot call `start()` meanwhile.

Loops. `DroppedLeavesNoTrace` and `KeepsContract`: rollback on five different
ways out of an attempt. `KeepsContract` ties the memory to where the loops go
next: wherever the attempt counts as failed, memory is what it was when the
attempt began; wherever it was kept or broken off, everything seen lasts.
`BudgetBound`: the check precedes the charge and uses `>`, so the limit may be
overdrawn by one, and by no more over all loops, retries and runs.
`CallsAnswered` is about complete attempts: those broken off by an exception are
the subject of a finding. `HostHeard`: guidance is told once and in order, and a
signal is heeded by the execute loop: the poll comes before two awaits, so one of its
model calls may still begin. The plan loop does not poll at all, and its calls are not
counted. `SessionHonest`: success is claimed exactly when each milestone had an
attempt that was kept.

Tools. `OnlyCleared` must hold on two ways through the gates that share no code,
for every retry, whatever hooks do and however the registry changes meanwhile.
`RegistryConsistent`: the three indexes describe the same entries after failures
half way through a reload, and an entry belongs to a provider that is listed;
`SuccessIsTrue`: a reload that reports success has its tools served. After a name
clash a provider may be listed without all its tools: then only the agreement of the
indexes is checked.
`OwnAnswer` and `AnswerNotLost` of `McpClient` hold although tasks take turns at
one stream, are cancelled half way through a line, and reconnect.
`EditsAreExact`: an edit the model asked for by line numbers changes those lines
and no line end.

Records. `ChainVerifies` has the exception `~overlap`: two processes that append
at once do break the chain, as the code allows. `AppendsLast` has none.
`SavedIsKept`: the newest checkpoints survive the trim of another process, unless
the clock was set back. `WaiterReachable` has the exception `~crowded`: two tasks
at one checkpoint hide each other's event.

Sessions. `SnapshotOwnsMessages`: a snapshot never mixes two conversations, even
if a host resumes a session while a task or a preview is running.
`LinesAccounted`: a line typed at the terminal goes to one reader and has one
outcome.

Plans and data. `StepsOnTrust`: a step is judged by a risk the registry gave its
capability between the validation of the plan and the step's turn, not by the one
the planner proposed, nor by what an earlier plan was validated with, although
tools are withdrawn, registered anew with another risk, or replaced by
`update_tool` while steps wait. The tool that runs in the end may be another than the
one judged: the registry is asked again. `AdviceHolds`: what the plan's block in the prompt
tells the model to do next is what its tools accept. `ModelSeesPairs`: after any
compression a result that is named by the id of its call stands behind that call,
every call of this execution that is still there has its results behind it, and the
total is within the window. A call without an id has a result named by its tool;
the compressor pairs by ids alone, so such a result may be kept when its call is
dropped (section 6), and the property does not speak of it.

## 5. Proofs

All theorems are for every value of the constants that meets the named
assumptions. Those are as weak as the code: `InvocationAssumption` (equal
hashes mean equal parameters, the command among them), `SentinelAssumption`,
`RuleAssumption` (`from_dict` lets any scope through in either file, so nothing is
said of scopes; an id names one rule; a human cannot pick once), `AskAssumption`,
`SizeAssumption` (queues hold at least one), `ModeAssumption` (step-driven
execution requires planner and validator, which `DareAgent.__init__` enforces),
`BoundAssumption`. The components of the sum have theirs as a definition in the
proof module (`LogAssumption`, `CliParameters`, ...), which each theorem assumes:
numbers are numbers, a marker is none of the values it marks the absence of, what
is read from outside has its shape. Those that say more are

- `ConfigParameters`: argparse lets only a known prompt mode through, and no flag
  sets a proxy;
- `LibraryParameters`: directories whose skills share a name, or whose name is
  another's id, have one id, since the id is made from the name
  (`skill/_internal/`), and no disabled id is the marker of "none";
- `ChatParameters`: an answer has at most two tool calls, the bound of the model;
- `KnowledgeParameters`: similarities are integers, scaled.

`Components` states the same of the fields of its constants as assumptions, so TLC
evaluates them on the small values.

**ToolApproval_proofs.** `IInv == TypeOK /\ PendingIndexed /\ BufferFaithful /\
NobodyStranded /\ Authorised` is inductive as it stands: `Authorised` needs the
tickets of `NobodyStranded` and the fidelity of the buffer, those need the
agreement of the indexes. `DecisionsAreFinal` follows since only pending, hence
undecided, requests are decided. Three theorems have an invariant of their own on
top of it. `FilesKeepRules`: `MemoryMatchesFiles` is inductive, for rules of any
scope in either file: a save makes file and list equal, and what a step takes out
of a list it does not save is of another scope than the list's. `PollersWake`: `NoLostWakeup` is inductive given
`Books`, since the same step that makes a request pending sets the event.
`OnceRulesAreSpent`: the calls that went through on a rule of scope once, with
the lists that still hold it, never outnumber the files that listed it times the
loads of those files, because no step brings such a rule to a list or a file where no
hand-written file had put it (`OnceSaved`); it assumes a finite set of calls, as it
counts them, and that `NoRule` is none of the rules. `ApprovalIsContract` maps each step: an
evaluation to `Consult`, a decision to `Answer` for its fingerprint, an end of
waiting to a stutter, a failure or restart to `GiveUp`.

**AgentTransport_proofs.** `IInv == TypeOK /\ Untouched /\ InboxFresh /\
LoopsApart /\ RepliesHonest /\ ReplyOnce`. `ReplyOnce` alone is not inductive:
what has not been executed has not been replied to (`Untouched`), the inbox
holds each message once and untouched (`InboxFresh`), two loops never await the
same execution although they share `_in_flight_task` (`LoopsApart`), and every
envelope anywhere on its way back is honest (`RepliesHonest`). The theorem needs
no assumption on the number of hosts, so it covers the racing loops of section 6.
`HostsStayInControl` proves that `~crowded => HInv`, with `HInv == FlightTracked /\
HostPhase`: the execution that can still be cancelled is the one in
`_in_flight_task`, and the one loop that lives awaits it; and either all hosts are
idle and the agent is `Up` or `Down`, or one of them is inside `stop()`, whose two
phases (`Joining`, `Draining`) say what they leave of loop, pump and channel. A
second host that calls meanwhile breaks `HostPhase`, and sets `crowded`.

**DareLoops_proofs.** `IInv == TypeOK /\ OpenInAttempt /\ CallsLeft /\ Ledger /\
AuditTrail /\ Provenance /\ Growth`. An attempt is open exactly in its phases;
messages name attempts that were not dropped, those of a snapshot earlier ones;
memory begins with the snapshot while an attempt is open; a call is charged
before it is made. Steps are sorted into what they do to memory (still, hear,
take a snapshot, write, keep, drop), and each kind preserves the invariant.
`LoopsKeepContract` reads off the same sorting. Four parts are inductive beside it:
`Heeding` (a model call begun under the signal is the only one, and the loop is
past its poll) and `Guidance` (what is told, in memory and in the snapshot a
rollback brings back, is in order and older than what is queued) give
`HostIsHeard`; `Tally` (the attempts of this run that were kept are as many as the
milestones behind it, and a last attempt that gives up was dropped) gives
`VerdictsAreHonest`; `Replied` (results follow each request of calls except the one being
answered, which has as many as the loop has counted down) gives
`ModelSeesResults`.

**Records_proofs**, eight components that record. `LogInv == TypeOK /\ Locks /\
Appending /\ Seen /\ Replays /\ Lasting /\ Chain`: at most one connection has an
open transaction (`Locks`); the row it inserted names what it read as last
(`Appending`); rows hold distinct events that were created (`Seen`), and what a
replay returned is a piece of them (`Replays`); an append that returned is
committed (`Lasting`); and as long as no two connections were between read and
insert at once, each row names the one before it, in the file and in every
connection's view (`Chain`). `LogVerifies` and `AppendsLastForEver` are read off.
`ControlInv == TypeOK /\ WaiterReachable`: as long as no two tasks wait at one
checkpoint, the event stored there is the waiter's, and it is set exactly when the
checkpoint is pending no more. `SavesInv`: ids of saves grow with the clock, so
what a process is about to trim is older than the saves that are to be kept
(`SavesOrder`, unless the clock was set back); a cut file belongs to a save that
never returned. `TracesInv`: the hook's table of open entries names spans there
are; where runs are tasks of their own, an entry and the span it will bring back
are of one run (`TracesHook`); as many model calls are counted as spans were opened
for them. Entries that an exception leaves open are the case that makes it hard:
they stay in the table until a later phase of the same key takes them.
`ToolsInv`: what the model was told last names a file of a root there is, and by a
path from which each tool gets back to it; that an insertion and a deletion of the
same lines cancel is a lemma on sequences of lines and their ends
(`FilesAreExact`). `KnowledgeInv`: every record is what its message was turned
into, so a message can be read back; that an answer has the best of the records
follows from what sorting and cutting a list keeps (`KnowledgeSorted`,
`KnowledgeBestOf`), for the raw stores and the vector stores alike
(`AnswersStayBest`). `LibraryInv`: the store has one skill of each id and no
disabled one, and what was promised since the model was last called has the mounted
skill in it (`NamedStaysServed`). `ChatInv`: an id that was given belongs to one
place of the conversation and one call there (`ChatCalls`), results stand behind
their calls in the order of the calls (`ChatTalk`), and the calls without a result
are the last of the last answer (`ChatTodo`). That a request has all this of the
conversation, whichever adapter writes it, is what `ConversationsStayWhole` needs:
no adapter drops a named call, and what it puts in place of a missing id is never
one that was given.

**Guarded_proofs**, what stands before an effect. `GuardInv == Types /\ GatesPassed
/\ Tracing`: `GatesPassed` says for each phase, on either way, which gates this
attempt has passed and what they demanded; a retry begins with nothing cleared.
`Tracing` ties the open span and the count to the phase and the attempt.
`PlannerInv`: no id names two steps, a plan that is over has nothing pending
(`PlannerSound`), and the block in the prompt shows the plan as it is
(`PlannerShown`); a sub-agent that returns late finds its step by id or not at all.
`WorkInv`: a validated plan consists of plan tools and of steps with a risk the
registry gave them then (`WorkDraft`), results are the steps in order, all but the
last successful, each judged by a risk of `draft.since`, which is all that was
registered from the validation on (`WorkDone`); an earlier plan's listing is not in it.
`RegistryInv`: a registered tool stands under its own name and maker
(`RegistryIndexed`), a provider about to take over has every tool it offers in the
registry and is nobody else's new provider (`RegistryServed`, from which
`SuccessIsTrue` follows at once), and until a registration has raised who is listed
owns what he is the source of and is connected, also while another call awaits the
end of a provider it has taken out (`RegistryAlive`). `_sync_provider_tools`,
`register_provider`, `unregister_provider` and `refresh` have a lemma each on what
they do to any registry; the one on `refresh` goes by induction over the providers.
`BusInv` says of each emission, by where it is: the list that was sorted has each
handler once, in the mode of its best registration (`BusSettled`); between two
interceptors those called and those to be called are all there are, by rank, and no
observer has been called (`BusBetween`); at the end each handler was called, is a
task, or was dropped by a wait (`BusDone`). `GatesComeFirst` follows, while
registrations come and go and emissions overlap.

**Channels_proofs**, who talks to whom. `CliInv`: a task at work belongs to the
conversation of its process, without a background the loop waits for it
(`CliOwn`), and the flags the exit code is computed from are true (`CliExit`).
`ClientInv`: a serial belongs to one id and one task (`ClientPairs`); while
requests do not overlap (`~mixed`) the answer to the one under way is at the
server, in the pipe, in the buffer or in the inbox (`ClientAlone`). `ServerInv`:
what was read of the stream decides what was yielded (`ServerStream`), an answer
names files its own run left (`ServerAnswers`). `TerminalInv`: nobody waits twice,
and the prompt does not wait while a line is being sent (`TerminalReaders`), which
`LinesAccounted` needs. `ConfigInv`: the runtime's configuration is the provider's
under the flags (`ConfigAbove`), and the agent was built from such a one and is made
of it (`ConfigAgent`); a reload that replaces the provider's configuration puts the
flags over it again, and one that fails leaves all of it (`FlagsStayAbove`).
`BuilderInv`: every agent has the parts, tools and hooks it was asked for
(`BuilderMade`), and what the program has put into a registry is registered as its
own and enabled (`BuilderTrusted`), which is what later builds of the same builder
must respect; the hooks of a build are finitely many, one of each name, in the order
of source and priority (`BuilderInTurn`), which needs the lemmas on `InOrder`
(`BuiltAsAsked`).

The last part is about `ReactLoop` and `RunApprovals`. `ReactInv == ReactBase /\
ReactBooked`. `ReactBase` has five parts: types, rounds, `ReactSound` (in the memory and in what the compressor kept each result that is named by its call
is behind it; the guidance in the memory and in the queue is no more
than was given; what is kept fits the window), `ReactCalls` (the message whose calls
are being answered is still there) and `ReactManaged`. The work is in what
compression does: `ReactChunk` and `ReactDropped` show that the cuts advance, so that
the recursive function exists and stops where the window is met or one chunk is left,
which is where finite induction over the length of the conversation enters, by the
least counterexample; `ReactKept` shows that what is kept has lost the results of the
calls that were dropped and so is in pairs again, and `ReactOrdered` that the order
of the smart memory keeps the pairs and adds no guidance. `ReactBooked` is the other
half of the pairing, from the call to its results: `ReactBooks` says that no two
messages of calls are of the same round, that calls of earlier rounds have all their
results behind them, and those of the round at work as many as the loop has
counted down. The first clause is what keeps the second over a compression
(`ReactKeptBooks`): a dropped message takes only the results of its own round.
`WaitInv` types the waiting
run and counts its tasks. The parameters are assumed as `LoopParameters` and
`WaitParameters`.

**Components_proofs.** Each component of the sum is the module that was proved
about, under another name for its variables. The module takes the three proof
modules as instances, `Gates`, `Talks` and `Records`. For each component one lemma
says that the two readings agree (`LogSame`, `CliSame`, ...), and another that its
parameters meet what was assumed, that its initial states are in the inductive
invariant, that its steps keep it, and which properties follow (`LogPart`,
`CliPart`, ...). `PartsInv` puts the twenty-one invariants together, each under its
`part = ...`; it is inductive for the sum (`PartsStart`, `PartsStep`), and every
theorem is read off: `TypesStay`, `RecordsStay`, `SessionsTrue`,
`ChannelsStayHonest`, `PlansStayHeld`, `McpStaysTrue`, `CallsStayCleared`,
`FilesStayExact`, `AgentsAreAsAsked`, `BestStaysFound`, `ConversationsAreWhole`
and `PairsStaySeen` are `Spec => []...` of the composed specification, and `StepsStayTrue` is
`Spec => [][...]_vars`, for every value of its constants. So all properties of the
run `components` are proved, and the invariants of `executions`.

Only model-checked: everything under fairness (`DecisionDelivered`,
`QueuesServed`, `StopsReturn`, `RunEnds`, `ExecutionEnds`, `NoEndlessWait`),
which is out of the prover's reach. Every invariant and every action property that a
passing run checks is a theorem.

## 6. Where code and documents disagree

Each has a run whose counterexample is the story.

- **A grant ends in an error** (`approval_latewait`). Two calls share a pending
  request. The first waits, the human grants, the first takes the buffered
  decision; the second, still announcing, finds neither request nor decision,
  and `wait_for_resolution` raises `KeyError`. `core-runtime/spec.md:202`
  promises that it waits for a decision.
- **An interrupt misses the execution** (`transport_race`). `start()` during a
  `stop()` leaves a second loop behind; the loops share `_in_flight_task`, and
  one clears what the other needs. `interaction-dispatch/spec.md:79` says the
  interrupt must cancel the current execution.
- **A call without a result** (`loops_answers`). The assistant message with its
  calls enters memory before they run, an exception leaves it there, and the
  next run sends it to the model. `chat-runtime/spec.md:11`.
- **An invalid plan is executed** (`loops_unvalidated`). Model-driven execution
  does not look at whether the plan passed. `Architecture.md:271`.
- **A granted task times out** (`approval_timeout`). The gateway announces a
  request and never its decision; the watch of `run` counts on after a host has
  granted, and ends a task whose tool is at work.
  `Tool_Approval_Memory.md:136`, `interaction-dispatch/spec.md:162`.

Others met on the way, without a run of their own:

- sessions that wait on a granted-then-forgotten request are still tracked as
  blocked; an envelope parked in `outbox.put` during `channel.stop()` is
  delivered in the next session although pending output is to be dropped;
- guidance taken into memory by an attempt that is rolled back is lost
  (`context.py:213`); overspending ends the session loop without an error when it
  is noticed inside a step (`DARE_Formal_Design.md:289`); a plan tool's attempt
  leaves evidence besides its reflection (`core-runtime/spec.md:65`);
- `knowledge_get` shows no content: it reads an attribute that messages do not have
  (`knowledge_tools.py:27`);
- the reflection that is "to guide the next planning attempt" (`plan/interfaces.py:92`)
  is kept and counted, and no planner is told it;
- `skill` promises that its instructions "will be in context for the next LLM call";
  of two skills loaded in one turn only the last is (`dare_agent.py:1352`);
- an answer typed while the stdio client waits at the same terminal goes to
  whoever waited first;
- the result of a call without an id is named by its tool (`react_agent.py:528`), and
  `_move_tool_results_whose_calls_are_dropped` matches ids only: such a result can
  stay when its call is dropped, which the docstring of the module rules out
  (`moving_compression.py:9`); the checks that would notice,
  `_enforce_tool_pair_safety`, are called nowhere;
- a rule whose scope names another file than it was read from (`from_dict` lets it
  in) leaves memory when it is revoked and stays in its file, so the next start has
  it again (`approval_manager.py:415`, `:504`);
- a `connect()` of the MCP client that is cancelled leaves its transport open:
  `except Exception` does not catch a cancellation (`client.py:141`);
- compression does not look at the mark of a message, so one that is to be kept
  over rounds can be cut (`context/types.py:21`);
- on the event bus a handler registered both as interceptor and as observer is
  called only as what ranks first, and a wait for observers that times out
  cancels them.

## 7. Not modelled

`PROJECT.json` says for each component what is left out. In short: two processes
on one user rule file; events sent during an execution, `DirectClientChannel.poll`,
the websocket client, handlers not wired at start, cancellation of `ask()`; two
`execute()` calls at once, resuming a persisted session state; the contents of
prompts, summaries and rendered output; vendor APIs, agent cards and discovery;
`agent/__react_agent_smart.py`, which nothing imports; and the programs under
`examples/`, which are users of the library.

## 8. Plan

Done: every component of the inventory has a module; approval,
transport, loops and all twenty-one components of the sum have proofs of their
invariants.

Left: a composition of `ToolGuard` with `ToolApproval` in
place of its approval gate; two processes over one user rule file.
