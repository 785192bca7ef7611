----------------------------- MODULE Components -----------------------------
(***************************************************************************)
(* The components that stand by themselves, as one system: a behaviour is  *)
(* one of one component, which "part" names.  Its variables stand in a     *)
(* pool that the components share; a component with fewer leaves the rest  *)
(* of the pool alone.  A property is about the component it names, so it   *)
(* holds when it holds in every component.  The parameters of a component  *)
(* are the fields of one constant, a record with its constants' names.     *)
(***************************************************************************)
EXTENDS Integers, Sequences

CONSTANTS
    ForRegistry, ForClient, ForGuard, ForTools, ForLog, ForControl, ForSaves, ForCli,
    ForTerminal, ForServer, ForPlanner, ForSteps, ForAdapters, ForConfig, ForBuilder,
    ForKnowledge, ForLibrary, ForBus, ForTraces, ForLoop, ForApprovals

VARIABLES
    part,   \* the component that runs; fixed per behaviour
    v1, v2, v3, v4, v5, v6, v7, v8, v9, v10, v11, v12, v13, v14

vars == <<part, v1, v2, v3, v4, v5, v6, v7, v8, v9, v10, v11, v12, v13, v14>>

-----------------------------------------------------------------------------
Registry == INSTANCE McpRegistry WITH
    tm <- v1, offers <- v2, live <- v3, current <- v4, op <- v5, clash <- v6,
    Names <- ForRegistry.Names, Remote <- ForRegistry.Remote, Local <- ForRegistry.Local,
    MCPs <- ForRegistry.MCPs, Plugin <- ForRegistry.Plugin,
    Callers <- ForRegistry.Callers, Remembered <- ForRegistry.Remembered

Client == INSTANCE McpClient WITH
    kind <- v1, wire <- v2, lastId <- v3, serial <- v4, rpc <- v5, asked <- v6,
    notices <- v7, pipe <- v8, buffer <- v9, inbox <- v10, stream <- v11, mixed <- v12,
    Tasks <- ForClient.Tasks, Kinds <- ForClient.Kinds,
    MaxRequests <- ForClient.MaxRequests, MaxNotices <- ForClient.MaxNotices

Guard == INSTANCE ToolGuard WITH
    config <- v1, registry <- v2, call <- v3, cleared <- v4, trace <- v5,
    Configs <- ForGuard.Configs, HookRuns <- ForGuard.HookRuns,
    MaxAttempts <- ForGuard.MaxAttempts

Tools == INSTANCE BuiltinTools WITH
    roots <- v1, disk <- v2, debris <- v3, told <- v4, command <- v5,
    Names <- ForTools.Names, Texts <- ForTools.Texts, Saved <- ForTools.Saved,
    MaxLines <- ForTools.MaxLines, MaxRoots <- ForTools.MaxRoots

Log == INSTANCE EventLog WITH
    rows <- v1, open <- v2, step <- v3, mine <- v4, created <- v5, returned <- v6,
    verdict <- v7, replayed <- v8, overlap <- v9, Connections <- ForLog.Connections,
    MaxEvents <- ForLog.MaxEvents

Control == INSTANCE ExecutionControl WITH
    inFile <- v1, signal <- v2, made <- v3, resumed <- v4, pending <- v5, events <- v6,
    wait <- v7, crowded <- v8, Workers <- ForControl.Workers,
    MaxCheckpoints <- ForControl.MaxCheckpoints

Saves == INSTANCE Checkpoints WITH
    backend <- v1, clock <- v2, setBack <- v3, used <- v4, store <- v5, stm <- v6,
    idx <- v7, job <- v8, legacy <- v9, saved <- v10, erased <- v11,
    Processes <- ForSaves.Processes, Backends <- ForSaves.Backends, Kept <- ForSaves.Kept,
    MaxSaves <- ForSaves.MaxSaves, Memories <- ForSaves.Memories

Cli == INSTANCE CliSession WITH
    front <- v1, loop <- v2, shell <- v3, active <- v4, talk <- v5, files <- v6,
    order <- v7, watch <- v8, feed <- v9, entered <- v10, rc <- v11, wrong <- v12,
    ran <- v13, kept <- v14, Fronts <- ForCli.Fronts, Sessions <- ForCli.Sessions,
    MaxTasks <- ForCli.MaxTasks

Terminal == INSTANCE Console WITH
    typed <- v1, readers <- v2, sending <- v3, inbox <- v4, turn <- v5, questions <- v6,
    pending <- v7, outcomes <- v8, Lines <- ForTerminal.Lines,
    Questions <- ForTerminal.Questions, Handled <- ForTerminal.Handled,
    MaxLines <- ForTerminal.MaxLines, MaxInbox <- ForTerminal.MaxInbox

Server == INSTANCE A2aServer WITH
    serving <- v1, request <- v2, answer <- v3, tasks <- v4, served <- v5, stream <- v6,
    outputs <- v7, Requests <- ForServer.Requests, Subscriber <- ForServer.Subscriber,
    TaskIds <- ForServer.TaskIds, Inputs <- ForServer.Inputs, Outputs <- ForServer.Outputs

Planner == INSTANCE PlanTools WITH
    plan <- v1, goals <- v2, delegation <- v3, Delegations <- ForPlanner.Delegations,
    Milestones <- ForPlanner.Milestones, Proposals <- ForPlanner.Proposals

Steps == INSTANCE StepPlans WITH
    setup <- v1, listed <- v2, milestone <- v3, history <- v4, draft <- v5, results <- v6,
    stage <- v7, Setups <- ForSteps.Setups, Capabilities <- ForSteps.Capabilities,
    Proposals <- ForSteps.Proposals, Messages <- ForSteps.Messages,
    Milestones <- ForSteps.Milestones, MaxAttempts <- ForSteps.MaxAttempts,
    MaxPlans <- ForSteps.MaxPlans

Adapters == INSTANCE ModelAdapters WITH
    adapter <- v1, talk <- v2, todo <- v3, request <- v4, bill <- v5,
    Adapters <- ForAdapters.Adapters, Answers <- ForAdapters.Answers,
    MaxTalk <- ForAdapters.MaxTalk

Config == INSTANCE Configuration WITH
    user <- v1, workspace <- v2, options <- v3, provider <- v4, runtime <- v5,
    agent <- v6, UserFiles <- ForConfig.UserFiles,
    WorkspaceFiles <- ForConfig.WorkspaceFiles, Options <- ForConfig.Options,
    Directory <- ForConfig.Directory

Builder == INSTANCE AgentBuilder WITH
    builder <- v1, source <- v2, registries <- v3, builds <- v4,
    Kinds <- ForBuilder.Kinds, Configs <- ForBuilder.Configs,
    ServerTools <- ForBuilder.ServerTools, OwnTools <- ForBuilder.OwnTools,
    ManagedHooks <- ForBuilder.ManagedHooks, OwnHooks <- ForBuilder.OwnHooks,
    Slots <- ForBuilder.Slots, MaxBuilds <- ForBuilder.MaxBuilds,
    MaxTools <- ForBuilder.MaxTools

Knowledge == INSTANCE KnowledgeStores WITH
    store <- v1, rows <- v2, embedder <- v3, Stores <- ForKnowledge.Stores,
    Fronts <- ForKnowledge.Fronts, Texts <- ForKnowledge.Texts,
    Similar <- ForKnowledge.Similar, Models <- ForKnowledge.Models,
    MaxRows <- ForKnowledge.MaxRows, MaxTop <- ForKnowledge.MaxTop

Library == INSTANCE Skills WITH
    disk <- v1, setup <- v2, skills <- v3, loads <- v4, catalogue <- v5, mounted <- v6,
    told <- v7, Dirs <- ForLibrary.Dirs, Queries <- ForLibrary.Queries,
    Disabled <- ForLibrary.Disabled, MaxLoads <- ForLibrary.MaxLoads

Bus == INSTANCE EventBus WITH
    listeners <- v1, emission <- v2, tasks <- v3, waiting <- v4, calls <- v5,
    dropped <- v6, Registrations <- ForBus.Registrations, Events <- ForBus.Events,
    Emits <- ForBus.Emits, MaxListeners <- ForBus.MaxListeners

Traces == INSTANCE Telemetry WITH
    separate <- v1, runNo <- v2, path <- v3, iteration <- v4, hook <- v5, capture <- v6,
    Separate <- ForTraces.Separate, MaxRuns <- ForTraces.MaxRuns,
    MaxSpans <- ForTraces.MaxSpans

Loop == INSTANCE ReactLoop WITH
    kind <- v1, stm <- v2, queue <- v3, given <- v4, phase <- v5, run <- v6, kept <- v7,
    fresh <- v8, AgentKinds <- ForLoop.AgentKinds, MaxRounds <- ForLoop.MaxRounds,
    MaxTasks <- ForLoop.MaxTasks, MaxGuidance <- ForLoop.MaxGuidance,
    Sizes <- ForLoop.Sizes, Window <- ForLoop.Window, MaxCalls <- ForLoop.MaxCalls

Approvals == INSTANCE RunApprovals WITH
    limits <- v1, tasks <- v2, stage <- v3, asked <- v4, safe <- v5, open <- v6,
    mail <- v7, frames <- v8, granting <- v9, attempted <- v10, watch <- v11,
    shown <- v12, ended <- v13, MaxTasks <- ForApprovals.MaxTasks,
    MaxRequests <- ForApprovals.MaxRequests

-----------------------------------------------------------------------------
\* What the components take for granted of their parameters.
ASSUME RegistryAssumption ==
    /\ ForRegistry.MCPs # {} /\ ForRegistry.Plugin \notin ForRegistry.MCPs
    /\ {Registry!None, Registry!Direct} \intersect (ForRegistry.MCPs \union {ForRegistry.Plugin}) = {}
    /\ ForRegistry.Names \subseteq Nat /\ ForRegistry.Remote \subseteq SUBSET ForRegistry.Names
    /\ ForRegistry.Local \subseteq ForRegistry.Names /\ ForRegistry.Remembered \subseteq BOOLEAN
ASSUME ClientAssumption ==
    /\ ForClient.Kinds \subseteq {"stdio", "http"}
    /\ ForClient.MaxRequests \in Nat /\ ForClient.MaxNotices \in Nat
ASSUME GuardAssumption ==
    /\ ForGuard.Configs \subseteq
          [boundary : {"noop", "policy"}, denied : BOOLEAN, deny : SUBSET Guard!Risks,
           approve : SUBSET Guard!Risks, default : {"allow", "approve", "deny"},
           strict : BOOLEAN, manager : BOOLEAN, enforce : BOOLEAN, retries : BOOLEAN]
    /\ ForGuard.HookRuns \subseteq Seq(Guard!HookOutcomes)
    /\ ForGuard.MaxAttempts \in Nat \ {0}
ASSUME ToolsAssumption ==
    /\ ForTools.MaxLines \in Nat /\ ForTools.MaxRoots \in Nat \ {0}
    /\ ForTools.Saved \subseteq Tools!Files
ASSUME LogAssumption == ForLog.MaxEvents \in Nat
ASSUME ControlAssumption ==
    Control!NoWorker \notin ForControl.Workers /\ ForControl.MaxCheckpoints \in Nat
ASSUME SavesAssumption ==
    /\ ForSaves.Backends \subseteq {"memory", "file"}
    /\ ForSaves.Kept \in Nat /\ ForSaves.MaxSaves \in Nat
    /\ ForSaves.Memories \subseteq Nat /\ ForSaves.Processes # {}
    /\ \E m \in ForSaves.Memories : \A n \in ForSaves.Memories : m <= n
ASSUME CliAssumption ==
    /\ ForCli.Fronts \subseteq {"chat", "inline", "script", "run"}
    /\ {Cli!Nobody, "latest"} \intersect ForCli.Sessions = {}
    /\ ForCli.MaxTasks \in Nat
ASSUME TerminalAssumption ==
    /\ \A line \in ForTerminal.Lines : /\ line.form \in {"blank", "quit", "plain", "slash"}
                                       /\ line.split \in BOOLEAN
                                       /\ line.picks \in Seq(Nat)
    /\ \A qs \in ForTerminal.Questions :
          qs \in Seq([options : 0..4, multi : BOOLEAN]) /\ qs # <<>>
    /\ ForTerminal.MaxLines \in Nat /\ ForTerminal.MaxInbox \in Nat
ASSUME ServerAssumption ==
    ForServer.TaskIds # {} /\ ForServer.Outputs \subseteq SUBSET Server!Files
ASSUME PlannerAssumption ==
    /\ \A p \in ForPlanner.Proposals : p \in Seq(Planner!Ids \union {Planner!NoId})
    /\ "none" \notin Planner!Ids
ASSUME StepsAssumption ==
    /\ ForSteps.Setups \subseteq
          [planner : {"default", "custom"}, stepDriven : BOOLEAN,
           executor : {"tool loop", "own"}, second : BOOLEAN]
    /\ \A c \in ForSteps.Capabilities :
          c.risk \in Nat /\ c.planTool \in BOOLEAN /\ c.fixed \in BOOLEAN
    /\ \A p \in ForSteps.Proposals : Len(p) \in Nat /\ DOMAIN p = 1..Len(p)
    /\ ForSteps.Milestones \in Nat \ {0}
    /\ ForSteps.MaxAttempts \in Nat /\ ForSteps.MaxPlans \in Nat
ASSUME AdaptersAssumption ==
    /\ ForAdapters.Adapters \subseteq {"anthropic", "openai", "openrouter", "huawei-modelarts"}
    /\ \A raw \in ForAdapters.Answers : raw \in Seq(Adapters!RawCall) /\ Len(raw) <= 2
    /\ ForAdapters.MaxTalk \in Nat
ASSUME ConfigAssumption ==
    /\ ForConfig.UserFiles \union ForConfig.WorkspaceFiles
          \subseteq {c \in Config!Configs :
                        c.set["mode"] \in {Config!Unset, "replace", "append", "wrong"}}
                    \union {Config!Broken}
    /\ ForConfig.Options \subseteq
          {o \in [Config!Keys -> Config!Values] :
              /\ o["mode"] \in {Config!Unset, "replace", "append"}
              /\ o["content"] \in {Config!Unset, "flag"} /\ o["path"] \in {Config!Unset, "flag"}
              /\ \A k \in {"proxy.disabled", "proxy.system", "proxy.http"} : o[k] = Config!Unset}
ASSUME BuilderAssumption ==
    /\ Len(ForBuilder.Configs) \in Nat \ {0}
    /\ DOMAIN ForBuilder.Configs = 1..Len(ForBuilder.Configs)
    /\ ForBuilder.ServerTools
          \in Seq({ForBuilder.ServerTools[i] : i \in DOMAIN ForBuilder.ServerTools})
    /\ ForBuilder.ManagedHooks
          \in Seq({ForBuilder.ManagedHooks[i] : i \in DOMAIN ForBuilder.ManagedHooks})
    /\ \A c \in DOMAIN ForBuilder.Configs :
          \A h \in {ForBuilder.ManagedHooks[i] : i \in DOMAIN ForBuilder.ManagedHooks}
                    \union ForBuilder.OwnHooks \union {"agent_event_transport"} :
              ForBuilder.Configs[c].priority[h] \in Int
ASSUME KnowledgeAssumption ==
    /\ ForKnowledge.Stores \subseteq Knowledge!Raw \union Knowledge!Vector
    /\ \A q \in ForKnowledge.Texts \ {Knowledge!NoText},
          t \in ForKnowledge.Texts \union {Knowledge!Blank} : ForKnowledge.Similar[q][t] \in Int
    /\ ForKnowledge.MaxRows \in Nat /\ ForKnowledge.MaxTop \in Nat
ASSUME LibraryAssumption ==
    /\ Library!IsFiniteSet(ForLibrary.Dirs)
    /\ \A d, e \in ForLibrary.Dirs : d.name = e.name \/ d.id = e.name => d.id = e.id
    /\ \A d \in ForLibrary.Dirs : \A q \in DOMAIN d.score : d.score[q] \in Nat
    /\ "none" \notin ForLibrary.Disabled
    /\ ForLibrary.MaxLoads \in Nat \ {0}
ASSUME BusAssumption ==
    /\ \A r \in ForBus.Registrations : r.mode \in Bus!Modes /\ r.priority \in Int
    /\ \A e \in ForBus.Events : e.phase \in {"before", "after"}
ASSUME TracesAssumption ==
    /\ ForTraces.Separate \subseteq BOOLEAN
    /\ ForTraces.MaxRuns \in Nat /\ ForTraces.MaxSpans \in Nat
ASSUME LoopAssumption ==
    /\ ForLoop.AgentKinds \subseteq {"chat", "basic", "smart", "managed"}
    /\ ForLoop.MaxRounds \in Nat /\ ForLoop.MaxTasks \in Nat /\ ForLoop.MaxGuidance \in Nat
    /\ ForLoop.Sizes \subseteq Nat /\ ForLoop.Window \in Nat /\ ForLoop.MaxCalls \in Nat
ASSUME ApprovalsAssumption ==
    ForApprovals.MaxTasks \in Nat /\ ForApprovals.MaxRequests \in Nat

-----------------------------------------------------------------------------
Unused == "unused"

\* A component of k variables leaves the others of the pool alone.
Blank13 == v14 = Unused
Blank12 == v13 = Unused /\ Blank13
Blank11 == v12 = Unused /\ Blank12
Blank9 == v10 = Unused /\ v11 = Unused /\ Blank11
Blank8 == v9 = Unused /\ Blank9
Blank7 == v8 = Unused /\ Blank8
Blank6 == v7 = Unused /\ Blank7
Blank5 == v6 = Unused /\ Blank6
Blank4 == v5 = Unused /\ Blank5
Blank3 == v4 = Unused /\ Blank4
Rest13 == <<v14>>
Rest12 == <<v13, Rest13>>
Rest11 == <<v12, Rest12>>
Rest9 == <<v10, v11, Rest11>>
Rest8 == <<v9, Rest9>>
Rest7 == <<v8, Rest8>>
Rest6 == <<v7, Rest7>>
Rest5 == <<v6, Rest6>>
Rest4 == <<v5, Rest5>>
Rest3 == <<v4, Rest4>>

Init ==
    \/ part = "registry" /\ Registry!Init /\ Blank6
    \/ part = "client" /\ Client!Init /\ Blank12
    \/ part = "guard" /\ Guard!Init /\ Blank5
    \/ part = "tools" /\ Tools!Init /\ Blank5
    \/ part = "log" /\ Log!Init /\ Blank9
    \/ part = "control" /\ Control!Init /\ Blank8
    \/ part = "checkpoints" /\ Saves!Init /\ Blank11
    \/ part = "cli" /\ Cli!Init
    \/ part = "console" /\ Terminal!Init /\ Blank8
    \/ part = "a2a" /\ Server!Init /\ Blank7
    \/ part = "planner" /\ Planner!Init /\ Blank3
    \/ part = "steps" /\ Steps!Init /\ Blank7
    \/ part = "adapters" /\ Adapters!Init /\ Blank5
    \/ part = "config" /\ Config!Init /\ Blank6
    \/ part = "builder" /\ Builder!Init /\ Blank4
    \/ part = "knowledge" /\ Knowledge!Init /\ Blank3
    \/ part = "skills" /\ Library!Init /\ Blank7
    \/ part = "bus" /\ Bus!Init /\ Blank6
    \/ part = "traces" /\ Traces!Init /\ Blank6
    \/ part = "loop" /\ Loop!Init /\ Blank8
    \/ part = "approvals" /\ Approvals!Init /\ Blank13

Next ==
    \/ part = "registry" /\ Registry!Next /\ UNCHANGED <<part, Rest6>>
    \/ part = "client" /\ Client!Next /\ UNCHANGED <<part, Rest12>>
    \/ part = "guard" /\ Guard!Next /\ UNCHANGED <<part, Rest5>>
    \/ part = "tools" /\ Tools!Next /\ UNCHANGED <<part, Rest5>>
    \/ part = "log" /\ Log!Next /\ UNCHANGED <<part, Rest9>>
    \/ part = "control" /\ Control!Next /\ UNCHANGED <<part, Rest8>>
    \/ part = "checkpoints" /\ Saves!Next /\ UNCHANGED <<part, Rest11>>
    \/ part = "cli" /\ Cli!Next /\ UNCHANGED part
    \/ part = "console" /\ Terminal!Next /\ UNCHANGED <<part, Rest8>>
    \/ part = "a2a" /\ Server!Next /\ UNCHANGED <<part, Rest7>>
    \/ part = "planner" /\ Planner!Next /\ UNCHANGED <<part, Rest3>>
    \/ part = "steps" /\ Steps!Next /\ UNCHANGED <<part, Rest7>>
    \/ part = "adapters" /\ Adapters!Next /\ UNCHANGED <<part, Rest5>>
    \/ part = "config" /\ Config!Next /\ UNCHANGED <<part, Rest6>>
    \/ part = "builder" /\ Builder!Next /\ UNCHANGED <<part, Rest4>>
    \/ part = "knowledge" /\ Knowledge!Next /\ UNCHANGED <<part, Rest3>>
    \/ part = "skills" /\ Library!Next /\ UNCHANGED <<part, Rest7>>
    \/ part = "bus" /\ Bus!Next /\ UNCHANGED <<part, Rest6>>
    \/ part = "traces" /\ Traces!Next /\ UNCHANGED <<part, Rest6>>
    \/ part = "loop" /\ Loop!Next /\ UNCHANGED <<part, Rest8>>
    \/ part = "approvals" /\ Approvals!Next /\ UNCHANGED <<part, Rest13>>

Spec == Init /\ [][Next]_vars

-----------------------------------------------------------------------------
TypeOK ==
    /\ part = "registry" => Registry!TypeOK
    /\ part = "client" => Client!TypeOK
    /\ part = "guard" => Guard!TypeOK
    /\ part = "tools" => Tools!TypeOK
    /\ part = "log" => Log!TypeOK
    /\ part = "control" => Control!TypeOK
    /\ part = "checkpoints" => Saves!TypeOK
    /\ part = "cli" => Cli!TypeOK
    /\ part = "console" => Terminal!TypeOK
    /\ part = "a2a" => Server!TypeOK
    /\ part = "planner" => Planner!TypeOK
    /\ part = "steps" => Steps!TypeOK
    /\ part = "adapters" => Adapters!TypeOK
    /\ part = "config" => Config!TypeOK
    /\ part = "builder" => Builder!TypeOK
    /\ part = "knowledge" => Knowledge!TypeOK
    /\ part = "skills" => Library!TypeOK
    /\ part = "bus" => Bus!TypeOK
    /\ part = "traces" => Traces!TypeOK
    /\ part = "loop" => Loop!TypeOK
    /\ part = "approvals" => Approvals!TypeOK

\* MCP: the registry and the listings of tools agree, a request gets the answer
\* to itself, and an answer that arrived is not lost.
McpTrue ==
    /\ part = "registry" => Registry!RegistryConsistent
    /\ part = "client" => Client!OwnAnswer /\ Client!AnswerNotLost

\* A tool runs only when everything that guards it has cleared this attempt, and
\* every span of a call that began is ended; on the event bus interceptors come
\* before observers.
CallsCleared ==
    /\ part = "guard" => Guard!OnlyCleared /\ Guard!SpansClose
    /\ part = "bus" => Bus!GatesFirst

\* Edits change what they were asked to change, a path in an answer leads back
\* to its file, and an answered command is over.
FilesExact ==
    part = "tools" => Tools!EditsAreExact /\ Tools!PathsLeadBack /\ Tools!AnsweredIsOver

\* What was recorded stays recorded: the chain of the event log verifies and an
\* event whose append returned is in it, a saved checkpoint is kept, who waits at
\* a checkpoint can be released, and spans and counts belong to their run.
RecordsKept ==
    /\ part = "log" => Log!ChainVerifies /\ Log!AppendsLast
    /\ part = "checkpoints" => Saves!SavedIsKept
    /\ part = "control" => Control!WaiterReachable
    /\ part = "traces" => Traces!OwnAttribution

\* Snapshots hold one conversation, and the exit code says what happened.
SessionTrue ==
    part = "cli" => Cli!SnapshotOwnsMessages /\ Cli!ExitCodeTrue

\* Whoever asks through a channel, the terminal or the A2A server gets one
\* answer, his own, and nothing of what he sent is lost on the way.
ChannelsHonest ==
    /\ part = "console" => Terminal!LinesAccounted
    /\ part = "a2a" => Server!NothingLost /\ Server!OwnArtifact

\* The advice of the planner holds, and validated steps run on trust that comes
\* from the registry.
PlansHeld ==
    /\ part = "planner" => Planner!AdviceHolds
    /\ part = "steps" => Steps!StepsOnTrust

\* Conversations go to the models whole and their tokens are charged.
ConversationWhole ==
    part = "adapters" => Adapters!ResultsKeepTheirCalls /\ Adapters!TokensCharged

\* The agent that is built is the one that the flags, files and the program ask for.
AsAsked ==
    /\ part = "config" => Config!FlagsWin /\ Config!PromptAsAsked /\ Config!ProxyAsAsked
    /\ part = "builder" => Builder!ExplicitUsed /\ Builder!HooksOrdered

\* A query, or a skill asked for by name, gets the best match there is, and
\* a memory what was put into it.
BestFound ==
    /\ part = "knowledge" => Knowledge!AnswersBest /\ Knowledge!ReadBack
    /\ part = "skills" => Library!NamedIsServed

\* The model is shown results behind their calls, within the window, and with
\* manage_context no other tool runs before it.
ModelSeesPairs == part = "loop" => Loop!ModelSeesPairs /\ Loop!ToolsAfterManage

\* No step lets a reload report success with tools missing, or opens what a plan
\* has finished.
StepsTrue ==
    [][ /\ part = "registry" => Registry!SuccessIsTrue
        /\ part = "planner" => Planner!FinishedStays ]_vars
=============================================================================
