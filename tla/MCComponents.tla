---------------------------- MODULE MCComponents ----------------------------
(* Small instances of the components, for TLC.                              *)
EXTENDS Components, FiniteSets, SequencesExt, TLC

\* ToolGuard: no boundary; a policy that asks for what has effects, denies it
\* (two settings), one that denies the capability, and one that asks for what no
\* setting names.
Guarding(boundary, denied, deny, ask, default, strict, manager, enforce, retries) ==
    [boundary |-> boundary, denied |-> denied, deny |-> deny, approve |-> ask,
     default |-> default, strict |-> strict, manager |-> manager, enforce |-> enforce,
     retries |-> retries]
GuardConfigs ==
    {Guarding("noop", FALSE, {}, {}, "allow", FALSE, TRUE, TRUE, FALSE),
     Guarding("policy", FALSE, {"effect"}, {}, "allow", TRUE, FALSE, TRUE, FALSE),
     Guarding("policy", FALSE, {}, {"effect"}, "allow", FALSE, TRUE, TRUE, TRUE),
     Guarding("policy", FALSE, {}, {"effect"}, "deny", FALSE, FALSE, FALSE, FALSE),
     Guarding("policy", FALSE, {}, {}, "approve", FALSE, TRUE, TRUE, FALSE),
     Guarding("policy", TRUE, {}, {}, "allow", FALSE, TRUE, FALSE, FALSE)}
Hook(outcome) == <<outcome, "allow">>
GuardHooks == {<<>>, <<Hook("block"), Hook("allow")>>, <<Hook("ask"), Hook("timeout")>>,
               <<Hook("raise"), <<"raise", "block">>>>}

\* BuiltinTools: one unterminated line, and two with CRLF ends.
File(lines, ends, open) == [is |-> "file", lines |-> lines, ends |-> ends, open |-> open]
ToolFiles == {File(<<"y">>, "lf", TRUE), File(<<"x", "y">>, "crlf", FALSE)}

\* Console: plain lines with the answers they would be, and the commands.
Typed(form, head, split, words, given, picks) ==
    [form |-> form, head |-> head, split |-> split, words |-> words,
     given |-> given, picks |-> picks]
Plain(picks) == Typed("plain", "", FALSE, <<>>, {}, picks)
Slash(head, split, words, given) == Typed("slash", head, split, words, given, <<>>)
TypedLines ==
    {Plain(<<>>), Plain(<<1>>), Plain(<<1, 2>>),
     Typed("blank", "", FALSE, <<>>, {}, <<>>), Typed("quit", "", FALSE, <<>>, {}, <<>>),
     Slash("", FALSE, <<>>, {}), Slash("interrupt", FALSE, <<>>, {}),
     Slash("approvals:grant", TRUE, <<"r1">>, {<<"scope", "once">>}),
     Slash("approvals:grant", FALSE, <<"r1">>, {}),
     Slash("approvals:grant", TRUE, <<"r1">>, {<<"request_id", "r2">>, <<"scope", "once">>}),
     Slash("approvals:poll", FALSE, <<>>, {}),
     Slash("mcp:show-tool", TRUE, <<"m", "t">>, {})}
Question(options) == [options |-> options, multi |-> FALSE]
AskedQuestions == {<<Question(2)>>, <<Question(2), Question(0)>>}

\* A2aServer: messages with and without text, two big files of one name.
PartSets == {{"blank", "other", "bad inline", "inline image"}, {"blank"}}
Left(dir, name, size) == [dir |-> dir, name |-> name, size |-> size]
OutputSets == {{Left(1, "x", "big"), Left(2, "x", "small")},
               {Left(1, "x", "big"), Left(2, "x", "big")}}

\* StepPlans: default and own planners and executors, one or two validators.
Setup(planner, stepDriven, executor, second) ==
    [planner |-> planner, stepDriven |-> stepDriven, executor |-> executor, second |-> second]
StepSetups == {Setup("default", TRUE, "tool loop", FALSE), Setup("custom", TRUE, "own", TRUE),
               Setup("custom", TRUE, "tool loop", TRUE), Setup("default", FALSE, "tool loop", FALSE)}
Capability(id, name, display_name, risk, planTool, fixed) ==
    [id |-> id, name |-> name, display_name |-> display_name, risk |-> risk,
     planTool |-> planTool, fixed |-> fixed]
\* Of "a" there are two, of other risks and signatures, and of "b" a tool and a plan
\* tool; "tool" is an alias of the first only, the other has it twice.
StepCapabilities ==
    {Capability("a", "tool", "", 2, FALSE, TRUE), Capability("a", "tool", "tool", 1, FALSE, FALSE),
     Capability("b", "b", "b", 1, FALSE, FALSE), Capability("b", "b", "b", 1, TRUE, FALSE),
     Capability("z", "bare", "", 0, FALSE, FALSE)}
Proposed(cap, risk) == [cap |-> cap, risk |-> risk]
StepProposals ==
    {<<Proposed("a", 1), Proposed("b", 1)>>, <<Proposed("tool", 2), Proposed("a", 1)>>,
     <<Proposed("b", 1), Proposed("plan:revise", 1)>>,
     <<Proposed("bare", 1)>>, <<>>}

\* ModelAdapters: calls with and without an id, a name, arguments that parse.
Call(id, name, args) == [id |-> id, name |-> name, args |-> args]
AnsweredCalls ==
    {<<>>, <<Call(TRUE, TRUE, "object"), Call(TRUE, TRUE, "broken")>>,
     <<Call(FALSE, TRUE, "object")>>, <<Call(TRUE, FALSE, "missing")>>,
     <<Call(FALSE, FALSE, "object"), Call(TRUE, TRUE, "missing")>>}

\* Configuration: what each file and each set of flags leaves unset is "".
ConfigKeys == {"model", "max_tokens", "mode", "content", "path", "mcp_paths",
               "proxy.disabled", "proxy.system", "proxy.http"}
Flags(set) == [k \in ConfigKeys |-> IF k \in DOMAIN set THEN set[k] ELSE ""]
Layered(set) == [is |-> "layer", set |-> Flags(set)]
Garbled == [is |-> "broken"]
UserLayers ==
    {Layered(<<>>), Layered([content |-> "user", mode |-> "append"]),
     Layered([path |-> "user", model |-> "user", mcp_paths |-> "user"]),
     Layered("proxy.disabled" :> "yes")}
WorkspaceLayers ==
    {Layered(<<>>), Garbled, Layered([content |-> "workspace", max_tokens |-> "workspace"]),
     Layered([mode |-> "wrong"]), Layered([mode |-> "append", mcp_paths |-> "workspace"]),
     Layered("proxy.http" :> "workspace" @@ "proxy.system" :> "yes")}
FlagSets ==
    {Flags(<<>>), Flags([model |-> "flag", content |-> "flag"]),
     Flags([path |-> "flag", mode |-> "append"]),
     Flags([mcp_paths |-> "flag", max_tokens |-> "flag", mode |-> "replace"])}
\* The MCP files of each path: lists of servers, good and bad, and Markdown.
Listed(entries) == [is |-> "file", entries |-> entries]
Entry(name, is) == [name |-> name, is |-> is]
Fs == Entry("fs", "server")
Web == Entry("web", "server")
McpDirectory ==
    [user |-> <<Listed(<<Fs, Entry("", "nameless")>>), Listed(<<Web>>)>>,
     workspace |-> <<Garbled, Listed(<<Fs, Entry("web", "invalid")>>), Listed(<<Fs>>)>>,
     flag |-> <<Listed(<<Web, Fs>>)>>,
     given |-> <<[is |-> "markdown", blocks |-> <<[is |-> "text"], Listed(<<Web>>), Listed(<<Fs>>)>>],
                 [is |-> "markdown", blocks |-> <<>>]>>]

\* AgentBuilder: a configuration with knowledge, one with MCP servers.
Preferred(audit, trace) ==
    [audit |-> audit, trace |-> trace, guard |-> 1, agent_event_transport |-> 100]
BuilderConfigs ==
    <<[servers |-> FALSE, knowledge |-> TRUE, off |-> {"read", "ask_user"},
       hooksOff |-> {}, priority |-> Preferred(5, 10)],
      [servers |-> TRUE, knowledge |-> FALSE, off |-> {"read", "remote"},
       hooksOff |-> {"trace"}, priority |-> Preferred(10, 1)]>>

\* KnowledgeStores: texts, and a similarity that ranks them.
StoredTexts == {<<>>, <<"a", "b">>, <<"A">>, <<"_">>}
Embedded == StoredTexts \cup {<<" ">>}
Similarity ==
    [q \in Embedded |-> [t \in Embedded |-> IF q = t THEN 3 ELSE IF Len(q) = Len(t) THEN 2 ELSE 1]]

\* EventBus: a guard registered twice and as an observer too, a check above it, and an
\* observer.
Handler(type, phase, mode, priority, handler) ==
    [type |-> type, phase |-> phase, mode |-> mode, priority |-> priority, handler |-> handler]
BusHandlers ==
    {Handler("tool", "before", "interceptor", 100, "guard"), Handler("*", "*", "interceptor", 200, "guard"),
     Handler("*", "before", "interceptor", 10, "check"), Handler("tool", "*", "observer", 100, "log"),
     Handler("tool", "*", "observer", 100, "guard")}

\* Skills: two skills with one id, one in both roots, one disabled.
Skill(root, name, id, score) ==
    [root |-> root, name |-> name, id |-> id, blank |-> FALSE, score |-> score]
SkillDirs ==
    {Skill(1, "lint", "lint", [review |-> 11]), Skill(1, "my skill", "my-skill", [lint |-> 12, tidy |-> 12]),
     Skill(1, "my_skill", "my-skill", [tidy |-> 1]), Skill(2, "lint", "lint", [tidy |-> 2]),
     Skill(2, "deploy it", "deploy-it", [tidy |-> 3])}

-----------------------------------------------------------------------------
RegistrySmall ==
    [Names |-> {1, 2}, Remote |-> {{1}, {1, 2}}, Local |-> {2},
     MCPs |-> {"mcp1", "mcp2", "mcp3"}, Plugin |-> "plugin", Callers |-> {"c1", "c2"},
     Remembered |-> BOOLEAN]

ClientSmall ==
    [Tasks |-> {"t1", "t2"}, Kinds |-> {"stdio", "http"}, MaxRequests |-> 3,
     MaxNotices |-> 1]

GuardSmall ==
    [Configs |-> GuardConfigs, HookRuns |-> GuardHooks, MaxAttempts |-> 2]

ToolsSmall ==
    [Names |-> {"a"}, Texts |-> {"x", "y"}, Saved |-> ToolFiles, MaxLines |-> 2,
     MaxRoots |-> 2]

LogSmall ==
    [Connections |-> {"c1", "c2"}, MaxEvents |-> 3]

ControlSmall ==
    [Workers |-> {"w1", "w2", "w3"}, MaxCheckpoints |-> 2]

SavesSmall ==
    [Processes |-> {"p1", "p2"}, Backends |-> {"memory", "file"}, Kept |-> 2,
     MaxSaves |-> 3, Memories |-> {1, 2}]

CliSmall ==
    [Fronts |-> {"chat", "inline", "script", "run"}, Sessions |-> {"s1", "s2"},
     MaxTasks |-> 2]

TerminalSmall ==
    [Lines |-> TypedLines, Questions |-> AskedQuestions,
     Handled |-> {"approvals:grant", "approvals:poll", "mcp:show-tool"}, MaxLines |-> 3,
     MaxInbox |-> 1]

ServerSmall ==
    [Requests |-> {"r1", "r2", "r3"}, Subscriber |-> "r1", TaskIds |-> {"t1", "t2"},
     Inputs |-> PartSets, Outputs |-> OutputSets]

PlannerSmall ==
    [Delegations |-> {"d1", "d2"}, Milestones |-> {"m1"},
     Proposals |-> {<<"s1", "s2">>, <<"s2">>, <<"", "s1">>, <<"s1", "s1">>}]

StepsSmall ==
    [Setups |-> StepSetups, Capabilities |-> StepCapabilities,
     Proposals |-> StepProposals, Messages |-> {"text", "blank"}, Milestones |-> 2,
     MaxAttempts |-> 2, MaxPlans |-> 2]

AdaptersSmall ==
    [Adapters |-> {"anthropic", "openai", "openrouter", "huawei-modelarts"},
     Answers |-> AnsweredCalls, MaxTalk |-> 4]

ConfigSmall ==
    [UserFiles |-> UserLayers, WorkspaceFiles |-> WorkspaceLayers, Options |-> FlagSets,
     Directory |-> McpDirectory]

BuilderSmall ==
    [Kinds |-> {"smart", "dare"}, Configs |-> BuilderConfigs,
     ServerTools |-> <<"remote", "read">>, OwnTools |-> {"read", "ask_user"},
     ManagedHooks |-> <<"audit", "trace">>, OwnHooks |-> {"audit", "guard"},
     Slots |-> {"boundary", "memory"}, MaxBuilds |-> 2, MaxTools |-> 1]

KnowledgeSmall ==
    [Stores |-> {"raw memory", "raw sqlite", "vector memory", "vector sqlite", "vector chroma"},
     Fronts |-> {"knowledge", "memory"}, Texts |-> StoredTexts, Similar |-> Similarity,
     Models |-> {1, 2}, MaxRows |-> 3, MaxTop |-> 2]

LibrarySmall ==
    [Dirs |-> SkillDirs, Queries |-> {"tidy", "fly"}, Disabled |-> {"deploy-it"},
     MaxLoads |-> 2]

BusSmall ==
    [Registrations |-> BusHandlers, Events |-> {[type |-> "tool", phase |-> "before"]},
     Emits |-> {"e1", "e2"}, MaxListeners |-> 2]

TracesSmall ==
    [Separate |-> BOOLEAN, MaxRuns |-> 2, MaxSpans |-> 8]

\* A window smaller than two large results.
LoopSmall ==
    [AgentKinds |-> {"chat", "basic", "smart", "managed"}, MaxRounds |-> 3, MaxTasks |-> 2,
     MaxGuidance |-> 1, Sizes |-> {1, 3}, Window |-> 4, MaxCalls |-> 2]

ApprovalsSmall ==
    [MaxTasks |-> 2, MaxRequests |-> 2]
=============================================================================
