---------------------------- MODULE AgentBuilder ----------------------------
(***************************************************************************)
(* The builders of agent/builder.py: one builder the program configures,   *)
(* and builds from more than once.  A build resolves the configuration,    *)
(* connects the MCP servers, takes each part from the program or else from *)
(* the configuration, fills the tool registry and orders the hooks; what   *)
(* it resolves stays in the builder for the next build.                    *)
(***************************************************************************)
EXTENDS Integers, Sequences, FiniteSetsExt, Listings

CONSTANTS
    Kinds,         \* of {"chat", "react", "smart", "dare"}
    Configs,       \* sequence of configurations: [servers, knowledge, off, hooksOff, priority]
    ServerTools,   \* sequence of the names the MCP servers offer
    OwnTools,      \* names of tools the program may add
    ManagedHooks,  \* names the hook manager loads
    OwnHooks,      \* names of hooks the program may add
    Slots,         \* the parts followed: of Cached, {"log", "memory", "knowledge", "prompt"}
    MaxBuilds, MaxTools

VARIABLES
    builder,       \* the builder's fields
    source,        \* the configuration the provider holds now
    registries,    \* the tool managers: name -> [object, enabled]
    builds         \* the builds made so far: what each agent got, or that there is none

vars == <<builder, source, registries, builds>>

\* A part: given by the program, or resolved from configuration `of'.
Part(by, of) == [by |-> by, of |-> of]
Unset == Part("none", 0)

\* Parts the builder keeps once it has resolved them, and those only the five-layer agent has.
Cached == {"model", "approval", "boundary"}
DareOnly == {"boundary", "log"}

Init ==
    /\ \E k \in Kinds, channel, skills \in BOOLEAN :
          builder = [kind |-> k, config |-> 0, registry |-> 0, tools |-> <<>>, hooks |-> <<>>,
                     slots |-> [s \in Slots |-> Unset], channel |-> channel, skills |-> skills]
    /\ source = 1
    /\ registries = <<>>
    /\ builds = <<>>

-----------------------------------------------------------------------------
\* The program's calls.

WithConfig ==
    \E c \in DOMAIN Configs :
        /\ c # builder.config
        /\ builder' = [builder EXCEPT !.config = c]
        /\ UNCHANGED <<source, registries, builds>>

Given(slot) ==
    /\ builder' = [builder EXCEPT !.slots[slot] = Part("program", 0)]
    /\ UNCHANGED <<source, registries, builds>>

AddTool ==
    \E t \in OwnTools :
        /\ Len(builder.tools) < MaxTools
        /\ builder' = [builder EXCEPT !.tools = Append(@, t)]
        /\ UNCHANGED <<source, registries, builds>>

AddHook ==
    \E h \in OwnHooks :
        /\ h \notin Range(builder.hooks)
        /\ builder' = [builder EXCEPT !.hooks = Append(@, h)]
        /\ UNCHANGED <<source, registries, builds>>

WithGateway ==
    /\ Len(registries) < MaxBuilds
    /\ registries' = Append(registries, <<>>)
    /\ builder' = [builder EXCEPT !.registry = Len(registries')]
    /\ UNCHANGED <<source, builds>>

ProviderReloads ==
    \E c \in DOMAIN Configs \ {source} :
        /\ source' = c
        /\ UNCHANGED <<builder, registries, builds>>

-----------------------------------------------------------------------------
\* The tool registry: a name is taken by the first object that registers it.

Resolved == IF builder.config # 0 THEN builder.config ELSE source

Own(t) == [name |-> t, object |-> Part("program", 0)]
Made(t, n) == [name |-> t, object |-> Part("build", n)]

\* _resolve_tools: the program's tools and the built-in ones it has not replaced.
Built(c, n) ==
    LET names == Range(builder.tools)
        Missing(t) == IF t \in names THEN <<>> ELSE <<Made(t, n)>>
    IN [i \in DOMAIN builder.tools |-> Own(builder.tools[i])]
         \o (IF builder.skills THEN Missing("search_skill") ELSE <<>>)
         \o (IF Configs[c].knowledge THEN <<Made("knowledge_get", n)>> ELSE <<>>)
         \o Missing("ask_user")
         \o (IF builder.kind = "smart" THEN Missing("manage_context") ELSE <<>>)

Served(n) == [i \in DOMAIN ServerTools |-> Made(ServerTools[i], n)]

Clashes(registry, tools) ==
    {i \in DOMAIN tools :
        \/ /\ tools[i].name \in DOMAIN registry
           /\ registry[tools[i].name].object # tools[i].object
        \/ \E j \in 1 .. i - 1 : /\ tools[j].name = tools[i].name
                                 /\ tools[j].object # tools[i].object}

\* Registration stops at the first clash and keeps what came before it.
Registered(registry, tools) ==
    LET clashes == Clashes(registry, tools)
        until == IF clashes = {} THEN Len(tools) ELSE Min(clashes) - 1
        fresh == {tools[i].name : i \in 1 .. until} \ DOMAIN registry
    IN [t \in DOMAIN registry \cup fresh |->
           IF t \in DOMAIN registry THEN registry[t]
           ELSE [object |-> (CHOOSE x \in Range(SubSeq(tools, 1, until)) : x.name = t).object, enabled |-> TRUE]]

\* Mutant of Spared: a tool the program added can be switched off.
SpareNone(tools) == {}

\* The names a configuration cannot switch off.
Spared(tools) == {tools[i].name : i \in DOMAIN tools}

Disabled(registry, off, tools) ==
    [t \in DOMAIN registry |->
        IF t \in off \ Spared(tools) THEN [registry[t] EXCEPT !.enabled = FALSE] ELSE registry[t]]

-----------------------------------------------------------------------------
\* The hooks of the five-layer agent: source, then priority, then order; one per name.

Group(rank, names, c) ==
    {[rank |-> rank, name |-> names[i], priority |-> Configs[c].priority[names[i]], at |-> i] : i \in DOMAIN names}

Managed(c) == Taken(ManagedHooks, {i \in DOMAIN ManagedHooks : ManagedHooks[i] \notin Configs[c].hooksOff})

System(c) ==
    IF builder.channel /\ "agent_event_transport" \notin Range(Managed(c)) \cup Range(builder.hooks)
    THEN <<"agent_event_transport">> ELSE <<>>

Candidates(c) == Group(0, System(c), c) \cup Group(1, Managed(c), c) \cup Group(2, builder.hooks, c)

\* Mutant of Before: the priority is above the source.
BeforeByPriority(a, b) ==
    \/ a.priority < b.priority
    \/ a.priority = b.priority /\ a.rank < b.rank
    \/ a.rank = b.rank /\ a.priority = b.priority /\ a.at < b.at

Before(a, b) ==
    \/ a.rank < b.rank
    \/ a.rank = b.rank /\ a.priority < b.priority
    \/ a.rank = b.rank /\ a.priority = b.priority /\ a.at < b.at

FirstOf(candidates) == {a \in candidates : \A b \in candidates : Before(b, a) => a.name # b.name}

InTurn(candidates) == {p \in candidates \X candidates : Before(p[1], p[2])}

HooksOf(c) ==
    IF builder.kind = "dare"
    THEN LET first == FirstOf(Candidates(c)) IN InOrder(first, InTurn(first)) ELSE <<>>

-----------------------------------------------------------------------------
\* build(): each part resolved once and kept in the builder.

\* Mutant of Resolve: what the program gave, or an earlier build resolved, is not looked at.
ResolveAgain(slot, c) == Part("config", c)

Resolve(slot, c) == IF builder.slots[slot] # Unset THEN builder.slots[slot] ELSE Part("config", c)

\* _build_context: the parts that reach the model by way of the context.
ContextOf(slots) ==
    [smart |-> builder.kind = "smart", parts |-> [s \in Slots \ (Cached \cup DareOnly) |-> slots[s]]]

Agent(c, r, slots, n) ==
    [built |-> n, config |-> c, registry |-> r, slots |-> slots, context |-> ContextOf(slots), hooks |-> HooksOf(c),
     tools |-> Range(builder.tools), asked |-> builder.slots, added |-> Range(builder.hooks)]

NoAgent == [built |-> 0]

\* The parts after a build; a build that fails over a tool's name never reaches the agent's own.
SlotsOf(c, fails) ==
    [s \in Slots |-> IF s \in DareOnly /\ (fails \/ builder.kind # "dare") THEN builder.slots[s] ELSE Resolve(s, c)]

\* The configuration is frozen, the servers connected and the first parts resolved
\* before the registry can refuse a name.
Build ==
    /\ Len(builds) < MaxBuilds
    /\ LET c == Resolved
           n == Len(builds) + 1
           new == builder.registry = 0
           r == IF new THEN Len(registries) + 1 ELSE builder.registry
           old == IF new THEN <<>> ELSE registries[r]
           served == IF Configs[c].servers THEN Served(n) ELSE <<>>
           tools == Built(c, n)
           withServed == Registered(old, served)
           full == Registered(withServed, tools)
           fails == Clashes(old, served) # {} \/ Clashes(withServed, tools) # {}
           slots == SlotsOf(c, fails)
           stay == [s \in Slots |-> IF s \in Cached THEN slots[s] ELSE builder.slots[s]]
           kept == CASE Clashes(old, served) # {} -> withServed
                     [] fails -> full
                     [] OTHER -> Disabled(full, Configs[c].off, tools)
       IN /\ registries' = [i \in DOMAIN registries \cup {r} |-> IF i = r THEN kept ELSE registries[i]]
          /\ builder' = [builder EXCEPT !.config = c, !.registry = r, !.slots = stay]
          /\ builds' = Append(builds, IF fails THEN NoAgent ELSE Agent(c, r, slots, n))
    /\ UNCHANGED source

Next ==
    \/ WithConfig
    \/ \E slot \in Slots : Given(slot)
    \/ AddTool
    \/ AddHook
    \/ WithGateway
    \/ ProviderReloads
    \/ Build

Spec == Init /\ [][Next]_vars

-----------------------------------------------------------------------------
TypeOK ==
    /\ builder.registry \in 0 .. Len(registries)
    /\ builder.config \in 0 .. Len(Configs)
    /\ \A s \in Slots : builder.slots[s].by \in {"none", "program", "config"}
    /\ source \in DOMAIN Configs
    /\ \A i \in DOMAIN registries : \A t \in DOMAIN registries[i] : registries[i][t].enabled \in BOOLEAN
    /\ \A i \in DOMAIN builds : builds[i].built \in {0, i}

Agents == {builds[i] : i \in {j \in DOMAIN builds : builds[j].built # 0}}

\* What the program handed over is what every agent uses: each part it gave, and each
\* tool it added is that object and stays enabled, whatever later builds on the same
\* registry register or switch off (with_model ..., _resolve_tool_gateway_and_tool_manager).
ExplicitUsed ==
    \A a \in Agents :
        /\ \A s \in Slots : a.asked[s].by = "program" =>
              a.asked[s] = IF s \in DOMAIN a.context.parts THEN a.context.parts[s] ELSE a.slots[s]
        /\ \A t \in a.tools : registries[a.registry][t] = [object |-> Part("program", 0), enabled |-> TRUE]

\* One hook runs under each name that a source offers and the configuration leaves on,
\* in the order of source, priority and registration (DareAgentBuilder._build_impl).
HooksOrdered ==
    \A a \in Agents : builder.kind = "dare" =>
        /\ {a.hooks[i].name : i \in DOMAIN a.hooks} \ {"agent_event_transport"}
              = (Range(Managed(a.config)) \cup a.added) \ {"agent_event_transport"}
        /\ \A i, j \in DOMAIN a.hooks : i < j => /\ a.hooks[i].name # a.hooks[j].name
                                               /\ a.hooks[i].rank <= a.hooks[j].rank
                                               /\ \/ a.hooks[i].rank < a.hooks[j].rank
                                                  \/ a.hooks[i].priority <= a.hooks[j].priority
        /\ builder.channel => \E i \in DOMAIN a.hooks : a.hooks[i].name = "agent_event_transport"
=============================================================================
