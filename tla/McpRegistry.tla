----------------------------- MODULE McpRegistry -----------------------------
(***************************************************************************)
(* The registry of capabilities (ToolManager) and the manager that         *)
(* replaces the provider of MCP tools in it (MCPManager), with the builder *)
(* that fills the registry before there is an agent.                       *)
(*                                                                         *)
(* The registry's own operations have no await in them; a reload or an     *)
(* unload awaits the servers it connects to and those it disconnects, and  *)
(* meanwhile the registry and other reloads move on.                       *)
(***************************************************************************)
EXTENDS Naturals, Sequences, FiniteSets

CONSTANTS
    Names,          \* tool names: numbers, in the order in which they are listed
    Remote,         \* the sets of names that MCP servers may be found to offer
    Local,          \* those of other tools
    MCPs,           \* providers the manager loads, one after the other (strings)
    Plugin,         \* a provider with tools of its own (native, entry point)
    Callers,        \* tasks that reload and unload
    Remembered      \* BOOLEANs: may the manager know the built provider?

None == "none"
Direct == "tool"    \* _TOOL_SOURCE
Sources == MCPs \union {Plugin, Direct}

VARIABLES
    tm,         \* the ToolManager, a record: see Managers
    offers,     \* provider -> its list_tools()
    live,       \* providers with open connections
    current,    \* MCPManager._provider
    op,         \* caller -> its reload or unload
    clash       \* a registration has raised (history)

vars == <<tm, offers, live, current, op, clash>>

\* A tool object: a provider makes its own, one per name; "version" tells a
\* directly registered tool from the one that update_tool puts in its place.
Tools == [maker: Sources, name: Names, version: {1, 2}]
Entries == [tool: Tools, source: Sources, enabled: BOOLEAN]
Absent == [source |-> None]

Managers == [registry: [Names -> Entries \union {Absent}],
             known:    SUBSET Tools,    \* _tool_index_by_object
             listed:   Seq(MCPs \union {Plugin}),
             owns:     [MCPs \union {Plugin} -> SUBSET Names]]

Phases == {"idle", "loading", "closing", "undoing", "unloading"}

TypeOK ==
    /\ tm \in Managers /\ offers \in [MCPs \union {Plugin} -> SUBSET Names]
    /\ live \subseteq MCPs /\ current \in MCPs \union {None} /\ clash \in BOOLEAN
    /\ op \in [Callers -> [phase: Phases, new: MCPs \union {None},
                           old: MCPs \union {None}, result: {"none", "ok", "raised"}]]

-----------------------------------------------------------------------------
(* ToolManager: each operation as a function of its state.                   *)

Made(p, n) == [maker |-> p, name |-> n, version |-> 1]
\* What a client's list_tools makes of the names its server offers.
MadeAll(p, names) == {Made(p, n) : n \in names}
Taken(m, n) == m.registry[n] # Absent
Listed(m, p) == \E i \in DOMAIN m.listed : m.listed[i] = p
OwnedBy(m, p) == {n \in Names : m.registry[n].source = p}

Put(m, src, t) ==
    [m EXCEPT !.registry[t.name] = [tool |-> t, source |-> src, enabled |-> TRUE],
              !.known = @ \union {t}]

PutAll(m, p, names) ==
    [m EXCEPT
       !.registry = [n \in Names |-> IF n \in names
                       THEN [tool |-> Made(p, n), source |-> p, enabled |-> TRUE]
                       ELSE m.registry[n]],
       !.known = @ \union MadeAll(p, names)]

\* Mutant of RemoveAll: the entry goes, the object stays known.
RemoveEntries(m, names) ==
    [m EXCEPT !.registry = [n \in Names |-> IF n \in names THEN Absent ELSE m.registry[n]]]

RemoveAll(m, names) ==
    [m EXCEPT
       !.registry = [n \in Names |-> IF n \in names THEN Absent ELSE m.registry[n]],
       !.known = @ \ {m.registry[n].tool : n \in {k \in names : Taken(m, k)}}]

\* _sync_provider_tools: new objects are registered in order until a name is
\* taken, which raises; only without that are those no longer offered removed
\* and the provider's share written down.
Sync(m, p, names) ==
    LET fresh   == {n \in names : Made(p, n) \notin m.known}
        taken   == {n \in fresh : Taken(m, n)}
        before  == {n \in fresh : \A c \in taken : n < c}
        done    == PutAll(m, p, before)
        gone    == {n \in m.owns[p] \ names : done.registry[n].source = p}
    IN  IF taken # {}
        THEN [ok |-> FALSE, m |-> done]
        ELSE [ok |-> TRUE, m |-> [RemoveAll(done, gone) EXCEPT
                                    !.owns[p] = OwnedBy(done, p) \intersect names]]

\* register_provider: listed first, then synchronised.
Register(m, p, names) ==
    IF Listed(m, p) THEN [ok |-> TRUE, m |-> m]
    ELSE Sync([m EXCEPT !.listed = Append(@, p)], p, names)

\* list.remove: the first of its kind goes.
Without(s, p) ==
    LET at == CHOOSE i \in DOMAIN s : s[i] = p /\ \A j \in DOMAIN s : s[j] = p => i <= j
    IN  [i \in 1..Len(s) - 1 |-> IF i < at THEN s[i] ELSE s[i + 1]]

\* Mutant of Unregister: the provider is forgotten, its entries are not.
UnregisterListing(m, p) ==
    IF ~Listed(m, p) THEN m
    ELSE [m EXCEPT !.listed = Without(@, p), !.owns[p] = {}]

Unregister(m, p) ==
    IF ~Listed(m, p) THEN m
    ELSE [RemoveAll(m, {n \in m.owns[p] : m.registry[n].source = p}) EXCEPT
            !.listed = Without(@, p), !.owns[p] = {}]

\* refresh: every provider in turn, until one raises.
Refresh(m, offer) ==
    LET after[i \in 0..Len(m.listed)] ==
            IF i = 0 THEN [ok |-> TRUE, m |-> m]
            ELSE IF after[i - 1].ok
                 THEN Sync(after[i - 1].m, m.listed[i], offer[m.listed[i]])
                 ELSE after[i - 1]
    IN  after[Len(m.listed)]

\* What reload() does between its awaits: swap the providers, then refresh.
Swap(m, old, new, offer) ==
    LET without == IF old = None THEN m ELSE Unregister(m, old)
        with    == Register(without, new, offer[new])
    IN  IF with.ok THEN Refresh(with.m, offer) ELSE with

\* What it does when that has raised and the new provider is closed.
PutBack(m, old, offer) ==
    IF old = None THEN [ok |-> FALSE, m |-> m]
    ELSE LET back == Register(m, old, offer[old])
         IN  IF back.ok THEN [Refresh(back.m, offer) EXCEPT !.ok = FALSE] ELSE back

-----------------------------------------------------------------------------
(* The builder: providers in order, then a registry the agent starts with.   *)

Empty == [registry |-> [n \in Names |-> Absent], known |-> {},
          listed |-> <<>>, owns |-> [p \in MCPs \union {Plugin} |-> {}]]

\* load_entrypoint_providers.
WithPlugin(others) == Register(Empty, Plugin, others)

Idle == [phase |-> "idle", new |-> None, old |-> None, result |-> "none"]

\* build(): load_provider() does not tell the manager what it loaded; a
\* manager that is given its provider knows it.  A name twice fails the build.
Init ==
    \E mine \in Remote, others \in SUBSET Local, known \in Remembered :
        LET built == CHOOSE p \in MCPs : TRUE
            first == WithPlugin(others)
            both  == Register(first.m, built, mine)
        IN  /\ both.ok
            /\ tm = both.m
            /\ offers = [p \in MCPs \union {Plugin} |->
                           IF p = Plugin THEN others ELSE IF p = built THEN mine ELSE {}]
            /\ live = {built}
            /\ current = IF known THEN built ELSE None
            /\ op = [c \in Callers |-> Idle]
            /\ clash = FALSE

-----------------------------------------------------------------------------
(* Tools registered one by one.                                              *)

RegisterTool(n) ==
    /\ ~Taken(tm, n)
    /\ tm' = Put(tm, Direct, Made(Direct, n))
    /\ UNCHANGED <<offers, live, current, op, clash>>

UnregisterTool(n) ==
    /\ tm.registry[n].source = Direct
    /\ tm' = RemoveAll(tm, {n})
    /\ UNCHANGED <<offers, live, current, op, clash>>

\* Another object under the same name; the index follows.
UpdateTool(n) ==
    /\ tm.registry[n].source = Direct
    /\ LET old == tm.registry[n].tool
           new == [old EXCEPT !.version = 3 - @]
       IN  tm' = [tm EXCEPT !.registry[n].tool = new,
                            !.known = (@ \ {old}) \union {new}]
    /\ UNCHANGED <<offers, live, current, op, clash>>

ChangeStatus(n) ==
    /\ Taken(tm, n)
    /\ tm' = [tm EXCEPT !.registry[n].enabled = ~@]
    /\ UNCHANGED <<offers, live, current, op, clash>>

\* The plugin changes what it offers; the registry learns of it at a refresh.
OfferOther(n) ==
    /\ offers' = [offers EXCEPT ![Plugin] = IF n \in @ THEN @ \ {n} ELSE @ \union {n}]
    /\ UNCHANGED <<tm, live, current, op, clash>>

-----------------------------------------------------------------------------
(* MCPManager.                                                               *)

Unused(p) == p \notin live /\ ~Listed(tm, p) /\ offers[p] = {} /\ p # current
             /\ \A c \in Callers : op[c].new # p /\ op[c].old # p

BeginReload(c) ==
    /\ op[c].phase = "idle"
    /\ op' = [op EXCEPT ![c] = [Idle EXCEPT !.phase = "loading"]]
    /\ UNCHANGED <<tm, offers, live, current, clash>>

\* A server that answers no list, after it connected, fails the whole load.
LoadFails(c) ==
    /\ op[c].phase = "loading"
    /\ op' = [op EXCEPT ![c] = [Idle EXCEPT !.result = "raised"]]
    /\ UNCHANGED <<tm, offers, live, current, clash>>

\* Mutant of Loaded: the old provider is the one known before the load.
LoadedQuietly(c) ==
    /\ op[c].phase = "loading"
    /\ \E p \in MCPs : Unused(p)
    /\ \E names \in Remote :
        LET p     == CHOOSE q \in MCPs : Unused(q)
            offer == [offers EXCEPT ![p] = names]
            swap  == Swap(tm, current, p, offer)
        IN  /\ offers' = offer /\ live' = live \union {p} /\ tm' = swap.m
            /\ op' = [op EXCEPT ![c] = [phase |-> "closing", new |-> p, old |-> current,
                                        result |-> "none"]]
    /\ UNCHANGED <<current, clash>>

\* The servers that could be reached are connected and listed: the new
\* provider takes the place of the one the manager knows of.
Loaded(c) ==
    /\ op[c].phase = "loading"
    /\ \E p \in MCPs : Unused(p)
    /\ \E names \in Remote :
        LET p     == CHOOSE q \in MCPs : Unused(q)
            offer == [offers EXCEPT ![p] = names]
            swap  == Swap(tm, current, p, offer)
        IN  /\ offers' = offer /\ live' = live \union {p} /\ tm' = swap.m
            /\ clash' = (clash \/ ~swap.ok)
            /\ op' = [op EXCEPT ![c] = [phase |-> IF swap.ok THEN "closing" ELSE "undoing",
                                        new |-> p, old |-> current, result |-> "none"]]
    /\ UNCHANGED current

\* The old provider is disconnected, and only now replaced.
EndReload(c) ==
    /\ op[c].phase = "closing"
    /\ live' = live \ {op[c].old}
    /\ current' = op[c].new
    /\ op' = [op EXCEPT ![c] = [Idle EXCEPT !.result = "ok"]]
    /\ UNCHANGED <<tm, offers, clash>>

\* The new provider is disconnected, the old one registered again.
UndoReload(c) ==
    /\ op[c].phase = "undoing"
    /\ LET back == PutBack(tm, op[c].old, offers)
       IN  tm' = back.m
    /\ live' = live \ {op[c].new}
    /\ op' = [op EXCEPT ![c] = [Idle EXCEPT !.result = "raised"]]
    /\ UNCHANGED <<offers, current, clash>>

BeginUnload(c) ==
    /\ op[c].phase = "idle" /\ current # None
    /\ LET r == Refresh(Unregister(tm, current), offers)
       IN  /\ tm' = r.m
           /\ clash' = (clash \/ ~r.ok)
           /\ op' = [op EXCEPT ![c] = IF r.ok
                       THEN [Idle EXCEPT !.phase = "unloading", !.old = current]
                       ELSE [Idle EXCEPT !.result = "raised"]]
    /\ UNCHANGED <<offers, live, current>>

EndUnload(c) ==
    /\ op[c].phase = "unloading"
    /\ live' = live \ {op[c].old}
    /\ current' = None
    /\ op' = [op EXCEPT ![c] = [Idle EXCEPT !.result = "ok"]]
    /\ UNCHANGED <<tm, offers, clash>>

Next ==
    \/ \E n \in Local : RegisterTool(n) \/ UnregisterTool(n) \/ UpdateTool(n)
                        \/ OfferOther(n)
    \/ \E n \in Names : ChangeStatus(n)
    \/ \E c \in Callers : \/ BeginReload(c) \/ LoadFails(c) \/ Loaded(c) \/ EndReload(c)
                          \/ UndoReload(c) \/ BeginUnload(c) \/ EndUnload(c)

Spec == Init /\ [][Next]_vars

-----------------------------------------------------------------------------

\* The index of tool objects and the registry say the same after every
\* operation; and as long as no registration has raised, a provider that is
\* listed owns exactly the entries it is the source of, one that is not listed
\* is the source of none, and no tool of a disconnected server can be called,
\* however reloads and unloads overlap (_sync_provider_tools,
\* unregister_provider, reload, unload).
RegistryConsistent ==
    /\ tm.known = {tm.registry[n].tool : n \in {k \in Names : Taken(tm, k)}}
    /\ \A n \in Names : Taken(tm, n) => tm.registry[n].tool.name = n
    /\ ~clash =>
        /\ \A p \in MCPs \union {Plugin} :
              OwnedBy(tm, p) = IF Listed(tm, p) THEN tm.owns[p] ELSE {}
        /\ \A p \in MCPs : OwnedBy(tm, p) # {} => p \in live

\* A reload that reports success has put every tool of the provider it returns
\* into the registry, whatever other reloads, unloads and local registrations
\* did while it waited for the old servers to be disconnected.
SuccessIsTrue ==
    \A c \in Callers : (op[c].phase = "closing" /\ op'[c].phase = "idle") =>
        \A n \in offers[op[c].new] : tm.registry[n].source = op[c].new
=============================================================================
