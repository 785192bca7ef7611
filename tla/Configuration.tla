---------------------------- MODULE Configuration ----------------------------
(***************************************************************************)
(* Where the command line's configuration comes from: the user's file, the  *)
(* workspace's file above it, the flags above both; and what the running    *)
(* agent makes of it.  The files are edited while the program runs, and     *)
(* /mcp reload reads them again.                                            *)
(*                                                                         *)
(* A configuration is a function from its keys; a key nobody set is Unset.  *)
(* Merging two nested dictionaries is overriding one such function.         *)
(***************************************************************************)
EXTENDS Naturals, Sequences, FiniteSets, SequencesExt

CONSTANTS
    UserFiles,      \* contents of the two files: configurations, or Broken
    WorkspaceFiles,
    Options,        \* what the flags may set
    Directory       \* MCP path -> the files in it, in the order of their names

VARIABLES
    user, workspace,    \* the files
    options,            \* RuntimeOptions of the process
    provider,           \* FileConfigProvider._config, or NoConfig
    runtime,            \* ClientRuntime.config
    agent               \* what the agent was built from, and the MCP servers in use

vars == <<user, workspace, options, provider, runtime, agent>>

Keys == {"model", "max_tokens", "mode", "content", "path", "mcp_paths",
         "proxy.disabled", "proxy.system", "proxy.http"}
Unset == ""
Broken == [is |-> "broken"]
Layer(set) == [is |-> "layer", set |-> [k \in Keys |-> IF k \in DOMAIN set THEN set[k] ELSE Unset]]
NoConfig == [is |-> "none"]
NoPrompt == [mode |-> "none", text |-> "none"]
NoAgent == [is |-> "none"]

\* An entry of an MCP file: a server, one that fails validate(), one without a name.
Entry(name, is) == [name |-> name, is |-> is]
Listing(entries) == [is |-> "file", entries |-> entries]
Markdown(blocks) == [is |-> "markdown", blocks |-> blocks]
Servers == {Entry(n, "server") : n \in {"fs", "web"}}

Values == {Unset, "user", "workspace", "flag", "replace", "append", "wrong", "yes"}
Configs == [is : {"layer"}, set : [Keys -> Values]]

TypeOK ==
    /\ user \in UserFiles /\ workspace \in WorkspaceFiles /\ options \in Options
    /\ provider = NoConfig \/ provider \in Configs
    /\ runtime = NoConfig \/ runtime \in Configs
    /\ agent = NoAgent \/
          /\ agent.is = "agent" /\ agent.config \in Configs
          /\ agent.prompt \in [mode : {"none", "replace", "append"}, text : {"none"} \union Values]
          /\ agent.proxy \in [trust_env : {"default", "yes", "no"}, proxy : {"default", "none"} \union Values]
          /\ agent.servers \in Seq(Servers)

Init ==
    /\ user \in UserFiles /\ workspace \in WorkspaceFiles /\ options \in Options
    /\ provider = NoConfig /\ runtime = NoConfig /\ agent = NoAgent

-----------------------------------------------------------------------------
(* FileConfigProvider and Config.from_dict.                                  *)

Merged(lower, upper) ==
    [k \in Keys |-> IF upper[k] # Unset THEN upper[k] ELSE lower[k]]

\* ProxyConfig.from_dict: disabled, then the system's, then the explicit one.
WithProxyRule(c) ==
    CASE c["proxy.disabled"] # Unset -> [c EXCEPT !["proxy.system"] = Unset, !["proxy.http"] = Unset]
      [] c["proxy.disabled"] = Unset /\ c["proxy.system"] # Unset -> [c EXCEPT !["proxy.http"] = Unset]
      [] OTHER -> c

\* SystemPromptConfig.from_dict raises on any other mode.
ModeAccepted(c) == c["mode"] # "wrong"

FromDict(c) == [is |-> "layer", set |-> WithProxyRule(c)]

\* _load_config raises on a file that is no JSON object.
Loads ==
    /\ user # Broken /\ workspace # Broken
    /\ ModeAccepted(Merged(user.set, workspace.set))

Loaded == FromDict(Merged(user.set, workspace.set))

-----------------------------------------------------------------------------
(* MCPConfigLoader, MCPManager.load_provider.                                *)

\* JSON and YAML are taken as they are; of a Markdown file, the first code block
\* that has servers.
Parsed(file) ==
    IF file.is # "markdown" THEN file
    ELSE LET block == SelectInSeq(file.blocks, LAMBDA b : b.is = "file")
         IN  IF block = 0 THEN Broken ELSE file.blocks[block]

\* One entry without a name is an exception, and the whole file is skipped.
FileServers(file) ==
    IF file = Broken \/ \E k \in DOMAIN file.entries : file.entries[k].is = "nameless" THEN <<>>
    ELSE SelectSeq(file.entries, LAMBDA e : e.is = "server")

Found(path) ==
    IF path \in DOMAIN Directory
    THEN FlattenSeq([k \in DOMAIN Directory[path] |-> FileServers(Parsed(Directory[path][k]))]) ELSE <<>>

\* A server that cannot be reached is left out; tools of one name cannot be
\* registered twice.
MayConnect(path, servers) ==
    /\ \E reached \in SUBSET DOMAIN Found(path) :
          servers = SelectSeq([k \in DOMAIN Found(path) |-> IF k \in reached THEN Found(path)[k] ELSE Entry("", "")],
                              LAMBDA e : e.is # "")
    /\ \A j, k \in DOMAIN servers : j # k => servers[j].name # servers[k].name

-----------------------------------------------------------------------------
(* bootstrap.                                                                *)

\* Mutant of PromptFlags: a text from the flags keeps the mode of the files.
PromptFlagsKeepMode(c, o) ==
    LET text == o["content"] # Unset \/ o["path"] # Unset
    IN  [c EXCEPT !["mode"] = IF o["mode"] # Unset THEN o["mode"] ELSE @,
                  !["content"] = IF o["path"] # Unset THEN Unset ELSE IF text THEN o["content"] ELSE @,
                  !["path"] = IF text THEN o["path"] ELSE @]

\* A text or a file from the flags takes the place of both; without a mode from
\* the flags it replaces the prompt.
PromptFlags(c, o) ==
    LET text == o["content"] # Unset \/ o["path"] # Unset
    IN  [c EXCEPT !["mode"] = IF o["mode"] # Unset THEN o["mode"] ELSE IF text THEN "replace" ELSE @,
                  !["content"] = IF o["path"] # Unset THEN Unset ELSE IF text THEN o["content"] ELSE @,
                  !["path"] = IF text THEN o["path"] ELSE @]

\* apply_runtime_overrides.
Overridden(config, o) ==
    [is |-> "layer",
     set |-> PromptFlags([config.set EXCEPT
         !["model"] = IF o["model"] # Unset THEN o["model"] ELSE @,
         !["max_tokens"] = IF o["max_tokens"] # Unset THEN o["max_tokens"] ELSE @,
         !["mcp_paths"] = IF o["mcp_paths"] # Unset THEN o["mcp_paths"] ELSE @], o)]

\* _resolve_system_prompt_content raises when a text and a file are given.
PromptAccepted(c) == c["content"] = Unset \/ c["path"] = Unset

PromptOf(c) ==
    LET text == IF c["path"] # Unset THEN c["path"] ELSE c["content"]
    IN  IF text = Unset THEN NoPrompt
        ELSE [mode |-> IF c["mode"] = Unset THEN "replace" ELSE c["mode"], text |-> text]

\* _http_client_options_from_proxy.
ProxyOf(c) ==
    CASE c["proxy.disabled"] # Unset -> [trust_env |-> "no", proxy |-> "none"]
      [] c["proxy.disabled"] = Unset /\ c["proxy.system"] # Unset ->
            [trust_env |-> "yes", proxy |-> IF c["proxy.http"] # Unset THEN c["proxy.http"] ELSE "default"]
      [] c["proxy.disabled"] = Unset /\ c["proxy.system"] = Unset /\ c["proxy.http"] # Unset ->
            [trust_env |-> "no", proxy |-> c["proxy.http"]]
      [] OTHER -> [trust_env |-> "default", proxy |-> "default"]

\* bootstrap_runtime.  What raises ends the program; the files can be mended.
Start(servers) ==
    /\ agent = NoAgent /\ Loads
    /\ LET config == Overridden(Loaded, options)
       IN  /\ PromptAccepted(config.set)
           /\ provider' = Loaded /\ runtime' = config
           /\ MayConnect(config.set["mcp_paths"], servers)
           /\ agent' = [is |-> "agent", config |-> config, prompt |-> PromptOf(config.set),
                        proxy |-> ProxyOf(config.set), servers |-> servers]
    /\ UNCHANGED <<user, workspace, options>>

\* Mutant of Reload: the flags are not applied again.
ReloadWithoutFlags(servers) ==
    /\ agent # NoAgent /\ Loads
    /\ provider' = Loaded /\ runtime' = Loaded
    /\ \/ MayConnect(Loaded.set["mcp_paths"], servers) /\ agent' = [agent EXCEPT !.servers = servers]
       \/ UNCHANGED agent
    /\ UNCHANGED <<user, workspace, options>>

\* /mcp reload.  The configuration is taken over even if the servers then fail.
Reload(servers) ==
    /\ agent # NoAgent /\ Loads
    /\ provider' = Loaded /\ runtime' = Overridden(Loaded, options)
    /\ \/ MayConnect(runtime'.set["mcp_paths"], servers) /\ agent' = [agent EXCEPT !.servers = servers]
       \/ UNCHANGED agent
    /\ UNCHANGED <<user, workspace, options>>

\* /mcp reload with paths leaves the configuration alone.
ReloadPaths(servers) ==
    /\ agent # NoAgent
    /\ MayConnect("given", servers) /\ agent' = [agent EXCEPT !.servers = servers]
    /\ UNCHANGED <<user, workspace, options, provider, runtime>>

\* The process ends; another one is started with flags of its own.
Exit ==
    /\ agent # NoAgent
    /\ agent' = NoAgent /\ provider' = NoConfig /\ runtime' = NoConfig
    /\ options' \in Options
    /\ UNCHANGED <<user, workspace>>

UserEdits ==
    /\ \/ user' \in UserFiles /\ UNCHANGED workspace
       \/ workspace' \in WorkspaceFiles /\ UNCHANGED user
    /\ UNCHANGED <<options, provider, runtime, agent>>

\* What config:get answers: the configuration the agent was built from.
ConfigGet(k) == agent.config.set[k]

Next ==
    \/ \E servers \in SeqOf(Servers, Cardinality(Servers)) : Start(servers) \/ Reload(servers) \/ ReloadPaths(servers)
    \/ Exit \/ UserEdits

Spec == Init /\ [][Next]_vars

-----------------------------------------------------------------------------

\* "CLI flags" are above both files, when the program starts and after every
\* reload (client/README.md: user < workspace < CLI flags); the rest of the
\* runtime's configuration is what the provider last read, and config:get never
\* hides a flag.
FlagsWin ==
    /\ agent # NoAgent => \A k \in {"model", "max_tokens", "mcp_paths"} :
          options[k] # Unset => ConfigGet(k) = options[k]
    /\ runtime # NoConfig =>
        \A k \in Keys :
            /\ options[k] # Unset => (k = "content" /\ options["path"] # Unset) \/ runtime.set[k] = options[k]
            /\ options[k] = Unset /\ k \notin {"mode", "content", "path"} =>
                  runtime.set[k] = provider.set[k]

\* An agent that runs has the prompt of the highest of the three sources that
\* names one, replaced or appended as that source, or one above it, says; no
\* two sources are mixed into it (_resolve_system_prompt_override).
PromptAsAsked ==
    agent # NoAgent =>
        LET c == agent.config.set
            asked == options["content"] # Unset \/ options["path"] # Unset
        IN  /\ asked => agent.prompt =
                  [mode |-> IF options["mode"] # Unset THEN options["mode"] ELSE "replace",
                   text |-> "flag"]
            /\ ~asked => agent.prompt.text \in {"none", c["content"], c["path"]}
            /\ c["content"] = Unset \/ c["path"] = Unset

\* A disabled proxy stays out whatever else the two files say of one, and an
\* explicit one never mixes with the system's (client/README.md, proxy).
ProxyAsAsked ==
    agent # NoAgent =>
        LET c == agent.config.set
        IN  /\ c["proxy.disabled"] # Unset => agent.proxy = [trust_env |-> "no", proxy |-> "none"]
            /\ agent.proxy.trust_env = "yes" => agent.proxy.proxy = "default"
=============================================================================
