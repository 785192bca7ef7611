------------------------------- MODULE Skills -------------------------------
(***************************************************************************)
(* Skills: loaders read skill directories into a store, the tool "skill"   *)
(* resolves what the model asks for, and the agent mounts what was         *)
(* resolved in the context, where the next assembly adds it to the system  *)
(* prompt.  The store's catalogue is in the tool's description, written    *)
(* once, when the agent is built.                                          *)
(*                                                                         *)
(* Names, queries and texts are identities; how well a text answers a      *)
(* query is a number given with the text.                                  *)
(***************************************************************************)
EXTENDS Naturals, Sequences, FiniteSets, Functions, Listings

CONSTANTS
    Dirs,      \* skill directories: [root, name, id, blank, score]; score gives a number
               \* to each query, and the id is the name in lower case, with dashes
    Queries,   \* what models ask for that is no id or name
    Disabled,  \* ids excluded by the builder
    MaxLoads

Roots == 1..2  \* the workspace's and the user's directory of skills

VARIABLES
    disk,      \* the directories there are
    setup,     \* [mounts: the agent mounts skills, prompt: it has a system prompt]
    skills,    \* the store's skills, in the order loaded
    loads,     \* how often the store was loaded (history)
    catalogue, \* ids the tool's description lists
    mounted,   \* the skill in the context, "none" without
    told       \* what the last tool results said: ids promised for the next model call

vars == <<disk, setup, skills, loads, catalogue, mounted, told>>

Ids == {d.id : d \in Dirs}

TypeOK ==
    /\ disk \subseteq Dirs
    /\ setup \in [mounts : BOOLEAN, prompt : BOOLEAN]
    /\ Range(skills) \subseteq Dirs
    /\ loads \in 0..MaxLoads
    /\ catalogue \subseteq Ids /\ told \subseteq Ids
    /\ mounted \in Ids \union {"none"}

Init ==
    /\ disk \in SUBSET Dirs
    /\ setup \in [mounts : BOOLEAN, prompt : BOOLEAN]
    /\ skills = <<>> /\ loads = 0 /\ catalogue = {} /\ mounted = "none" /\ told = {}

-----------------------------------------------------------------------------
(* Loading.                                                                  *)

\* A directory lists its children in any order.
Orders(S) == {s \in [1..Cardinality(S) -> S] : \A i, j \in DOMAIN s : s[i] = s[j] => i = j}

\* FileSystemSkillLoader._load_skill: without a description and a body it is none.
Loaded(root) == Orders({d \in disk : d.root = root /\ ~d.blank})

\* Of one id the first is kept, by each loader and by the store.
FirstOfId(s) ==
    Taken(s, {i \in DOMAIN s : \A j \in 1..(i - 1) : s[j].id # s[i].id})

\* Mutant of Store: excluded before the ids are compared, and only there.
StoreByName(s) == FirstOfId(Taken(s, {i \in DOMAIN s : s[i].name \notin Disabled}))

\* SkillStore._load.
Store(s) == FirstOfId(Taken(s, {i \in DOMAIN s : s[i].id \notin Disabled}))

-----------------------------------------------------------------------------
(* Resolving.                                                                *)

\* SkillStore.select_for_task, limit 1: the best score, by id among equals; without
\* any score the first of the store.
Selected(q) ==
    LET score(d) == IF q \in DOMAIN d.score THEN d.score[q] ELSE 0
        found == {d \in Range(skills) : score(d) > 0}
        best == {d \in found : \A e \in found : score(e) <= score(d)}
    IN  IF skills = <<>> THEN {} ELSE IF found = {} THEN {skills[1]} ELSE {CHOOSE d \in best : TRUE}

\* Mutant of Resolved: the selection is asked first.
ResolvedBest(q) == Selected(q)

\* _resolve_skill: by id, by name, else by selection; {} without a skill.
Resolved(q) ==
    LET byId == {d \in Range(skills) : d.id = q}
        byName == {d \in Range(skills) : d.name = q}
    IN  IF byId # {} THEN byId ELSE IF byName # {} THEN byName ELSE Selected(q)

-----------------------------------------------------------------------------
(* Steps.                                                                    *)

\* The user adds or removes a directory.
Edit ==
    /\ \E d \in Dirs : disk' = IF d \in disk THEN disk \ {d} ELSE disk \union {d}
    /\ UNCHANGED <<setup, skills, loads, catalogue, mounted, told>>

\* SkillStoreBuilder.build and SearchSkillTool.__init__: the workspace's before the user's.
Build ==
    /\ loads = 0
    /\ loads' = 1
    /\ \E a \in Loaded(1), b \in Loaded(2) :
          /\ skills' = Store(FirstOfId(a \o b))
          /\ catalogue' = {d.id : d \in Range(Store(FirstOfId(a \o b)))}
    /\ UNCHANGED <<disk, setup, mounted, told>>

\* SkillStore.reload: the store follows the disk, the description does not.
Reload ==
    /\ loads > 0 /\ loads < MaxLoads
    /\ loads' = loads + 1
    /\ \E a \in Loaded(1), b \in Loaded(2) : skills' = Store(FirstOfId(a \o b))
    /\ UNCHANGED <<disk, setup, catalogue, mounted, told>>

\* _mount_skill_from_result: in place of the one before, by the agent that mounts.
Mounted(d) == IF setup.mounts THEN d.id ELSE mounted

\* SearchSkillTool.execute: what is found is promised.
CallTool ==
    /\ loads > 0
    /\ \E q \in Queries \union Ids \union {d.name : d \in Dirs} : \E d \in Resolved(q) :
          /\ told' = told \union {d.id}
          /\ mounted' = Mounted(d)
    /\ UNCHANGED <<disk, setup, skills, loads, catalogue>>

\* Context.assemble_for_model: a mounted skill is added to a system prompt.
CallModel ==
    /\ loads > 0 /\ told # {}
    /\ told' = {}
    /\ UNCHANGED <<disk, setup, skills, loads, catalogue, mounted>>

Next == Edit \/ Build \/ Reload \/ CallTool \/ CallModel

Spec == Init /\ [][Next]_vars

-----------------------------------------------------------------------------
(* Properties.                                                               *)

\* What the model asks for by an id or a name of the store is what it gets, however
\* well another skill's text matches; the store has one skill of each id, none that
\* was disabled, mounted or not; and the one skill promised to the model since its last
\* call is mounted, by an agent that mounts (_resolve_skill, SkillStore,
\* _mount_skill_from_result).
NamedIsServed ==
    /\ \A d \in Range(skills) : Resolved(d.id) = {d} /\ Resolved(d.name) = {d}
    /\ mounted \notin Disabled /\ catalogue \intersect Disabled = {}
    /\ setup.mounts => \A id \in told : Cardinality(told) = 1 => mounted = id
=============================================================================
