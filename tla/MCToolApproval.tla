--------------------------- MODULE MCToolApproval ---------------------------
(* Small instances of ToolApproval for TLC. *)
EXTENDS ToolApproval, TLC

CONSTANTS c1, c2, c3, run, ls, status, A, B, k1, k2, k3, k4

Git(words) == [capability |-> run, hash |-> words[Len(words)], command |-> words]

\* c1 and c2 make the same invocation from two sessions, c3 another one that
\* shares a command prefix with it, from a client without a session.
MCInvocation ==
    (c1 :> [capability |-> run, hash |-> status, command |-> <<"git", "status">>, session |-> A])
 @@ (c2 :> [capability |-> run, hash |-> status, command |-> <<"git", "status">>, session |-> B])
 @@ (c3 :> [capability |-> run, hash |-> ls, command |-> <<"git", "log">>, session |-> NoSession])

NothingSaved == [b \in Persisted |-> {}]

Choice(scope, matcher, value, actor) ==
    [scope |-> scope, matcher |-> matcher, value |-> value, actor |-> actor]

\* Calls that meet while two rules are made: a session rule over the whole
\* capability, a workspace rule over a given prefix.
CallOptions == {Choice("session", "capability", <<>>, NoSession),
                Choice("workspace", "command_prefix", <<"git">>, NoSession)}

\* What reaches the files and what a restart brings back: the granter's
\* session, the exact parameters, the prefix defaulted to the whole command.
FileOptions == {Choice("session", "exact_params", <<>>, B),
                Choice("workspace", "exact_params", <<>>, NoSession),
                Choice("user", "command_prefix", <<>>, NoSession)}

\* Two hand-written files: the workspace's clears the capability once, and the
\* user's denies it by a rule whose scope is the workspace.
HandWritten ==
    [b \in Persisted |->
        IF b = "user"
        THEN {[id |-> k4, capability |-> run, decision |-> "deny", scope |-> "workspace",
               matcher |-> "capability", value |-> <<>>, session |-> NoSession]}
        ELSE {[id |-> k3, capability |-> run, decision |-> "allow", scope |-> "once",
               matcher |-> "capability", value |-> <<>>, session |-> NoSession]}]

Interchangeable == Permutations(RuleIds \ {k3, k4}) \cup Permutations(Requests)
=============================================================================
