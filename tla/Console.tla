------------------------------- MODULE Console -------------------------------
(***************************************************************************)
(* The terminal of an agent: the stdio client reads lines and sends each   *)
(* as a message, an action or a control; actions are routed to handlers    *)
(* and answered; and while a turn asks its user (the tool ask_user) a      *)
(* second reader waits at the same terminal.  Whoever waits first has the  *)
(* next line.                                                              *)
(*                                                                         *)
(* The client sends one line at a time: an action that waits, or a full    *)
(* inbox, keeps it from reading on.                                        *)
(***************************************************************************)
EXTENDS Naturals, Sequences, FiniteSets, Functions

CONSTANTS
    Lines,      \* what the user may type: see TypeOK
    Questions,  \* what one call of the tool may ask: sequences of [options, multi]
    Handled,    \* actions with a registered handler
    MaxLines, MaxInbox

Controls == {"interrupt", "pause", "retry", "reverse"}
Actions == {"actions:list", "approvals:list", "approvals:poll", "approvals:grant",
            "approvals:deny", "approvals:revoke", "mcp:list", "mcp:reload", "mcp:show-tool"}
Scopes == {"none", "once", "session", "workspace", "user"}

VARIABLES
    typed,      \* lines typed so far (history)
    readers,    \* who waits at the terminal, first come first served
    sending,    \* the line the client is sending: its envelope, or none
    inbox,      \* messages for the agent
    turn,       \* the agent: "idle", "working", "asking", "approval"
    questions,  \* what ask_user has yet to ask, the question on the screen first
    pending,    \* the approval request that waits, "none" without
    outcomes    \* what became of the lines (history)

vars == <<typed, readers, sending, inbox, turn, questions, pending, outcomes>>

\* An envelope; action and control payloads name what they want.
Env(k, what, params) == [kind |-> k, what |-> what, params |-> params]
Idle == Env("none", "none", {})

TypeOK ==
    /\ \A line \in Lines : /\ line.form \in {"blank", "quit", "plain", "slash"}
                           /\ line.split \in BOOLEAN
                           /\ line.picks \in Seq(Nat)
    /\ typed \in 0..MaxLines
    /\ Range(readers) \subseteq {"prompt", "question", "left"} /\ Len(readers) <= 3
    /\ sending.kind \in {"none", "message", "action", "control", "stopped"}
    /\ inbox \in 0..MaxInbox
    /\ turn \in {"idle", "working", "asking", "approval"}
    /\ \A q \in Range(questions) : q.options \in 0..4 /\ q.multi \in BOOLEAN
    /\ pending \in {"none", "r1"}
    /\ Len(outcomes) <= MaxLines

Init ==
    /\ typed = 0 /\ readers = <<"prompt">> /\ sending = Idle /\ inbox = 0 /\ turn = "idle"
    /\ questions = <<>> /\ pending = "none" /\ outcomes = <<>>

-----------------------------------------------------------------------------
(* Lines.                                                                    *)

\* _extract_action_params: named arguments win over positional ones.
Params(action, words, given) ==
    LET name(i) == CASE action \in {"approvals:grant", "approvals:deny"} -> "request_id"
                     [] action = "approvals:revoke" -> "rule_id"
                     [] i = 1 -> "mcp_name"
                     [] OTHER -> "tool_name"
        takes == IF action = "mcp:show-tool" THEN 2
                 ELSE IF action \in {"approvals:list", "approvals:poll"} THEN 0 ELSE 1
        added == {<<name(i), words[i]>> : i \in 1..(IF Len(words) < takes THEN Len(words) ELSE takes)}
    IN  given \union {p \in added : \A g \in given : g[1] # p[1]}

\* _normalize_slash_action: "/resource:action" alone, or "/resource action ..."; all
\* else is an action no one knows.
SlashAction(line) ==
    LET bare == line.words = <<>> /\ line.given = {}
    IN  IF line.head \in Actions /\ ~line.split /\ bare THEN Env("action", line.head, {})
        ELSE IF line.head \in Actions /\ line.split
             THEN Env("action", line.head, Params(line.head, line.words, line.given))
        ELSE Env("action", "unknown", {})

\* StdioClientChannel.start, for a line that is neither blank nor a quit command.
EnvelopeOf(line) ==
    IF line.form = "plain" THEN Env("message", "chat", {})
    ELSE IF line.head = "" THEN Env("action", "actions:list", {})
    ELSE IF line.head \in Controls /\ line.words = <<>> /\ line.given = {}
         THEN Env("control", line.head, {})
    ELSE SlashAction(line)

\* CLIUserInputHandler._parse_response: numbers of options, several even where
\* one was asked for, the others dropped; without a single one, the line itself.
Interpreted(line) ==
    LET chosen == {i \in DOMAIN line.picks : line.picks[i] \in 1..Head(questions).options}
    IN  IF chosen = {} THEN "text" ELSE IF Cardinality(chosen) = 1 THEN "choice" ELSE "choices"

-----------------------------------------------------------------------------
(* Actions.                                                                  *)

Of(params, name) ==
    LET found == {p \in params : p[1] = name} IN IF found = {} THEN "none" ELSE (CHOOSE p \in found : TRUE)[2]

\* ApprovalsActionHandler: a request is named, its scope is known, a session only
\* goes with the scope session; then the manager finds the request pending.
Decides(params) ==
    /\ Of(params, "request_id") # "none"
    /\ Of(params, "scope") \in Scopes
    /\ Of(params, "session_id") # "none" => Of(params, "scope") = "session"
    /\ Of(params, "request_id") = pending

\* McpActionHandler, whose manager may be missing.
McpOk(what, params) ==
    what = "mcp:show-tool" => Of(params, "mcp_name") # "none" /\ Of(params, "tool_name") # "none"

\* Mutant of Routed: what a handler raises is not answered.
RoutedQuietly(env) ==
    IF env.what \in {"approvals:grant", "approvals:deny"} /\ ~Decides(env.params) THEN "nothing"
    ELSE "ok"

\* ActionHandlerDispatcher._route_action.
Routed(env) ==
    IF env.what = "actions:list" THEN "ok"
    ELSE IF env.what \notin Handled THEN "unsupported"
    ELSE IF \/ env.what \in {"approvals:grant", "approvals:deny"} /\ ~Decides(env.params)
            \/ env.what = "approvals:revoke" /\ Of(env.params, "rule_id") = "none"
            \/ env.what \in {"mcp:list", "mcp:reload", "mcp:show-tool"}
               /\ ~McpOk(env.what, env.params)
         THEN "failed"
    ELSE "ok"

\* A line is done with; the client reads on.
Done(outcome) ==
    /\ outcomes' = IF outcome.got = "nothing" THEN outcomes ELSE Append(outcomes, outcome)
    /\ sending' = Idle
    /\ readers' = Append(readers, "prompt")

-----------------------------------------------------------------------------
(* The client.                                                               *)

\* A line is typed and the first reader has it.
TypeForPrompt ==
    /\ readers # <<>> /\ Head(readers) = "prompt" /\ typed < MaxLines
    /\ typed' = typed + 1
    /\ \E line \in Lines :
          IF line.form = "blank"
          THEN /\ readers' = Append(Tail(readers), "prompt") /\ UNCHANGED sending
               /\ outcomes' = Append(outcomes, [got |-> "ignored", by |-> "prompt"])
          ELSE IF line.form = "quit"
          THEN /\ readers' = Tail(readers) /\ sending' = Env("stopped", "none", {})
               /\ outcomes' = Append(outcomes, [got |-> "quit", by |-> "prompt"])
          ELSE /\ readers' = Tail(readers) /\ sending' = EnvelopeOf(line)
               /\ UNCHANGED outcomes
    /\ UNCHANGED <<inbox, turn, questions, pending>>

\* The question's reader has it, a command as much as an answer; for the next
\* question of the call the handler waits again, behind whoever waits by then.
TypeForQuestion ==
    /\ readers # <<>> /\ Head(readers) = "question" /\ typed < MaxLines
    /\ typed' = typed + 1
    /\ \E line \in Lines :
          outcomes' = Append(outcomes, [got |-> Interpreted(line), by |-> "question"])
    /\ questions' = Tail(questions)
    /\ IF Tail(questions) = <<>>
       THEN readers' = Tail(readers) /\ turn' = "working"
       ELSE readers' = Append(Tail(readers), "question") /\ UNCHANGED turn
    /\ UNCHANGED <<sending, inbox, pending>>

\* The reader of a question whose turn was interrupted: its thread is still in
\* input() and takes the line, for nobody.
TypeForNobody ==
    /\ readers # <<>> /\ Head(readers) = "left" /\ typed < MaxLines
    /\ typed' = typed + 1
    /\ outcomes' = Append(outcomes, [got |-> "swallowed", by |-> "left"])
    /\ readers' = Tail(readers)
    /\ UNCHANGED <<sending, inbox, turn, questions, pending>>

\* Mutant of SendMessage: a full inbox takes the message all the same.
SendMessageAnyhow ==
    /\ sending.kind = "message"
    /\ inbox' = inbox + 1
    /\ Done([got |-> "queued", by |-> "prompt"])
    /\ UNCHANGED <<typed, turn, questions, pending>>

\* _enqueue_inbox: a message waits for room.
SendMessage ==
    /\ sending.kind = "message" /\ inbox < MaxInbox
    /\ inbox' = inbox + 1
    /\ Done([got |-> "queued", by |-> "prompt"])
    /\ UNCHANGED <<typed, turn, questions, pending>>

\* An action is handled at once, and answered whatever comes of it.  Polling for
\* approvals waits for one.
SendAction ==
    /\ sending.kind = "action"
    /\ ~(sending.what = "approvals:poll" /\ sending.what \in Handled /\ pending = "none")
    /\ LET result == Routed(sending)
           decides == result = "ok" /\ sending.what \in {"approvals:grant", "approvals:deny"}
       IN  /\ Done([got |-> IF decides THEN "decided" ELSE result, by |-> "prompt"])
           /\ pending' = IF decides THEN "none" ELSE pending
           /\ turn' = IF decides THEN "working" ELSE turn
    /\ UNCHANGED <<typed, inbox, questions>>

\* ACTION_TIMEOUT, after action_timeout_seconds.
ActionTimesOut ==
    /\ sending.kind = "action" /\ sending.what = "approvals:poll" /\ pending = "none"
    /\ Done([got |-> "timeout", by |-> "prompt"])
    /\ UNCHANGED <<typed, inbox, turn, questions, pending>>

\* handle_control: an interrupt ends the turn; the thread of a question is left.
SendControl ==
    /\ sending.kind = "control"
    /\ outcomes' = Append(outcomes, [got |-> "control", by |-> "prompt"]) /\ sending' = Idle
    /\ readers' = Append([i \in DOMAIN readers |->
                             IF sending.what = "interrupt" THEN "left" ELSE readers[i]], "prompt")
    /\ IF sending.what = "interrupt"
       THEN turn' = "idle" /\ pending' = "none" /\ questions' = <<>>
       ELSE UNCHANGED <<turn, pending, questions>>
    /\ UNCHANGED <<typed, inbox>>

-----------------------------------------------------------------------------
(* The agent.                                                                *)

TurnBegins ==
    /\ turn = "idle" /\ inbox > 0
    /\ turn' = "working" /\ inbox' = inbox - 1
    /\ UNCHANGED <<typed, readers, sending, questions, pending, outcomes>>

\* AskUserTool.execute with the handler of the terminal.
Ask ==
    /\ turn = "working" /\ Len(readers) < 2
    /\ turn' = "asking" /\ questions' \in Questions
    /\ readers' = Append(readers, "question")
    /\ UNCHANGED <<typed, sending, inbox, pending, outcomes>>

\* A tool of the turn needs the user's approval.
NeedApproval ==
    /\ turn = "working"
    /\ turn' = "approval" /\ pending' = "r1"
    /\ UNCHANGED <<typed, readers, sending, inbox, questions, outcomes>>

TurnEnds ==
    /\ turn = "working"
    /\ turn' = "idle"
    /\ UNCHANGED <<typed, readers, sending, inbox, questions, pending, outcomes>>

Next ==
    \/ TypeForPrompt \/ TypeForQuestion \/ TypeForNobody
    \/ SendMessage \/ SendAction \/ ActionTimesOut \/ SendControl
    \/ TurnBegins \/ Ask \/ NeedApproval \/ TurnEnds

Spec == Init /\ [][Next]_vars

-----------------------------------------------------------------------------
(* Properties.                                                               *)

\* No line is lost at the terminal: each is being sent or has one outcome; a turn
\* waits for an approval exactly while its request is pending.
LinesAccounted ==
    /\ typed = Len(outcomes) + (IF sending.kind \in {"message", "action", "control"} THEN 1 ELSE 0)
    /\ (turn = "approval") = (pending # "none")
=============================================================================
