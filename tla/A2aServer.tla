------------------------------ MODULE A2aServer ------------------------------
(***************************************************************************)
(* The A2A server (JSON-RPC handlers over an in-memory task store, message *)
(* and artifact conversion) and the client that reads its event stream.    *)
(*                                                                         *)
(* A request waits while the agent runs; other requests, for the same task *)
(* too, are handled meanwhile, in any order.                               *)
(***************************************************************************)
EXTENDS Naturals, FiniteSets

CONSTANTS
    Requests,       \* requests that run a task
    Subscriber,     \* one of them, which subscribes to the events of its task
    TaskIds,        \* ids clients choose
    Inputs,         \* the sets of part kinds messages are made of: see Kinds
    Outputs         \* the sets of output files runs leave: see Files

Kinds == {"text", "blank", "inline image", "inline file", "bad inline",
          "image uri", "file uri", "bad uri", "bare file", "other"}
Files == [dir : {1, 2}, name : {"x", "y"}, size : {"small", "big", "missing"}]

VARIABLES
    serving,    \* base URL and workspace are configured (can_serve_uri)
    request,    \* request -> [phase, id, parts]
    answer,     \* request -> its result
    tasks,      \* TaskStore
    served,     \* <<task, name>> -> file under .a2a_artifacts, and whose it is
    stream,     \* the event stream: pieces sent and read, events yielded
    outputs     \* request -> the files its run left (history)

vars == <<serving, request, answer, tasks, served, stream, outputs>>

States == {"completed", "failed", "cancelled"}
NoAnswer == [state |-> "none", parts |-> {}]
NoStream == [sent |-> 0, read |-> 0, yielded |-> 0]

TypeOK ==
    /\ serving \in BOOLEAN
    /\ request \in [Requests -> [phase : {"free", "running", "answered"}, id : TaskIds,
                                 parts : Inputs \union {{}}]]
    /\ answer \in [Requests -> [state : States \union {"none"},
                                parts : SUBSET ({"text", "inline", "uri"} \X Files)]]
    /\ tasks \in [TaskIds -> States \union {"none"}]
    /\ served \in [TaskIds \X {"x", "y"} -> [by : Requests \union {"none"}, dir : {0, 1, 2}]]
    /\ stream \in [sent : 0..4, read : 0..4, yielded : 0..2]
    /\ outputs \in [Requests -> Outputs \union {{}}]

Init ==
    /\ serving \in BOOLEAN
    /\ request = [r \in Requests |-> [phase |-> "free", id |-> CHOOSE t \in TaskIds : TRUE,
                                      parts |-> {}]]
    /\ answer = [r \in Requests |-> NoAnswer]
    /\ tasks = [t \in TaskIds |-> "none"]
    /\ served = [k \in TaskIds \X {"x", "y"} |-> [by |-> "none", dir |-> 0]]
    /\ stream = NoStream
    /\ outputs = [r \in Requests |-> {}]

-----------------------------------------------------------------------------
(* message_parts_to_message: what becomes of each part.                      *)

\* _decode_inline_file_part and _describe_uri_file_part succeed.
Resolved(kind) == kind \in {"inline image", "inline file", "image uri", "file uri"}
Attachment(kind) == kind \in {"inline image", "image uri"}
Text(kind) == kind = "text" \/ (kind \notin {"blank", "other"} /\ ~Attachment(kind))

\* Mutant of InputOf: a file that cannot be decoded leaves nothing behind.
InputOfResolved(parts) ==
    [text |-> {k \in parts : k = "text" \/ (Resolved(k) /\ ~Attachment(k))},
     attachments |-> {k \in parts : Attachment(k)}]

\* An image becomes an attachment, every other file a line of text; a message
\* of neither says so ("(No input)").
InputOf(parts) ==
    LET said == {k \in parts : Text(k)}
        seen == {k \in parts : Attachment(k)}
    IN  [text |-> IF said = {} /\ seen = {} THEN {"(No input)"} ELSE said,
         attachments |-> seen]

(* run_result_to_artifact_parts: small files go inline, big ones are copied  *)
(* and served, one after the other under their base names.                   *)

Inline(fs) == {f \in fs : f.size = "small"}
Linked(fs) == IF serving THEN {f \in fs : f.size = "big"} ELSE {}

\* Mutant of Place: one directory for the artifacts of all tasks.
PlaceShared(t, name) == <<CHOOSE u \in TaskIds : TRUE, name>>

\* Where a file of the task is copied to, and looked for by serve_artifact.
Place(t, name) == <<t, name>>

Copies(r, t, fs) ==
    [k \in DOMAIN served |->
        LET here == {f \in Linked(fs) : Place(t, f.name) = k}
            last == CHOOSE f \in here : \A g \in here : g.dir <= f.dir
        IN  IF here = {} THEN served[k] ELSE [by |-> r, dir |-> last.dir]]

-----------------------------------------------------------------------------
(* jsonrpc_handler and dispatch_request.                                     *)

\* What the client sends for a task: A2AClient.send.
Asked(t, parts) == [phase |-> "running", id |-> t, parts |-> parts]

\* handle_tasks_send up to agent_run(); a stream says "running" first.
Run(r, t) ==
    /\ request[r].phase = "free"
    /\ \E parts \in Inputs :
          request' = [request EXCEPT ![r] = Asked(t, parts)]
    /\ stream' = IF r = Subscriber THEN [stream EXCEPT !.sent = 2] ELSE stream
    /\ UNCHANGED <<serving, answer, tasks, served, outputs>>

\* The agent has answered or raised: the state replaces whatever is there.
RunEnds(r) ==
    LET t == request[r].id
    IN  /\ request[r].phase = "running"
        /\ \E state \in {"completed", "failed"}, files \in Outputs \union {{}} :
              /\ state = "failed" => files = {}      \* bound
              /\ tasks' = [tasks EXCEPT ![t] = state]
              /\ outputs' = [outputs EXCEPT ![r] = files]
              /\ served' = Copies(r, t, files)
              /\ answer' = [answer EXCEPT ![r] =
                               [state |-> state, parts |-> ({"inline"} \X Inline(files))
                                          \union ({"uri"} \X Linked(files))]]
        /\ request' = [request EXCEPT ![r].phase = "answered", ![r].parts = {}]
        /\ stream' = IF r = Subscriber THEN [stream EXCEPT !.sent = 4] ELSE stream
        /\ UNCHANGED serving

\* tasks/cancel says "cancelled" whatever the task does; only a stored state is
\* replaced, and a run at work goes on.  (tasks/get only reads.)
Cancel(t) ==
    /\ tasks[t] # "none"
    /\ tasks' = [tasks EXCEPT ![t] = "cancelled"]
    /\ UNCHANGED <<serving, request, answer, served, stream, outputs>>

-----------------------------------------------------------------------------
(* A2AClient.send_subscribe: each event is sent in two pieces, the second of *)
(* which ends it; the network delivers any number of them together.          *)

\* Mutant of Chunk: what follows the first event of a chunk is dropped.
ChunkFirst ==
    /\ \E n \in stream.read + 1 .. stream.sent :
          stream' = [stream EXCEPT !.read = n,
                                   !.yielded = IF n \div 2 > @ THEN @ + 1 ELSE @]
    /\ UNCHANGED <<serving, request, answer, tasks, served, outputs>>

Chunk ==
    /\ \E n \in stream.read + 1 .. stream.sent :
          stream' = [stream EXCEPT !.read = n, !.yielded = n \div 2]
    /\ UNCHANGED <<serving, request, answer, tasks, served, outputs>>

Next ==
    \/ \E r \in Requests : RunEnds(r) \/ \E t \in TaskIds : Run(r, t)
    \/ \E t \in TaskIds : Cancel(t)
    \/ Chunk

Spec == Init /\ [][Next]_vars

-----------------------------------------------------------------------------

\* Every run is given a message with something in it, and each file of a
\* message reaches it as an attachment or as a line of text; a subscriber that
\* has read its stream to the end was given both events, however the network
\* cut it (message_parts_to_message, handle_tasks_send, send_subscribe).
NothingLost ==
    /\ \A r \in Requests :
        LET parts == request[r].parts
            input == InputOf(parts)
        IN  request[r].phase = "running" =>
              /\ input.text # {} \/ input.attachments # {}
              /\ parts \ {"text", "blank", "other"} \subseteq input.text \union input.attachments
    /\ stream.read = 4 => stream.yielded = 2

\* The address a run gave out for a big file serves that file, as long as the
\* same task has not run again and the run left no other file of that name;
\* what other tasks leave behind never shows there
\* (run_result_to_artifact_parts, serve_artifact).
OwnArtifact ==
    \A r \in Requests : \A p \in answer[r].parts :
        LET t    == request[r].id
            same == {g \in outputs[r] : g.name = p[2].name /\ g.size = "big"}
        IN  (p[1] = "uri" /\ Cardinality(same) = 1
             /\ \A q \in Requests \ {r} : request[q].id # t \/ outputs[q] = {})
            => served[Place(t, p[2].name)] = [by |-> r, dir |-> p[2].dir]
=============================================================================
