------------------------------ MODULE CliSession ------------------------------
(***************************************************************************)
(* The command line client: the loop that reads lines, the task it runs in *)
(* the foreground or in the background, the pump of transport events, the  *)
(* host's control frames on stdin, and the session snapshots a later       *)
(* process resumes from.                                                   *)
(*                                                                         *)
(* One process at a time; its coroutines interleave at their awaits, and   *)
(* it may be killed, also in the middle of a snapshot.                     *)
(***************************************************************************)
EXTENDS Naturals

CONSTANTS
    Fronts,         \* of "chat" (json), "inline" (human chat), "script" (headless), "run"
    Sessions,       \* session ids; a process that does not resume takes a new one
    MaxTasks        \* bound: tasks entered by all processes

Nobody == "none"
Tasks == 0..MaxTasks            \* 0: no task

VARIABLES
    front,      \* the subcommand of the running process, or of the last one
    loop,       \* what the main coroutine awaits; "down" without a process
    shell,      \* CLISessionState
    active,     \* the asyncio task that executes, and what the agent does in it
    talk,       \* short-term memory: the tasks talked about, with their conversation
    files,      \* session -> snapshot
    order,      \* updated_at: <<s, t>> when t was saved after s
    watch,      \* _ApprovalWatchState: the task whose request is timed, or 0
    feed,       \* transport events the pump has not handled: <<kind, task>>
    entered,    \* tasks entered
    rc,         \* exit code of the process
    wrong,      \* a task or a command of this process has failed (history)
    ran,        \* a task of this process was executed (history)
    kept        \* session -> messages of the last completed save (history)

vars == <<front, loop, shell, active, talk, files, order, watch, feed, entered, rc,
          wrong, ran, kept>>

Cut == [is |-> "cut"]
None == [is |-> "none"]
Messages == SUBSET [conv : Sessions, task : 1..MaxTasks]
Modes == {"plan", "execute"}
NoSession == [mode |-> "execute", status |-> "idle", plan |-> FALSE, task |-> 0,
              conv |-> Nobody, failures |-> FALSE, approvals |-> {}]
NotRunning == [phase |-> "none", task |-> 0, conv |-> Nobody, asks |-> FALSE]
Loops == {"down", "prompt", "command", "preview", "foreground", "settle", "quitting", "draining"}

TypeOK ==
    /\ front \in Fronts /\ loop \in Loops
    /\ shell \in [mode : Modes, status : {"idle", "awaiting", "running"},
                  plan : BOOLEAN, task : Tasks, conv : Sessions \union {Nobody},
                  failures : BOOLEAN, approvals : SUBSET (1..MaxTasks)]
    /\ active \in [phase : {"none", "running", "cancelling", "done"}, task : Tasks,
                   conv : Sessions \union {Nobody}, asks : BOOLEAN]
    /\ talk \in Messages /\ order \subseteq Sessions \X Sessions /\ watch \in Tasks /\ entered \in Tasks
    /\ feed \subseteq {"pending", "resolved"} \X (1..MaxTasks)
    /\ rc \in {0, 1, 2} /\ wrong \in BOOLEAN /\ ran \in BOOLEAN
    /\ files \in [Sessions -> {None, Cut} \union
                     [is : {"snapshot"}, mode : Modes, talk : Messages]]
    /\ kept \in [Sessions -> {None} \union [is : {"saved"}, talk : Messages]]

-----------------------------------------------------------------------------
(* ClientSessionStore.                                                       *)

Readable == {s \in Sessions : files[s].is = "snapshot"}

\* load(): by id or the latest of those that can be read; {} raises.
Loads(target) ==
    IF target # "latest" THEN Readable \intersect {target}
    ELSE {s \in Readable : \A t \in Readable : <<s, t>> \notin order}

Save(s, messages) ==
    /\ files' = [files EXCEPT ![s] = [is |-> "snapshot", mode |-> shell.mode, talk |-> messages]]
    /\ kept' = [kept EXCEPT ![s] = [is |-> "saved", talk |-> messages]]
    /\ order' = {o \in order : s \notin {o[1], o[2]}} \union {<<t, s>> : t \in Sessions \ {s}}

-----------------------------------------------------------------------------

Running == active.phase \in {"running", "cancelling"}   \* _is_execution_running
Background == front \in {"chat", "inline"}
Down == loop = "down"

\* RUNNING or a background task still at work.
Busy == shell.status = "running" \/ (Background /\ Running)

\* _finalize_background_task_if_done().
Finalized(sh) ==
    IF Background /\ active.phase = "done"
    THEN [sh EXCEPT !.approvals = {}, !.status = IF @ = "running" THEN "idle" ELSE @]
    ELSE sh
Collected == IF Background /\ active.phase = "done" THEN NotRunning ELSE active

Init ==
    /\ front \in Fronts /\ loop = "down" /\ shell = NoSession /\ active = NotRunning
    /\ talk = {} /\ files = [s \in Sessions |-> None] /\ order = {} /\ watch = 0 /\ feed = {}
    /\ entered = 0 /\ rc = 0 /\ wrong = FALSE /\ ran = FALSE
    /\ kept = [s \in Sessions |-> None]

-----------------------------------------------------------------------------
(* The process comes and goes.                                               *)

\* A new conversation or a restored one: _build_session_state().
Start(f, mode, target) ==
    /\ Down /\ entered < MaxTasks
    /\ \/ /\ target = Nobody
          /\ \E s \in Sessions : files[s] = None /\ kept[s] = None
          /\ LET s == CHOOSE x \in Sessions : files[x] = None /\ kept[x] = None
             IN  shell' = [NoSession EXCEPT !.mode = mode, !.conv = s]
          /\ talk' = {}
       \/ \E s \in Loads(target) :
             /\ shell' = [NoSession EXCEPT !.mode = files[s].mode, !.conv = s]
             /\ talk' = files[s].talk
    /\ front' = f /\ loop' = "prompt" /\ rc' = 0 /\ wrong' = FALSE /\ ran' = FALSE
    /\ active' = NotRunning /\ watch' = 0 /\ feed' = {}
    /\ UNCHANGED <<files, order, entered, kept>>

ResumeFails(target) ==
    /\ Down /\ target # Nobody /\ Loads(target) = {} /\ rc # 2
    /\ rc' = 2 /\ wrong' = TRUE /\ ran' = FALSE /\ shell' = NoSession /\ talk' = {}
    /\ UNCHANGED <<front, loop, active, files, order, watch, feed, entered, kept>>

\* Arguments, a path or the configuration (2), or the runtime (1) are no good: there
\* is no session yet, and none is touched.
BootFails ==
    /\ Down /\ rc = 0
    /\ rc' \in {1, 2} /\ wrong' = TRUE /\ ran' = FALSE /\ shell' = NoSession /\ talk' = {}
    /\ UNCHANGED <<front, loop, active, files, order, watch, feed, entered, kept>>

Exits(code) ==
    /\ loop' = "down" /\ rc' = code /\ active' = NotRunning
    /\ watch' = 0 /\ feed' = {} /\ UNCHANGED front

\* kill -9, a snapshot half written or not.
Killed ==
    /\ ~Down
    /\ Exits(1) /\ talk' = {} /\ shell' = NoSession
    /\ \/ UNCHANGED files
       \/ /\ \/ Background /\ loop \in {"settle", "quitting"} /\ ~Running
             \/ front = "script" /\ loop = "prompt"
             \/ front = "run" /\ loop = "foreground"
          /\ files' = [files EXCEPT ![shell.conv] = Cut]
    /\ UNCHANGED <<order, entered, wrong, ran, kept>>

-----------------------------------------------------------------------------
(* Lines.                                                                    *)

\* After a line: chat waits for the task, a script reads the next line.
After(l) == IF Background THEN "settle" ELSE l

SetMode ==
    /\ loop = "prompt" /\ front # "run"
    /\ shell' = [Finalized(shell) EXCEPT !.mode = IF @ = "plan" THEN "execute" ELSE "plan"]
    /\ active' = Collected /\ loop' = After("prompt")
    /\ UNCHANGED <<front, talk, files, order, watch, feed, entered, rc, wrong, ran, kept>>

\* /tools, /approvals, /mcp...: the agent is asked, and answers or does not.
Asking ==
    /\ loop = "prompt" /\ front = "script"
    /\ loop' = "command"
    /\ UNCHANGED <<front, shell, active, talk, files, order, watch, feed, entered, rc, wrong, ran, kept>>

CommandDone ==
    /\ loop = "command" /\ loop' = "prompt"
    /\ UNCHANGED <<front, shell, active, talk, files, order, watch, feed, entered, rc, wrong, ran, kept>>

CommandFails ==
    /\ loop = IF front = "script" THEN "command" ELSE "prompt"
    /\ front # "run"
    /\ shell' = [Finalized(shell) EXCEPT !.failures = TRUE] /\ wrong' = TRUE
    /\ active' = Collected /\ loop' = After("prompt")
    /\ UNCHANGED <<front, talk, files, order, watch, feed, entered, rc, ran, kept>>

Reject ==
    /\ loop = "prompt" /\ front # "run"
    /\ LET sh == Finalized(shell)
       IN  shell' = [sh EXCEPT !.plan = FALSE, !.task = 0,
                               !.status = IF active.phase \in {"running", "cancelling"} THEN @ ELSE "idle"]
    /\ active' = Collected /\ loop' = After("prompt")
    /\ UNCHANGED <<front, talk, files, order, watch, feed, entered, rc, wrong, ran, kept>>

\* The agent starts on a task: the user's message is in its memory.
Executes(n, sh) ==
    /\ shell' = [sh EXCEPT !.status = "running"]
    /\ active' = [phase |-> "running", task |-> n, conv |-> sh.conv, asks |-> FALSE]
    /\ talk' = talk \union {[conv |-> sh.conv, task |-> n]}
    /\ watch' = 0 /\ ran' = TRUE
    /\ loop' = After("foreground")

Refused ==
    /\ shell' = Finalized(shell) /\ active' = Collected /\ loop' = After("prompt")
    /\ UNCHANGED <<talk, watch, ran>>

\* A line of plain text in execute mode.
EnterTask ==
    /\ loop = "prompt" /\ entered < MaxTasks
    /\ shell.mode = "execute" /\ (front = "run" => ~ran)
    /\ entered' = entered + 1
    /\ IF Background /\ Running THEN Refused ELSE Executes(entered + 1, Finalized(shell))
    /\ UNCHANGED <<front, files, order, feed, rc, wrong, kept>>

\* In plan mode a plan is drawn up first; nothing else of the loop runs meanwhile.
EnterPlan ==
    /\ loop = "prompt" /\ entered < MaxTasks
    /\ shell.mode = "plan" /\ (front = "run" => shell.task = 0)
    /\ entered' = entered + 1
    /\ shell' = [Finalized(shell) EXCEPT !.task = entered + 1]
    /\ active' = Collected /\ loop' = "preview"
    /\ UNCHANGED <<front, talk, files, order, watch, feed, rc, wrong, ran, kept>>

Previewed ==
    /\ loop = "preview"
    /\ shell' = [shell EXCEPT !.plan = TRUE, !.status = IF front = "run" THEN @ ELSE "awaiting"]
    /\ loop' = After("prompt")
    /\ UNCHANGED <<front, active, talk, files, order, watch, feed, entered, rc, wrong, ran, kept>>

PreviewFails ==
    /\ loop = "preview"
    /\ wrong' = TRUE
    /\ IF front = "run"
       THEN Exits(1) /\ UNCHANGED shell
       ELSE /\ shell' = [shell EXCEPT !.plan = FALSE, !.task = 0, !.failures = TRUE]
            /\ loop' = After("prompt") /\ UNCHANGED <<front, rc, active, watch, feed>>
    /\ UNCHANGED <<talk, files, order, entered, ran, kept>>

\* /approve; "run --approve" goes on by itself, "run" without it is done.
Approve ==
    /\ loop = "prompt" /\ shell.task # 0
    /\ IF Background /\ Running THEN Refused
       ELSE Executes(shell.task, [Finalized(shell) EXCEPT !.plan = FALSE, !.task = 0])
    /\ UNCHANGED <<front, files, order, feed, entered, rc, wrong, kept>>

PlanOnly ==
    /\ loop = "prompt" /\ front = "run" /\ shell.plan
    /\ Exits(0)
    /\ UNCHANGED <<shell, talk, files, order, entered, wrong, ran, kept>>

\* /interrupt and /quit cancel the task; it ends when it gets to run.
Interrupt ==
    /\ loop = "prompt" /\ Background /\ Running
    /\ active' = [active EXCEPT !.phase = "cancelling"] /\ loop' = "settle"
    /\ UNCHANGED <<front, shell, talk, files, order, watch, feed, entered, rc, wrong, ran, kept>>

Quit ==
    /\ loop = "prompt" /\ front # "run"
    /\ shell' = Finalized(shell)
    /\ active' = IF Background /\ Running THEN [active EXCEPT !.phase = "cancelling"]
                 ELSE Collected
    /\ loop' = "quitting"
    /\ UNCHANGED <<front, talk, files, order, watch, feed, entered, rc, wrong, ran, kept>>

\* End of input at the chat prompt.
EndOfInput ==
    /\ loop = "prompt" /\ Background
    /\ loop' = "draining"
    /\ UNCHANGED <<front, shell, active, talk, files, order, watch, feed, entered, rc, wrong, ran, kept>>

-----------------------------------------------------------------------------
(* Between the lines of a chat, and at the end.                              *)

\* _wait_until_prompt_allowed() returns with the task still at work: a prompt
\* for the approval it waits for; no snapshot yet.
PromptForApproval ==
    /\ loop \in {"settle", "quitting"} /\ front = "chat"
    /\ Running /\ shell.approvals # {}
    /\ loop' = IF loop = "settle" THEN "prompt" ELSE "draining"
    /\ UNCHANGED <<front, shell, active, talk, files, order, watch, feed, entered, rc, wrong, ran, kept>>

\* It returns with no task: the snapshot is written, and the prompt is back or
\* the process exits.
Settle ==
    /\ loop \in {"settle", "quitting"} /\ Background /\ ~Running
    /\ shell' = Finalized(shell)
    /\ \/ /\ Save(shell.conv, talk)
          /\ IF loop = "quitting" THEN Exits(0)
             ELSE /\ loop' = "prompt" /\ active' = Collected
                  /\ UNCHANGED <<front, rc, watch, feed>>
       \/ UNCHANGED <<files, order, kept>> /\ Exits(1)
    /\ UNCHANGED <<talk, entered, wrong, ran>>

\* Mutant of ScriptEnds: only what happens to the snapshot counts.
ScriptEndsSaved ==
    /\ front = "script" /\ loop \in {"prompt", "quitting"}
    /\ \/ Save(shell.conv, talk) /\ Exits(0)
       \/ UNCHANGED <<files, order, kept>> /\ Exits(1)
    /\ UNCHANGED <<shell, talk, entered, wrong, ran>>

\* The end of a script: one snapshot, and the exit code of all its lines.
ScriptEnds ==
    /\ front = "script" /\ loop \in {"prompt", "quitting"}
    /\ \/ Save(shell.conv, talk) /\ Exits(IF shell.failures THEN 1 ELSE 0)
       \/ UNCHANGED <<files, order, kept>> /\ Exits(1)
    /\ UNCHANGED <<shell, talk, entered, wrong, ran>>

\* A chat that ends with a task at work waits for it, and writes no snapshot.
Drained ==
    /\ loop = "draining" /\ ~Running
    /\ Exits(0) /\ shell' = Finalized(shell)
    /\ UNCHANGED <<talk, files, order, entered, wrong, ran, kept>>

-----------------------------------------------------------------------------
(* The task.                                                                 *)

\* Its outcome is reported where it ends; the answer joins the memory.
Ended(ok, said) ==
    /\ talk' = said
    /\ wrong' = (wrong \/ ~ok)
    /\ IF front = "run"
       THEN /\ shell' = [shell EXCEPT !.approvals = {}]
            /\ \/ Save(shell.conv, said) /\ Exits(IF ok THEN 0 ELSE 1)
               \/ UNCHANGED <<files, order, kept>> /\ Exits(1)
       ELSE /\ shell' = IF Background THEN [shell EXCEPT !.failures = @ \/ ~ok]
                        ELSE [shell EXCEPT !.failures = @ \/ ~ok, !.approvals = {},
                                           !.status = "idle"]
            /\ active' = IF Background THEN [active EXCEPT !.phase = "done", !.asks = FALSE]
                         ELSE NotRunning
            /\ watch' = 0
            /\ loop' = IF Background THEN loop ELSE "prompt"
            /\ UNCHANGED <<front, files, order, feed, rc, kept>>

Finishes ==
    /\ active.phase = "running" /\ ~active.asks
    /\ \E ok \in BOOLEAN :
          Ended(ok, talk \union {[conv |-> active.conv, task |-> active.task]})
    /\ UNCHANGED <<entered, ran>>

Cancelled ==
    /\ active.phase = "cancelling"
    /\ Ended(FALSE, talk)
    /\ UNCHANGED <<entered, ran>>

\* A tool call waits for an approval (one for each task), until it is answered:
\* inline, by /approvals, by a control frame, or by the policy of "run".
Asks ==
    /\ active.phase = "running" /\ ~active.asks
    /\ ~\E e \in feed : e[2] = active.task
    /\ active' = [active EXCEPT !.asks = TRUE] /\ feed' = feed \union {<<"pending", active.task>>}
    /\ UNCHANGED <<front, loop, shell, talk, files, order, watch, entered, rc, wrong, ran, kept>>

Answered ==
    /\ active.phase = "running" /\ active.asks
    /\ active' = [active EXCEPT !.asks = FALSE]
    /\ feed' = feed \union {<<"resolved", active.task>>}
    /\ UNCHANGED <<front, loop, shell, talk, files, order, watch, entered, rc, wrong, ran, kept>>

\* EventPump: events in the order in which they were sent.
Pump ==
    /\ ~Down
    /\ \E e \in feed :
        /\ e[1] = "resolved" => <<"pending", e[2]>> \notin feed
        /\ feed' = feed \ {e}
        /\ IF e[1] = "pending"
           THEN /\ shell' = [shell EXCEPT !.approvals = @ \union {e[2]}]
                /\ watch' = IF Background THEN watch ELSE e[2]
           ELSE /\ shell' = [shell EXCEPT !.approvals = @ \ {e[2]}]
                /\ watch' = IF watch = e[2] THEN 0 ELSE watch
    /\ UNCHANGED <<front, loop, active, talk, files, order, entered, rc, wrong, ran, kept>>

\* _execute_task_with_approval_timeout() gives up on the approval.
ApprovalTimeout ==
    /\ loop = "foreground" /\ watch # 0 /\ active.phase = "running"
    /\ active' = [active EXCEPT !.phase = "cancelling"]
    /\ UNCHANGED <<front, loop, shell, talk, files, order, watch, feed, entered, rc, wrong, ran, kept>>

-----------------------------------------------------------------------------
(* Control frames; the others change nothing here.                           *)

\* The control loop runs where the main one awaits something.
Headless == \/ front = "script" /\ loop \in {"command", "preview", "foreground"}
            \/ front = "run" /\ loop = "foreground"

\* Mutant of ResumeFrame: does not look whether a task is at work.
ResumeFrameAnytime(target) ==
    /\ Headless
    /\ \E s \in Loads(target) :
          /\ talk' = files[s].talk
          /\ shell' = [shell EXCEPT !.mode = files[s].mode, !.conv = s, !.status = "idle",
                                    !.plan = FALSE, !.task = 0, !.approvals = {}]
    /\ UNCHANGED <<front, loop, active, files, order, watch, feed, entered, rc, wrong, ran, kept>>

\* session:resume.  It is refused while a task is at work, but not while a plan
\* is being drawn up or waits for approval.
ResumeFrame(target) ==
    /\ Headless
    /\ ~Busy
    /\ \E s \in Loads(target) :
          /\ talk' = files[s].talk
          /\ shell' = [shell EXCEPT !.mode = files[s].mode, !.conv = s, !.status = "idle",
                                    !.plan = FALSE, !.task = 0, !.approvals = {}]
    /\ UNCHANGED <<front, loop, active, files, order, watch, feed, entered, rc, wrong, ran, kept>>

Targets == Sessions \union {"latest"}

Next ==
    \/ \E f \in Fronts, mode \in Modes, t \in Targets \union {Nobody} : Start(f, mode, t)
    \/ \E t \in Targets : ResumeFails(t) \/ ResumeFrame(t)
    \/ BootFails \/ SetMode \/ Asking \/ CommandDone \/ CommandFails \/ Reject \/ EnterTask \/ EnterPlan \/ Previewed \/ PreviewFails
    \/ Approve \/ PlanOnly \/ Interrupt \/ Quit \/ EndOfInput
    \/ PromptForApproval \/ Settle \/ ScriptEnds \/ Drained
    \/ Finishes \/ Cancelled \/ Asks \/ Answered \/ Pump \/ ApprovalTimeout \/ Killed

Spec == Init /\ [][Next]_vars

-----------------------------------------------------------------------------

\* The memory of a process and every snapshot hold one conversation: a message
\* exchanged in one session is never saved under another, whatever the host
\* resumes while tasks and previews come and go; and a snapshot that can be
\* read is the last one whose save was completed (session_store.save/load,
\* _resume_session_via_control, _build_session_state).
SnapshotOwnsMessages ==
    /\ ~Down => \A m \in talk : m.conv = shell.conv
    /\ \A s \in Readable : /\ \A m \in files[s].talk : m.conv = s
                           /\ kept[s] = [is |-> "saved", talk |-> files[s].talk]

\* A script or a "run" whose exit code is 0 had no task, preview or command that
\* failed, however many lines and resumes later it ended; and what its
\* conversation said is in the snapshot (_execute_task_and_report, _run_cli_loop,
\* _run_chat, main).
ExitCodeTrue ==
    (Down /\ front \in {"script", "run"} /\ rc = 0 /\ shell # NoSession) =>
        /\ ~wrong
        /\ ran => files[shell.conv].is = "snapshot" /\ files[shell.conv].talk = talk
=============================================================================
