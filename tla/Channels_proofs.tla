-------------------------- MODULE Channels_proofs --------------------------
(***************************************************************************)
(* Who asks and gets what he asked for, for every value of the constants:  *)
(* the sessions of the command line, the MCP client, the A2A server, the   *)
(* terminal, the configuration and the builders of agents, the ReAct loop  *)
(* and the runs nobody sits at.  Where two of them use a name for          *)
(* different things, one has another here.                                 *)
(***************************************************************************)
EXTENDS Naturals, Sequences, FiniteSets, SequenceFacts, SequenceTheorems, FiniteSetTheorems, TLAPS

CONSTANTS Fronts, Sessions, MaxTasks, Tasks, Kinds, MaxRequests, MaxNotices, Requests, Subscriber,
    TaskIds, Inputs, Outputs, Lines, Questions, Handled, MaxLines, MaxInbox, UserFiles,
    WorkspaceFiles, Options, Directory, AgentKinds, Configs, ServerTools, OwnTools, ManagedHooks,
    OwnHooks, Slots, MaxBuilds, MaxTools, ForLoop, ForApprovals
VARIABLES front, loop, shell, active, talk, files, order, watch, feed, entered, rc, wrong, ran,
    kept, kind, wire, lastId, serial, rpc, asked, notices, pipe, buffer, inbox, stream, mixed,
    serving, request, answer, tasks, served, sse, outputs, typed, readers, sending, room, turn,
    questions, asking, outcomes, user, workspace, options, provider, runtime, agent, builder,
    source, registries, builds, stm, queue, advised, moment, run, retained, allowed, limits, started,
    stage, requested, safe, open, mail, frames, granting, attempted, watched, shown, ended

Cli == INSTANCE CliSession
Client == INSTANCE McpClient
Server == INSTANCE A2aServer WITH stream <- sse
Terminal == INSTANCE Console WITH inbox <- room, pending <- asking
Config == INSTANCE Configuration
Builder == INSTANCE AgentBuilder WITH Kinds <- AgentKinds
Loop == INSTANCE ReactLoop WITH
    given <- advised, phase <- moment, kept <- retained, fresh <- allowed,
    AgentKinds <- ForLoop.AgentKinds, MaxRounds <- ForLoop.MaxRounds,
    MaxTasks <- ForLoop.MaxTasks, MaxGuidance <- ForLoop.MaxGuidance, Sizes <- ForLoop.Sizes,
    Window <- ForLoop.Window, MaxCalls <- ForLoop.MaxCalls
Approvals == INSTANCE RunApprovals WITH
    tasks <- started, asked <- requested, watch <- watched, MaxTasks <- ForApprovals.MaxTasks,
    MaxRequests <- ForApprovals.MaxRequests

-----------------------------------------------------------------------------
(* CliSession.                                                               *)

CliParameters ==
    /\ Fronts \subseteq {"chat", "inline", "script", "run"}
    /\ {Cli!Nobody, "latest"} \intersect Sessions = {}
    /\ MaxTasks \in Nat

\* One conversation at a time: a task that is at work is one of the process's own
\* session, and without a background the loop waits for it.
CliOwn ==
    /\ Cli!Down => active = Cli!NotRunning
    /\ ~Cli!Down => shell.conv \in Sessions
    /\ Cli!Running => active.conv = shell.conv /\ active.task # 0
    /\ ~Cli!Background /\ Cli!Running => loop = "foreground" /\ shell.status = "running"
    /\ Cli!SnapshotOwnsMessages

CliExit ==
    /\ loop \in {"settle", "draining"} => Cli!Background
    /\ front = "script" /\ ~Cli!Down /\ wrong => shell.failures
    /\ front = "run" /\ ~Cli!Down => ~wrong /\ (ran => loop = "foreground")
    /\ Cli!ExitCodeTrue

CliInv == Cli!TypeOK /\ CliOwn /\ CliExit
-----------------------------------------------------------------------------

LEMMA CliFinalized ==
    ASSUME Cli!TypeOK
    PROVE  /\ Cli!Finalized(shell).mode = shell.mode /\ Cli!Finalized(shell).plan = shell.plan
           /\ Cli!Finalized(shell).task = shell.task /\ Cli!Finalized(shell).conv = shell.conv
           /\ Cli!Finalized(shell).failures = shell.failures
           /\ Cli!Finalized(shell).status \in {shell.status, "idle"}
           /\ Cli!Finalized(shell).approvals \subseteq shell.approvals
           /\ active.phase # "done" => Cli!Finalized(shell) = shell
           /\ Cli!Finalized(shell) \in
                [mode : Cli!Modes, status : {"idle", "awaiting", "running"},
                 plan : BOOLEAN, task : Cli!Tasks, conv : Sessions \union {Cli!Nobody},
                 failures : BOOLEAN, approvals : SUBSET (1..MaxTasks)]
  BY DEF Cli!Finalized, Cli!TypeOK

LEMMA CliCollected ==
    ASSUME Cli!TypeOK, CliParameters
    PROVE  /\ Cli!Collected \in {active, Cli!NotRunning}
           /\ Cli!Running => Cli!Collected = active
           /\ Cli!Collected.phase \in {"none", "running", "cancelling", "done"}
           /\ Cli!Collected.phase \in {"running", "cancelling"} => Cli!Collected = active
           /\ Cli!NotRunning.phase = "none"
           /\ Cli!NotRunning \in [phase : {"none", "running", "cancelling", "done"},
                                  task : Cli!Tasks, conv : Sessions \union {Cli!Nobody},
                                  asks : BOOLEAN]
  BY DEF Cli!Collected, Cli!TypeOK, Cli!NotRunning, Cli!Running, CliParameters, Cli!Tasks

LEMMA CliTypeInit ==
    ASSUME CliParameters, Cli!Init
    PROVE  Cli!TypeOK
  <1> USE DEF Cli!Init, CliParameters
  <1>1. shell \in [mode : Cli!Modes, status : {"idle", "awaiting", "running"},
                   plan : BOOLEAN, task : Cli!Tasks, conv : Sessions \union {Cli!Nobody},
                   failures : BOOLEAN, approvals : SUBSET (1..MaxTasks)]
    BY DEF Cli!NoSession, Cli!Modes, Cli!Tasks
  <1>2. active \in [phase : {"none", "running", "cancelling", "done"}, task : Cli!Tasks,
                    conv : Sessions \union {Cli!Nobody}, asks : BOOLEAN]
    BY DEF Cli!NotRunning, Cli!Tasks
  <1>3. /\ files \in [Sessions -> {Cli!None, Cli!Cut} \union
                         [is : {"snapshot"}, mode : Cli!Modes, talk : Cli!Messages]]
        /\ kept \in [Sessions -> {Cli!None} \union [is : {"saved"}, talk : Cli!Messages]]
    OBVIOUS
  <1>4. /\ front \in Fronts /\ loop \in Cli!Loops /\ talk \in Cli!Messages
        /\ order \subseteq Sessions \X Sessions /\ watch \in Cli!Tasks
        /\ entered \in Cli!Tasks
        /\ rc \in {0, 1, 2}
    BY DEF Cli!Loops, Cli!Messages, Cli!Tasks
  <1>5. wrong \in BOOLEAN /\ ran \in BOOLEAN
    OBVIOUS
  <1>6. feed \subseteq {"pending", "resolved"} \X (1..MaxTasks)
    OBVIOUS
  <1> QED BY <1>1, <1>2, <1>3, <1>4, <1>5, <1>6 DEF Cli!TypeOK

LEMMA CliLoads ==
    ASSUME Cli!TypeOK, NEW t, NEW s \in Cli!Loads(t)
    PROVE  /\ s \in Sessions /\ s \in Cli!Readable
           /\ files[s].mode \in Cli!Modes /\ files[s].talk \in Cli!Messages
  <1>1. s \in Cli!Readable
    BY DEF Cli!Loads
  <1>2. s \in Sessions /\ files[s].is = "snapshot"
    BY <1>1 DEF Cli!Readable
  <1>3. files[s] \notin {Cli!None, Cli!Cut}
    BY <1>2 DEF Cli!None, Cli!Cut
  <1>4. files[s] \in [is : {"snapshot"}, mode : Cli!Modes, talk : Cli!Messages]
    BY <1>2, <1>3 DEF Cli!TypeOK
  <1> QED BY <1>1, <1>2, <1>4

CliShells == [mode : Cli!Modes, status : {"idle", "awaiting", "running"},
              plan : BOOLEAN, task : Cli!Tasks, conv : Sessions \union {Cli!Nobody},
              failures : BOOLEAN, approvals : SUBSET (1..MaxTasks)]
CliTasks == [phase : {"none", "running", "cancelling", "done"}, task : Cli!Tasks,
             conv : Sessions \union {Cli!Nobody}, asks : BOOLEAN]
CliFiles == [Sessions -> {Cli!None, Cli!Cut} \union
                [is : {"snapshot"}, mode : Cli!Modes, talk : Cli!Messages]]
CliKept == [Sessions -> {Cli!None} \union [is : {"saved"}, talk : Cli!Messages]]
CliFeed == SUBSET ({"pending", "resolved"} \X (1..MaxTasks))

LEMMA CliTypes ==
    /\ Cli!TypeOK <=>
         /\ front \in Fronts /\ loop \in Cli!Loops /\ shell \in CliShells /\ active \in CliTasks
         /\ talk \in Cli!Messages /\ order \subseteq Sessions \X Sessions
         /\ watch \in Cli!Tasks /\ entered \in Cli!Tasks /\ feed \in CliFeed
         /\ rc \in {0, 1, 2} /\ wrong \in BOOLEAN /\ ran \in BOOLEAN
         /\ files \in CliFiles /\ kept \in CliKept
    /\ Cli!TypeOK' <=>
         /\ front' \in Fronts /\ loop' \in Cli!Loops /\ shell' \in CliShells /\ active' \in CliTasks
         /\ talk' \in Cli!Messages /\ order' \subseteq Sessions \X Sessions
         /\ watch' \in Cli!Tasks /\ entered' \in Cli!Tasks /\ feed' \in CliFeed
         /\ rc' \in {0, 1, 2} /\ wrong' \in BOOLEAN /\ ran' \in BOOLEAN
         /\ files' \in CliFiles /\ kept' \in CliKept
  BY Zenon DEF Cli!TypeOK, CliShells, CliTasks, CliFeed, CliFiles, CliKept

LEMMA CliTypeStep ==
    ASSUME CliParameters, Cli!TypeOK, CliOwn, [Cli!Next]_Cli!vars
    PROVE  Cli!TypeOK'
  <1>1. /\ Cli!NotRunning \in CliTasks /\ Cli!Collected \in CliTasks
        /\ Cli!Finalized(shell) \in CliShells /\ Cli!Finalized(shell).conv = shell.conv
    BY CliCollected, CliFinalized DEF CliTasks, CliShells, Cli!TypeOK
  <1>2. /\ 0 \in Cli!Tasks /\ {} \in CliFeed /\ {} \in Cli!Messages
        /\ \A n \in Cli!Tasks : n < MaxTasks => n + 1 \in Cli!Tasks /\ n + 1 \in 1..MaxTasks
        /\ \A n \in Cli!Tasks : n # 0 => n \in 1..MaxTasks
        /\ \A n \in 1..MaxTasks : n \in Cli!Tasks
        /\ Cli!After("prompt") \in Cli!Loops /\ Cli!After("foreground") \in Cli!Loops
    BY DEF Cli!Tasks, CliParameters, Cli!After, Cli!Loops, CliFeed, Cli!Messages
  <1>3. Cli!NoSession \in CliShells
    BY <1>2 DEF Cli!NoSession, Cli!Modes, CliShells
  <1>4. /\ shell \in CliShells /\ active \in CliTasks /\ talk \in Cli!Messages
        /\ files \in CliFiles /\ kept \in CliKept /\ feed \in CliFeed
        /\ front \in Fronts /\ loop \in Cli!Loops /\ order \subseteq Sessions \X Sessions
        /\ watch \in Cli!Tasks /\ entered \in Cli!Tasks
        /\ rc \in {0, 1, 2} /\ wrong \in BOOLEAN /\ ran \in BOOLEAN
    BY CliTypes
  <1> DEFINE Typed ==
               /\ front' \in Fronts /\ loop' \in Cli!Loops /\ shell' \in CliShells
               /\ active' \in CliTasks /\ talk' \in Cli!Messages
               /\ order' \subseteq Sessions \X Sessions
               /\ watch' \in Cli!Tasks /\ entered' \in Cli!Tasks /\ feed' \in CliFeed
               /\ rc' \in {0, 1, 2} /\ wrong' \in BOOLEAN /\ ran' \in BOOLEAN
               /\ files' \in CliFiles /\ kept' \in CliKept
  <1> SUFFICES Typed
    BY CliTypes
  \* What the actions do to the records.
  <1>5. ASSUME NEW sh \in CliShells
        PROVE  /\ \A m \in Cli!Modes : [sh EXCEPT !.mode = m] \in CliShells
               /\ [sh EXCEPT !.failures = TRUE] \in CliShells
               /\ \A n \in Cli!Tasks : [sh EXCEPT !.task = n] \in CliShells
               /\ \A b \in {"idle", "awaiting", "running"} : [sh EXCEPT !.status = b] \in CliShells
               /\ \A r \in SUBSET (1..MaxTasks) : [sh EXCEPT !.approvals = r] \in CliShells
    <2>1. \A m \in Cli!Modes : [sh EXCEPT !.mode = m] \in CliShells
      BY <1>5 DEF CliShells
    <2>2. [sh EXCEPT !.failures = TRUE] \in CliShells
      BY <1>5 DEF CliShells
    <2>3. \A n \in Cli!Tasks : [sh EXCEPT !.task = n] \in CliShells
      BY <1>5 DEF CliShells
    <2>4. \A b \in {"idle", "awaiting", "running"} : [sh EXCEPT !.status = b] \in CliShells
      BY <1>5 DEF CliShells
    <2>5. \A r \in SUBSET (1..MaxTasks) : [sh EXCEPT !.approvals = r] \in CliShells
      BY <1>5 DEF CliShells
    <2> QED BY <2>1, <2>2, <2>3, <2>4, <2>5
  <1>6. ASSUME NEW s \in Sessions, NEW said \in Cli!Messages, Cli!Save(s, said)
        PROVE  files' \in CliFiles /\ kept' \in CliKept /\ order' \subseteq Sessions \X Sessions
    <2>1. files' \in CliFiles
      BY <1>4, <1>6 DEF Cli!Save, CliFiles, CliShells
    <2>2. kept' \in CliKept
      BY <1>4, <1>6 DEF Cli!Save, CliKept
    <2> QED BY <1>4, <1>6, <2>1, <2>2 DEF Cli!Save
  <1>7. ASSUME NEW c \in {0, 1, 2}, Cli!Exits(c)
        PROVE  /\ loop' \in Cli!Loops /\ active' \in CliTasks /\ watch' \in Cli!Tasks
               /\ feed' \in CliFeed /\ rc' \in {0, 1, 2} /\ front' \in Fronts
    BY <1>1, <1>2, <1>4, <1>7 DEF Cli!Exits, Cli!Loops
  <1>8. ASSUME NEW n \in 1..MaxTasks, NEW sh \in CliShells, sh.conv = shell.conv, Cli!Executes(n, sh),
               shell.conv \in Sessions
        PROVE  /\ shell' \in CliShells /\ active' \in CliTasks /\ talk' \in Cli!Messages
               /\ watch' \in Cli!Tasks /\ ran' \in BOOLEAN /\ loop' \in Cli!Loops
    <2>1. active' \in CliTasks
      BY <1>2, <1>8 DEF Cli!Executes, CliTasks
    <2>2. talk' \in Cli!Messages
      BY <1>4, <1>8 DEF Cli!Executes, Cli!Messages
    <2>3. shell' \in CliShells
      BY <1>5, <1>8 DEF Cli!Executes
    <2> QED BY <1>2, <1>8, <2>1, <2>2, <2>3 DEF Cli!Executes
  <1>9. ASSUME Cli!Refused
        PROVE  /\ shell' \in CliShells /\ active' \in CliTasks /\ talk' \in Cli!Messages
               /\ watch' \in Cli!Tasks /\ ran' \in BOOLEAN /\ loop' \in Cli!Loops
    BY <1>1, <1>2, <1>4, <1>9 DEF Cli!Refused
  <1>10. ASSUME NEW f \in Fronts, NEW mode \in Cli!Modes, NEW t, Cli!Start(f, mode, t)
         PROVE  Typed
    <2>0. \A m \in Cli!Modes, s \in Sessions :
             [Cli!NoSession EXCEPT !.mode = m, !.conv = s] \in CliShells
      BY <1>3 DEF CliShells
    <2>1. shell' \in CliShells /\ talk' \in Cli!Messages
      <3>1. CASE /\ t = Cli!Nobody
                 /\ \E s \in Sessions : files[s] = Cli!None /\ kept[s] = Cli!None
                 /\ LET s == CHOOSE x \in Sessions : files[x] = Cli!None /\ kept[x] = Cli!None
                    IN  shell' = [Cli!NoSession EXCEPT !.mode = mode, !.conv = s]
                 /\ talk' = {}
        <4> DEFINE Free(x) == files[x] = Cli!None /\ kept[x] = Cli!None
        <4>1. (CHOOSE x \in Sessions : Free(x)) \in Sessions
          BY <3>1, Zenon
        <4>2. PICK s \in Sessions : shell' = [Cli!NoSession EXCEPT !.mode = mode, !.conv = s]
          BY <3>1, <4>1, Zenon
        <4>3. talk' = {}
          BY <3>1, Zenon
        <4>4. [Cli!NoSession EXCEPT !.mode = mode, !.conv = s] \in CliShells
          BY <2>0, <1>10, Zenon
        <4> QED BY <1>2, <4>2, <4>3, <4>4
      <3>2. CASE \E s \in Cli!Loads(t) :
                    /\ shell' = [Cli!NoSession EXCEPT !.mode = files[s].mode, !.conv = s]
                    /\ talk' = files[s].talk
        <4>1. PICK s \in Cli!Loads(t) :
                 /\ shell' = [Cli!NoSession EXCEPT !.mode = files[s].mode, !.conv = s]
                 /\ talk' = files[s].talk
          BY <3>2, Zenon
        <4>2. s \in Sessions /\ files[s].mode \in Cli!Modes /\ files[s].talk \in Cli!Messages
          BY CliLoads
        <4>3. [Cli!NoSession EXCEPT !.mode = files[s].mode, !.conv = s] \in CliShells
          BY <2>0, <4>2, Zenon
        <4> QED BY <4>1, <4>2, <4>3
      <3> QED BY <1>10, <3>1, <3>2, Zenon DEF Cli!Start
    <2>2. /\ front' = f /\ loop' = "prompt" /\ rc' = 0 /\ wrong' = FALSE /\ ran' = FALSE
          /\ active' = Cli!NotRunning /\ watch' = 0 /\ feed' = {}
          /\ UNCHANGED <<files, order, entered, kept>>
      BY <1>10, Zenon DEF Cli!Start
    <2> QED BY <1>1, <1>2, <1>4, <1>10, <2>1, <2>2 DEF Cli!Loops
  <1>11. ASSUME NEW t, Cli!ResumeFails(t)
         PROVE  Typed
    BY <1>2, <1>3, <1>4, <1>11 DEF Cli!ResumeFails
  <1>12. ASSUME NEW t, Cli!ResumeFrame(t)
         PROVE  Typed
    <2>1. PICK s \in Cli!Loads(t) :
             /\ talk' = files[s].talk
             /\ shell' = [shell EXCEPT !.mode = files[s].mode, !.conv = s, !.status = "idle",
                                       !.plan = FALSE, !.task = 0, !.approvals = {}]
      BY <1>12, Zenon DEF Cli!ResumeFrame
    <2>2. s \in Sessions /\ files[s].mode \in Cli!Modes /\ files[s].talk \in Cli!Messages
      BY CliLoads
    <2>3. shell' \in CliShells
      BY <1>2, <1>4, <2>1, <2>2 DEF CliShells
    <2> QED BY <1>4, <1>12, <2>1, <2>2, <2>3 DEF Cli!ResumeFrame
  <1>13. CASE Cli!BootFails
    BY <1>2, <1>3, <1>4, <1>13 DEF Cli!BootFails
  <1>14. CASE Cli!SetMode
    <2>1. shell' \in CliShells
      BY <1>1, <1>5, <1>14 DEF Cli!SetMode, Cli!Modes
    <2> QED BY <1>1, <1>2, <1>4, <1>14, <2>1 DEF Cli!SetMode
  <1>15. CASE Cli!Asking \/ Cli!CommandDone \/ Cli!EndOfInput \/ Cli!PromptForApproval
    BY <1>4, <1>15 DEF Cli!Asking, Cli!CommandDone, Cli!EndOfInput, Cli!PromptForApproval, Cli!Loops
  <1>16. CASE Cli!CommandFails
    BY <1>1, <1>2, <1>4, <1>5, <1>16 DEF Cli!CommandFails
  <1>17. CASE Cli!Reject
    <2>1. shell' \in CliShells
      BY <1>1, <1>2, <1>17 DEF Cli!Reject, CliShells
    <2> QED BY <1>1, <1>2, <1>4, <1>17, <2>1 DEF Cli!Reject
  <1>18. CASE Cli!EnterTask
    <2>1. shell.conv \in Sessions
      BY <1>18 DEF Cli!EnterTask, CliOwn, Cli!Down
    <2>2. entered' \in 1..MaxTasks /\ entered' \in Cli!Tasks
      BY <1>2, <1>4, <1>18 DEF Cli!EnterTask
    <2>3. CASE Cli!Refused
      BY <1>4, <1>9, <1>18, <2>2, <2>3 DEF Cli!EnterTask
    <2>4. CASE Cli!Executes(entered', Cli!Finalized(shell))
      BY <1>1, <1>4, <1>8, <1>18, <2>1, <2>2, <2>4 DEF Cli!EnterTask
    <2> QED BY <1>18, <2>3, <2>4 DEF Cli!EnterTask
  <1>19. CASE Cli!EnterPlan
    <2>1. entered' \in Cli!Tasks /\ shell' \in CliShells
      BY <1>1, <1>2, <1>4, <1>5, <1>19 DEF Cli!EnterPlan
    <2> QED BY <1>1, <1>2, <1>4, <1>19, <2>1 DEF Cli!EnterPlan, Cli!Loops
  <1>20. CASE Cli!Previewed
    <2>1. shell' \in CliShells
      BY <1>4, <1>20 DEF Cli!Previewed, CliShells
    <2> QED BY <1>2, <1>4, <1>20, <2>1 DEF Cli!Previewed
  <1>21. CASE Cli!PreviewFails
    <2>1. shell' \in CliShells
      BY <1>2, <1>4, <1>21 DEF Cli!PreviewFails, CliShells
    <2> QED BY <1>2, <1>4, <1>7, <1>21, <2>1 DEF Cli!PreviewFails
  <1>22. CASE Cli!Approve
    <2>1. shell.conv \in Sessions /\ shell.task \in 1..MaxTasks
      BY <1>2, <1>4, <1>22 DEF Cli!Approve, CliOwn, Cli!Down, CliShells
    <2>2. CASE Cli!Refused
      BY <1>4, <1>9, <1>22, <2>2 DEF Cli!Approve
    <2>3. CASE Cli!Executes(shell.task, [Cli!Finalized(shell) EXCEPT !.plan = FALSE, !.task = 0])
      <3>1. PICK sh : sh = [Cli!Finalized(shell) EXCEPT !.plan = FALSE, !.task = 0]
        OBVIOUS
      <3>2. sh \in CliShells /\ sh.conv = shell.conv
        BY <1>1, <1>2, <3>1 DEF CliShells
      <3> QED BY <1>4, <1>8, <1>22, <2>1, <2>3, <3>1, <3>2 DEF Cli!Approve
    <2> QED BY <1>22, <2>2, <2>3 DEF Cli!Approve
  <1>23. CASE Cli!PlanOnly
    BY <1>4, <1>7, <1>23 DEF Cli!PlanOnly
  <1>24. CASE Cli!Interrupt \/ Cli!ApprovalTimeout
    <2>1. active' \in CliTasks
      BY <1>4, <1>24 DEF Cli!Interrupt, Cli!ApprovalTimeout, CliTasks
    <2> QED BY <1>4, <1>24, <2>1 DEF Cli!Interrupt, Cli!ApprovalTimeout, Cli!Loops
  <1>25. CASE Cli!Quit
    <2>1. active' \in CliTasks
      BY <1>1, <1>4, <1>25 DEF Cli!Quit, CliTasks
    <2> QED BY <1>1, <1>4, <1>25, <2>1 DEF Cli!Quit, Cli!Loops
  <1>26. CASE Cli!Settle
    <2>1. shell.conv \in Sessions
      BY <1>26 DEF Cli!Settle, CliOwn, Cli!Down
    <2>2. files' \in CliFiles /\ kept' \in CliKept /\ order' \subseteq Sessions \X Sessions
      BY <1>4, <1>6, <1>26, <2>1 DEF Cli!Settle
    <2>3. /\ loop' \in Cli!Loops /\ active' \in CliTasks /\ watch' \in Cli!Tasks
          /\ feed' \in CliFeed /\ rc' \in {0, 1, 2} /\ front' \in Fronts
      BY <1>1, <1>4, <1>7, <1>26 DEF Cli!Settle, Cli!Loops
    <2> QED BY <1>1, <1>4, <1>26, <2>2, <2>3 DEF Cli!Settle
  <1>27. CASE Cli!ScriptEnds
    <2>1. shell.conv \in Sessions
      BY <1>27 DEF Cli!ScriptEnds, CliOwn, Cli!Down
    <2>2. files' \in CliFiles /\ kept' \in CliKept /\ order' \subseteq Sessions \X Sessions
      BY <1>4, <1>6, <1>27, <2>1 DEF Cli!ScriptEnds
    <2>3. \E c \in {0, 1, 2} : Cli!Exits(c)
      BY <1>27 DEF Cli!ScriptEnds
    <2> QED BY <1>4, <1>7, <1>27, <2>2, <2>3 DEF Cli!ScriptEnds
  <1>28. CASE Cli!Drained
    BY <1>1, <1>4, <1>7, <1>28 DEF Cli!Drained
  <1>29. CASE Cli!Finishes \/ Cli!Cancelled
    <2>1. Cli!Running /\ shell.conv \in Sessions /\ active.phase # "none"
      <3>1. active.phase \in {"running", "cancelling"}
        BY <1>29 DEF Cli!Finishes, Cli!Cancelled
      <3>2. ~Cli!Down
        BY <3>1 DEF CliOwn, Cli!NotRunning
      <3> QED BY <3>1, <3>2 DEF CliOwn, Cli!Running
    <2>2. PICK ok \in BOOLEAN, said \in Cli!Messages :
             Cli!Ended(ok, said) /\ UNCHANGED <<entered, ran>>
      <3>1. CASE Cli!Finishes
        <4>1. active.conv \in Sessions /\ active.task \in 1..MaxTasks
          BY <1>2, <1>4, <2>1 DEF CliOwn, CliTasks
        <4> QED BY <1>4, <3>1, <4>1 DEF Cli!Finishes, Cli!Messages
      <3>2. CASE Cli!Cancelled
        BY <1>4, <3>2 DEF Cli!Cancelled
      <3> QED BY <1>29, <3>1, <3>2
    <2>3. /\ files' \in CliFiles /\ kept' \in CliKept /\ order' \subseteq Sessions \X Sessions
          /\ wrong' \in BOOLEAN /\ talk' \in Cli!Messages
      <3>1. files' \in CliFiles /\ kept' \in CliKept /\ order' \subseteq Sessions \X Sessions
        BY <1>4, <1>6, <2>1, <2>2 DEF Cli!Ended
      <3>2. wrong' \in BOOLEAN
        BY <2>2 DEF Cli!Ended
      <3> QED BY <2>2, <3>1, <3>2 DEF Cli!Ended
    <2>4. shell' \in CliShells
      <3>1. [shell EXCEPT !.failures = @ \/ ~ok] \in CliShells
        BY <1>4 DEF CliShells
      <3>2. [shell EXCEPT !.failures = @ \/ ~ok, !.approvals = {}, !.status = "idle"] \in CliShells
        BY <1>4 DEF CliShells
      <3>3. [shell EXCEPT !.approvals = {}] \in CliShells
        BY <1>4 DEF CliShells
      <3> QED BY <2>2, <3>1, <3>2, <3>3 DEF Cli!Ended
    <2>5. /\ loop' \in Cli!Loops /\ active' \in CliTasks /\ watch' \in Cli!Tasks
          /\ feed' \in CliFeed /\ rc' \in {0, 1, 2} /\ front' \in Fronts
      <3>1. CASE front = "run"
        BY <1>7, <2>2, <3>1 DEF Cli!Ended
      <3>2. CASE front # "run"
        <4>1. active' \in CliTasks
          BY <1>1, <1>4, <2>2, <3>2 DEF Cli!Ended, CliTasks
        <4> QED BY <1>2, <1>4, <2>2, <3>2, <4>1 DEF Cli!Ended, Cli!Loops
      <3> QED BY <3>1, <3>2
    <2> QED BY <1>4, <2>2, <2>3, <2>4, <2>5
  <1>30. CASE Cli!Asks \/ Cli!Answered
    <2>1. active.task \in 1..MaxTasks
      BY <1>2, <1>4, <1>30 DEF Cli!Asks, Cli!Answered, CliOwn, Cli!Running, CliTasks
    <2>2. active' \in CliTasks
      BY <1>4, <1>30 DEF Cli!Asks, Cli!Answered, CliTasks
    <2>3. feed' \in CliFeed
      BY <1>4, <1>30, <2>1 DEF Cli!Asks, Cli!Answered, CliFeed
    <2> QED BY <1>4, <1>30, <2>2, <2>3 DEF Cli!Asks, Cli!Answered
  <1>31. CASE Cli!Pump
    <2>1. PICK e \in feed :
             /\ feed' = feed \ {e}
             /\ IF e[1] = "pending"
                THEN /\ shell' = [shell EXCEPT !.approvals = @ \union {e[2]}]
                     /\ watch' = IF Cli!Background THEN watch ELSE e[2]
                ELSE /\ shell' = [shell EXCEPT !.approvals = @ \ {e[2]}]
                     /\ watch' = IF watch = e[2] THEN 0 ELSE watch
      BY <1>31 DEF Cli!Pump
    <2>2. e[2] \in 1..MaxTasks
      BY <1>4 DEF CliFeed
    <2>3. shell' \in CliShells
      BY <1>4, <2>1, <2>2 DEF CliShells
    <2> QED BY <1>2, <1>4, <1>31, <2>1, <2>2, <2>3 DEF Cli!Pump, CliFeed
  <1>32. CASE Cli!Killed
    <2>1. files' \in CliFiles
      BY <1>4, <1>32 DEF Cli!Killed, CliFiles
    <2>2. Cli!Exits(1) /\ talk' = {} /\ shell' = Cli!NoSession /\ UNCHANGED <<order, entered, wrong, ran, kept>>
      BY <1>32 DEF Cli!Killed
    <2> QED BY <1>2, <1>3, <1>4, <1>7, <2>1, <2>2
  <1>33. CASE UNCHANGED Cli!vars
    BY <1>4, <1>33 DEF Cli!vars
  <1> QED
    BY <1>10, <1>11, <1>12, <1>13, <1>14, <1>15, <1>16, <1>17, <1>18, <1>19, <1>20, <1>21, <1>22,
       <1>23, <1>24, <1>25, <1>26, <1>27, <1>28, <1>29, <1>30, <1>31, <1>32, <1>33 DEF Cli!Next

\* A step of a running process that reads and writes no snapshot.
LEMMA CliStaysOwn ==
    ASSUME CliOwn, ~Cli!Down, ~Cli!Down', UNCHANGED <<files, kept, front>>,
           shell'.conv = shell.conv,
           \A m \in talk' : m \in talk \/ m.conv = shell.conv,
           Cli!Running' => /\ active'.conv = shell.conv /\ active'.task # 0
                           /\ ~Cli!Background => loop' = "foreground" /\ shell'.status = "running"
    PROVE  CliOwn'
  <1>1. Cli!SnapshotOwnsMessages'
    BY DEF CliOwn, Cli!SnapshotOwnsMessages, Cli!Readable
  <1> QED BY <1>1 DEF CliOwn, Cli!Background

\* A step that ends the process, with a snapshot of its conversation or without.
LEMMA CliEndsOwn ==
    ASSUME Cli!TypeOK, CliOwn, ~Cli!Down, NEW c, Cli!Exits(c), NEW said,
           \A m \in said : m.conv = shell.conv,
           Cli!Save(shell.conv, said) \/ UNCHANGED <<files, kept>>
    PROVE  CliOwn'
  <1>1. Cli!Down' /\ active' = Cli!NotRunning /\ ~Cli!Running'
    BY DEF Cli!Exits, Cli!Down, Cli!Running, Cli!NotRunning
  <1>2. Cli!SnapshotOwnsMessages'
    <2>1. CASE UNCHANGED <<files, kept>>
      BY <1>1, <2>1 DEF CliOwn, Cli!SnapshotOwnsMessages, Cli!Readable
    <2>2. CASE Cli!Save(shell.conv, said)
      BY <1>1, <2>2 DEF CliOwn, Cli!SnapshotOwnsMessages, Cli!Readable, Cli!Save, Cli!TypeOK
    <2> QED BY <2>1, <2>2
  <1> QED BY <1>1, <1>2 DEF CliOwn

LEMMA CliOwnStep ==
    ASSUME CliParameters, Cli!TypeOK, CliOwn, [Cli!Next]_Cli!vars
    PROVE  CliOwn'
  <1>1. /\ Cli!Finalized(shell).conv = shell.conv /\ Cli!Finalized(shell) \in CliShells
        /\ Cli!Finalized(shell).status \in {shell.status, "idle"}
        /\ active.phase # "done" => Cli!Finalized(shell) = shell
    BY CliFinalized DEF CliShells
  <1>2. /\ Cli!Collected.phase \in {"running", "cancelling"} => Cli!Collected = active
        /\ Cli!NotRunning.phase = "none"
    BY CliCollected
  <1>3. shell \in CliShells /\ active \in CliTasks /\ entered \in Nat
    BY CliTypes DEF CliParameters, Cli!Tasks
  <1>4. ASSUME NEW n \in Nat \ {0}, NEW sh \in CliShells, sh.conv = shell.conv, Cli!Executes(n, sh),
               ~Cli!Down, UNCHANGED <<files, kept, front>>
        PROVE  CliOwn'
    <2>1. shell'.conv = shell.conv /\ shell'.status = "running"
      BY <1>4 DEF Cli!Executes, CliShells
    <2>2. active'.conv = shell.conv /\ active'.task # 0
      BY <1>4 DEF Cli!Executes
    <2>3. \A m \in talk' : m \in talk \/ m.conv = shell.conv
      BY <1>4 DEF Cli!Executes
    <2>4. ~Cli!Down' /\ (~Cli!Background => loop' = "foreground")
      BY <1>4 DEF Cli!Executes, Cli!After, Cli!Down
    <2> QED BY <1>4, <2>1, <2>2, <2>3, <2>4, CliStaysOwn
  <1>5. ASSUME Cli!Refused, ~Cli!Down, UNCHANGED <<files, kept, front>>, Cli!Background
        PROVE  CliOwn'
    <2>1. shell'.conv = shell.conv /\ talk' = talk /\ ~Cli!Down'
      BY <1>1, <1>5 DEF Cli!Refused, Cli!After, Cli!Down
    <2>2. Cli!Running' => active'.conv = shell.conv /\ active'.task # 0
      BY <1>2, <1>5 DEF Cli!Refused, Cli!Running, CliOwn
    <2> QED BY <1>5, <2>1, <2>2, CliStaysOwn
  <1>6. ASSUME NEW f \in Fronts, NEW mode \in Cli!Modes, NEW t, Cli!Start(f, mode, t)
        PROVE  CliOwn'
    <2>1. /\ active' = Cli!NotRunning /\ loop' = "prompt" /\ UNCHANGED <<files, kept>>
      BY <1>6, Zenon DEF Cli!Start
    <2>2. shell'.conv \in Sessions /\ \A m \in talk' : m.conv = shell'.conv
      <3>1. CASE /\ t = Cli!Nobody
                 /\ \E s \in Sessions : files[s] = Cli!None /\ kept[s] = Cli!None
                 /\ LET s == CHOOSE x \in Sessions : files[x] = Cli!None /\ kept[x] = Cli!None
                    IN  shell' = [Cli!NoSession EXCEPT !.mode = mode, !.conv = s]
                 /\ talk' = {}
        <4> DEFINE Free(x) == files[x] = Cli!None /\ kept[x] = Cli!None
        <4>1. (CHOOSE x \in Sessions : Free(x)) \in Sessions
          BY <3>1, Zenon
        <4>2. PICK s \in Sessions : shell' = [Cli!NoSession EXCEPT !.mode = mode, !.conv = s]
          BY <3>1, <4>1, Zenon
        <4>3. talk' = {}
          BY <3>1, Zenon
        <4> QED BY <4>2, <4>3 DEF Cli!NoSession
      <3>2. CASE \E s \in Cli!Loads(t) :
                    /\ shell' = [Cli!NoSession EXCEPT !.mode = files[s].mode, !.conv = s]
                    /\ talk' = files[s].talk
        <4>1. PICK s \in Cli!Loads(t) :
                 /\ shell' = [Cli!NoSession EXCEPT !.mode = files[s].mode, !.conv = s]
                 /\ talk' = files[s].talk
          BY <3>2, Zenon
        <4>2. s \in Sessions /\ \A m \in files[s].talk : m.conv = s
          BY CliLoads DEF CliOwn, Cli!SnapshotOwnsMessages
        <4>3. shell'.conv = s
          BY <4>1 DEF Cli!NoSession
        <4> QED BY <4>1, <4>2, <4>3
      <3> QED BY <1>6, <3>1, <3>2, Zenon DEF Cli!Start
    <2>3. Cli!SnapshotOwnsMessages'
      BY <2>1, <2>2 DEF CliOwn, Cli!SnapshotOwnsMessages, Cli!Readable
    <2> QED BY <1>2, <2>1, <2>2, <2>3 DEF CliOwn, Cli!Down, Cli!Running
  <1>7. ASSUME NEW t, Cli!ResumeFails(t) \/ Cli!BootFails
        PROVE  CliOwn'
    BY <1>7 DEF Cli!ResumeFails, Cli!BootFails, CliOwn, Cli!Down, Cli!SnapshotOwnsMessages,
                Cli!Readable, Cli!Running, Cli!NotRunning
  \* What session:resume restores is told of one session, and no task is at work.
  <1>8. ASSUME NEW t, Cli!ResumeFrame(t)
        PROVE  CliOwn'
    <2>1. PICK s \in Cli!Loads(t) :
             /\ talk' = files[s].talk
             /\ shell' = [shell EXCEPT !.mode = files[s].mode, !.conv = s, !.status = "idle",
                                       !.plan = FALSE, !.task = 0, !.approvals = {}]
      BY <1>8, Zenon DEF Cli!ResumeFrame
    <2>2. s \in Sessions /\ \A m \in files[s].talk : m.conv = s
      BY CliLoads DEF CliOwn, Cli!SnapshotOwnsMessages
    <2>3. shell'.conv = s
      BY <1>3, <2>1 DEF CliShells
    <2>4. ~Cli!Down /\ ~Cli!Running /\ UNCHANGED <<front, loop, active, files, kept>>
      BY <1>8, Zenon DEF Cli!ResumeFrame, Cli!Headless, Cli!Busy, CliOwn, Cli!Down
    <2>5. Cli!SnapshotOwnsMessages'
      BY <2>1, <2>2, <2>3, <2>4 DEF CliOwn, Cli!SnapshotOwnsMessages, Cli!Readable
    <2> QED BY <2>2, <2>3, <2>4, <2>5 DEF CliOwn, Cli!Down, Cli!Running
  <1>9. CASE Cli!SetMode \/ Cli!CommandFails \/ Cli!Reject
    <2>1. ~Cli!Down /\ ~Cli!Down' /\ loop # "foreground" /\ UNCHANGED <<files, kept, front, talk>>
      BY <1>9 DEF Cli!SetMode, Cli!CommandFails, Cli!Reject, Cli!Down, Cli!After
    <2>2. shell'.conv = shell.conv
      BY <1>1, <1>9 DEF Cli!SetMode, Cli!CommandFails, Cli!Reject, CliShells
    <2>3. active' = Cli!Collected
      BY <1>9 DEF Cli!SetMode, Cli!CommandFails, Cli!Reject
    <2>4. Cli!Running' => active' = active /\ Cli!Running
      BY <1>2, <2>3 DEF Cli!Running
    <2>5. Cli!Running => Cli!Background
      BY <2>1 DEF CliOwn
    <2> QED BY <2>1, <2>2, <2>4, <2>5, CliStaysOwn DEF CliOwn
  <1>10. CASE \/ Cli!Asking \/ Cli!CommandDone \/ Cli!EndOfInput \/ Cli!PromptForApproval
              \/ Cli!Previewed \/ Cli!EnterPlan
    <2>1. /\ ~Cli!Down /\ ~Cli!Down' /\ loop # "foreground"
          /\ UNCHANGED <<files, kept, front, talk>>
      BY <1>10 DEF Cli!Asking, Cli!CommandDone, Cli!EndOfInput, Cli!PromptForApproval,
                   Cli!Previewed, Cli!EnterPlan, Cli!Down, Cli!After
    <2>2. shell'.conv = shell.conv
      BY <1>1, <1>3, <1>10 DEF Cli!Asking, Cli!CommandDone, Cli!EndOfInput, Cli!PromptForApproval,
                         Cli!Previewed, Cli!EnterPlan, CliShells
    <2>3. active' \in {active, Cli!Collected}
      BY <1>10 DEF Cli!Asking, Cli!CommandDone, Cli!EndOfInput, Cli!PromptForApproval,
                   Cli!Previewed, Cli!EnterPlan
    <2>4. Cli!Running' => active' = active /\ Cli!Running
      BY <1>2, <2>3 DEF Cli!Running
    <2>5. Cli!Running => Cli!Background
      BY <2>1 DEF CliOwn
    <2> QED BY <2>1, <2>2, <2>4, <2>5, CliStaysOwn DEF CliOwn
  <1>11. CASE Cli!EnterTask
    <2>1. ~Cli!Down /\ UNCHANGED <<files, kept, front>>
      BY <1>11 DEF Cli!EnterTask, Cli!Down
    <2>2. CASE Cli!Background /\ Cli!Running
      BY <1>5, <1>11, <2>1, <2>2 DEF Cli!EnterTask
    <2>3. CASE ~(Cli!Background /\ Cli!Running)
      BY <1>1, <1>3, <1>4, <1>11, <2>1, <2>3 DEF Cli!EnterTask
    <2> QED BY <2>2, <2>3
  <1>12. CASE Cli!Approve
    <2>1. ~Cli!Down /\ UNCHANGED <<files, kept, front>>
      BY <1>12 DEF Cli!Approve, Cli!Down
    <2>2. CASE Cli!Background /\ Cli!Running
      BY <1>5, <1>12, <2>1, <2>2 DEF Cli!Approve
    <2>3. CASE ~(Cli!Background /\ Cli!Running)
      <3>1. PICK sh : sh = [Cli!Finalized(shell) EXCEPT !.plan = FALSE, !.task = 0]
        OBVIOUS
      <3>0. 0 \in Cli!Tasks
        BY DEF Cli!Tasks, CliParameters
      <3>2. sh \in CliShells /\ sh.conv = shell.conv
        BY <1>1, <3>0, <3>1 DEF CliShells
      <3>3. shell.task \in Nat \ {0}
        BY <1>3, <1>12 DEF Cli!Approve, CliShells, Cli!Tasks, CliParameters
      <3>4. Cli!Executes(shell.task, sh)
        BY <1>12, <2>3, <3>1 DEF Cli!Approve
      <3> QED BY <1>4, <2>1, <3>2, <3>3, <3>4
    <2> QED BY <2>2, <2>3
  <1>13. CASE Cli!PreviewFails
    <2>1. ~Cli!Down /\ loop # "foreground" /\ UNCHANGED <<files, kept, front, talk>>
      BY <1>13 DEF Cli!PreviewFails, Cli!Down, Cli!Exits
    <2>2. CASE front = "run"
      BY <1>13, <2>1, <2>2, CliEndsOwn DEF Cli!PreviewFails, CliOwn, Cli!SnapshotOwnsMessages
    <2>3. CASE front # "run"
      <3>1. shell'.conv = shell.conv /\ ~Cli!Down' /\ active' = active
        BY <1>3, <1>13, <2>3 DEF Cli!PreviewFails, CliShells, Cli!After, Cli!Down
      <3>2. Cli!Running' => Cli!Running /\ Cli!Background
        BY <2>1, <3>1 DEF CliOwn, Cli!Running
      <3> QED BY <2>1, <3>1, <3>2, CliStaysOwn DEF CliOwn
    <2> QED BY <2>2, <2>3
  <1>14. CASE Cli!PlanOnly
    BY <1>14, CliEndsOwn DEF Cli!PlanOnly, CliOwn, Cli!SnapshotOwnsMessages, Cli!Down
  <1>15. CASE Cli!Interrupt \/ Cli!Quit \/ Cli!ApprovalTimeout \/ Cli!Asks \/ Cli!Answered
    <2>1. ~Cli!Down /\ UNCHANGED <<files, kept, front, talk>>
      BY <1>2, <1>15 DEF Cli!Interrupt, Cli!Quit, Cli!ApprovalTimeout, Cli!Asks, Cli!Answered,
                         CliOwn, Cli!Down
    <2>2. shell'.conv = shell.conv
      BY <1>1, <1>15 DEF Cli!Interrupt, Cli!Quit, Cli!ApprovalTimeout, Cli!Asks, Cli!Answered
    <2>3. ~Cli!Down'
      BY <2>1, <1>15 DEF Cli!Interrupt, Cli!Quit, Cli!ApprovalTimeout, Cli!Asks, Cli!Answered, Cli!Down
    <2>4. /\ Cli!Running' => active'.conv = active.conv /\ active'.task = active.task /\ Cli!Running
      BY <1>2, <1>3, <1>15 DEF Cli!Interrupt, Cli!Quit, Cli!ApprovalTimeout, Cli!Asks,
                               Cli!Answered, CliTasks, Cli!Running
    <2>5. ~Cli!Background /\ Cli!Running => loop' = loop /\ shell' = shell
      BY <1>1, <1>15 DEF Cli!Interrupt, Cli!Quit, Cli!ApprovalTimeout, Cli!Asks, Cli!Answered,
                         Cli!Running, CliOwn
    <2> QED BY <2>1, <2>2, <2>3, <2>4, <2>5, CliStaysOwn DEF CliOwn
  <1>16. CASE Cli!Settle
    <2>1. /\ ~Cli!Down /\ ~Cli!Running /\ talk' = talk /\ shell'.conv = shell.conv /\ front' = front
      BY <1>1, <1>16 DEF Cli!Settle, Cli!Down, Cli!Exits
    <2>2. CASE \E c : Cli!Exits(c)
      BY <1>16, <2>1, <2>2, CliEndsOwn DEF Cli!Settle, CliOwn, Cli!SnapshotOwnsMessages
    <2>3. CASE loop' = "prompt" /\ active' = Cli!Collected /\ Cli!Save(shell.conv, talk)
      <3>1. ~Cli!Running' /\ ~Cli!Down'
        BY <1>2, <2>1, <2>3 DEF Cli!Running, Cli!Down
      <3>2. Cli!SnapshotOwnsMessages'
        BY <2>1, <2>3, <3>1 DEF CliOwn, Cli!SnapshotOwnsMessages, Cli!Readable, Cli!Save, Cli!TypeOK
      <3> QED BY <2>1, <3>1, <3>2 DEF CliOwn
    <2> QED BY <1>16, <2>2, <2>3 DEF Cli!Settle
  <1>17. CASE Cli!ScriptEnds
    <2>1. ~Cli!Down /\ \E c : Cli!Exits(c)
      BY <1>17 DEF Cli!ScriptEnds, Cli!Down
    <2> QED BY <1>17, <2>1, CliEndsOwn DEF Cli!ScriptEnds, CliOwn, Cli!SnapshotOwnsMessages
  <1>18. CASE Cli!Drained
    BY <1>18, CliEndsOwn DEF Cli!Drained, CliOwn, Cli!SnapshotOwnsMessages, Cli!Down
  <1>19. CASE Cli!Finishes \/ Cli!Cancelled
    <2>1. Cli!Running /\ ~Cli!Down
      <3>1. active.phase \in {"running", "cancelling"}
        BY <1>19 DEF Cli!Finishes, Cli!Cancelled
      <3> QED BY <1>2, <3>1 DEF CliOwn, Cli!Running
    <2>2. PICK ok, said : ok \in BOOLEAN /\
             Cli!Ended(ok, said) /\ \A m \in said : m \in talk \/ m.conv = active.conv
      <3>1. CASE Cli!Finishes
        BY <3>1 DEF Cli!Finishes
      <3>2. CASE Cli!Cancelled
        BY <3>2 DEF Cli!Cancelled
      <3> QED BY <1>19, <3>1, <3>2
    <2>3. \A m \in said : m.conv = shell.conv
      BY <2>1, <2>2 DEF CliOwn, Cli!SnapshotOwnsMessages
    <2>4. CASE front = "run"
      BY <2>1, <2>2, <2>3, <2>4, CliEndsOwn DEF Cli!Ended
    <2>5. CASE front # "run"
      <3>1. shell'.conv = shell.conv
        BY <1>3, <2>2, <2>5 DEF Cli!Ended, CliShells
      <3>2. ~Cli!Running' /\ ~Cli!Down' /\ UNCHANGED <<files, kept, front>> /\ talk' = said
        BY <1>2, <1>3, <2>1, <2>2, <2>5 DEF Cli!Ended, Cli!Running, Cli!Down, CliTasks
      <3> QED BY <2>1, <2>3, <3>1, <3>2, CliStaysOwn
    <2> QED BY <2>4, <2>5
  <1>20. CASE Cli!Pump
    <2>1. shell'.conv = shell.conv /\ shell'.status = shell.status
      BY <1>3, <1>20 DEF Cli!Pump, CliShells
    <2>2. ~Cli!Down /\ ~Cli!Down' /\ UNCHANGED <<front, loop, active, talk, files, kept>>
      BY <1>20 DEF Cli!Pump, Cli!Down
    <2> QED BY <2>1, <2>2, CliStaysOwn DEF CliOwn, Cli!Running
  <1>21. CASE Cli!Killed
    <2>1. Cli!Down' /\ active' = Cli!NotRunning /\ ~Cli!Running' /\ kept' = kept
      BY <1>2, <1>21 DEF Cli!Killed, Cli!Exits, Cli!Down, Cli!Running
    <2>2. \A s \in Sessions : files'[s] = files[s] \/ files'[s] = Cli!Cut
      BY <1>21, CliTypes DEF Cli!Killed, CliFiles
    <2>3. Cli!SnapshotOwnsMessages'
      BY <2>1, <2>2 DEF CliOwn, Cli!SnapshotOwnsMessages, Cli!Readable, Cli!Cut
    <2> QED BY <2>1, <2>3 DEF CliOwn
  <1>22. CASE UNCHANGED Cli!vars
    BY <1>22 DEF Cli!vars, CliOwn, Cli!Down, Cli!Running, Cli!Background, Cli!SnapshotOwnsMessages, Cli!Readable
  <1> QED
    BY <1>6, <1>7, <1>8, <1>9, <1>10, <1>11, <1>12, <1>13, <1>14, <1>15, <1>16, <1>17, <1>18,
       <1>19, <1>20, <1>21, <1>22 DEF Cli!Next

LEMMA CliExitStep ==
    ASSUME CliParameters, Cli!TypeOK, CliOwn, CliExit, [Cli!Next]_Cli!vars
    PROVE  CliExit'
  <1>1. /\ Cli!Finalized(shell) \in CliShells
        /\ Cli!Finalized(shell).failures = shell.failures
    BY CliFinalized DEF CliShells
  <1>3. shell \in CliShells /\ active \in CliTasks /\ wrong \in BOOLEAN
    BY CliTypes
  <1> USE DEF CliExit, Cli!Down, Cli!Background
  \* Up before and after.
  <1>4. ASSUME ~Cli!Down, ~Cli!Down', front' = front,
               front = "script" /\ wrong' => shell'.failures,
               front = "run" => /\ wrong' = wrong
                                /\ ran' => loop' = "foreground",
               loop' \in {"settle", "draining"} => Cli!Background
        PROVE  CliExit'
    BY <1>4 DEF Cli!ExitCodeTrue
  <1>6. ASSUME NEW f \in Fronts, NEW mode \in Cli!Modes, NEW t, Cli!Start(f, mode, t)
        PROVE  CliExit'
    <2>1. loop' = "prompt" /\ wrong' = FALSE /\ ran' = FALSE
      BY <1>6, Zenon DEF Cli!Start
    <2> QED BY <2>1 DEF Cli!ExitCodeTrue
  <1>7. ASSUME NEW t, Cli!ResumeFails(t) \/ Cli!BootFails
        PROVE  CliExit'
    BY <1>7 DEF Cli!ResumeFails, Cli!BootFails, Cli!ExitCodeTrue
  <1>8. ASSUME NEW t, Cli!ResumeFrame(t)
        PROVE  CliExit'
    <2>1. PICK s \in Cli!Loads(t) :
             shell' = [shell EXCEPT !.mode = files[s].mode, !.conv = s, !.status = "idle",
                                    !.plan = FALSE, !.task = 0, !.approvals = {}]
      BY <1>8, Zenon DEF Cli!ResumeFrame
    <2>2. shell'.failures = shell.failures
      BY <1>3, <2>1 DEF CliShells
    <2>3. ~Cli!Down /\ UNCHANGED <<front, loop, wrong, ran>>
      BY <1>8, Zenon DEF Cli!ResumeFrame, Cli!Headless
    <2> QED BY <1>4, <2>2, <2>3
  <1>9. CASE Cli!SetMode \/ Cli!CommandFails \/ Cli!Reject
    <2>1. /\ ~Cli!Down /\ ~Cli!Down' /\ front' = front /\ front # "run"
          /\ loop' \in {"settle", "draining"} => Cli!Background
      BY <1>9 DEF Cli!SetMode, Cli!CommandFails, Cli!Reject, Cli!After
    <2>2. wrong' => wrong \/ shell'.failures
      BY <1>1, <1>9 DEF Cli!SetMode, Cli!CommandFails, Cli!Reject, CliShells
    <2>3. shell.failures => shell'.failures
      BY <1>1, <1>9 DEF Cli!SetMode, Cli!CommandFails, Cli!Reject, CliShells
    <2> QED BY <1>4, <2>1, <2>2, <2>3
  <1>10. CASE \/ Cli!Asking \/ Cli!CommandDone \/ Cli!EndOfInput \/ Cli!PromptForApproval
              \/ Cli!Previewed \/ Cli!EnterPlan
    <2>1. /\ ~Cli!Down /\ ~Cli!Down' /\ UNCHANGED <<front, wrong, ran>>
          /\ loop' \in {"settle", "draining"} => Cli!Background
          /\ front = "run" => ~ran
      BY <1>10 DEF Cli!Asking, Cli!CommandDone, Cli!EndOfInput, Cli!PromptForApproval,
                   Cli!Previewed, Cli!EnterPlan, Cli!After
    <2>2. shell'.failures = shell.failures
      BY <1>1, <1>3, <1>10 DEF Cli!Asking, Cli!CommandDone, Cli!EndOfInput, Cli!PromptForApproval,
                         Cli!Previewed, Cli!EnterPlan, CliShells
    <2> QED BY <1>4, <2>1, <2>2
  <1>11. CASE Cli!EnterTask \/ Cli!Approve
    <2>1. ~Cli!Down /\ UNCHANGED <<front, wrong>> /\ loop = "prompt"
      BY <1>11 DEF Cli!EnterTask, Cli!Approve
    <2>2. CASE Cli!Background /\ Cli!Running
      BY <1>4, <1>11, <2>1, <2>2 DEF Cli!EnterTask, Cli!Approve, Cli!Refused, Cli!After
    <2>3. CASE ~(Cli!Background /\ Cli!Running)
      <3>1. PICK n, sh : Cli!Executes(n, sh) /\ sh \in CliShells /\ sh.failures = shell.failures
        <4>1. 0 \in Cli!Tasks
          BY DEF Cli!Tasks, CliParameters
        <4>2. PICK sh : sh = [Cli!Finalized(shell) EXCEPT !.plan = FALSE, !.task = 0]
          OBVIOUS
        <4>3. sh \in CliShells /\ sh.failures = shell.failures
          BY <1>1, <4>1, <4>2 DEF CliShells
        <4> QED BY <1>1, <1>11, <2>3, <4>2, <4>3 DEF Cli!EnterTask, Cli!Approve
      <3>2. shell'.failures = shell.failures /\ loop' = Cli!After("foreground")
        BY <3>1 DEF Cli!Executes, CliShells
      <3> QED BY <1>4, <2>1, <3>2 DEF Cli!After
    <2> QED BY <2>2, <2>3
  <1>13. CASE Cli!PreviewFails
    <2>2. CASE front = "run"
      BY <1>13, <2>2 DEF Cli!PreviewFails, Cli!Exits, Cli!ExitCodeTrue
    <2>3. CASE front # "run"
      BY <1>3, <1>4, <1>13, <2>3 DEF Cli!PreviewFails, CliShells, Cli!After
    <2> QED BY <2>2, <2>3
  <1>14. CASE Cli!PlanOnly
    BY <1>14 DEF Cli!PlanOnly, Cli!Exits, Cli!ExitCodeTrue
  <1>15. CASE \/ Cli!Interrupt \/ Cli!Quit \/ Cli!ApprovalTimeout \/ Cli!Asks \/ Cli!Answered
              \/ Cli!Pump
    <2>1. ~Cli!Down /\ UNCHANGED <<front, wrong, ran>>
      BY <1>15 DEF Cli!Interrupt, Cli!Quit, Cli!ApprovalTimeout, Cli!Asks, Cli!Answered, Cli!Pump,
                   CliOwn, Cli!NotRunning
    <2>2. shell'.failures = shell.failures
      BY <1>1, <1>3, <1>15 DEF Cli!Interrupt, Cli!Quit, Cli!ApprovalTimeout, Cli!Asks, Cli!Answered,
                               Cli!Pump, CliShells
    <2>3. /\ loop' # loop => loop' \in {"settle", "quitting"} /\ front # "run"
          /\ loop' = "settle" => Cli!Background
      BY <1>15 DEF Cli!Interrupt, Cli!Quit, Cli!ApprovalTimeout, Cli!Asks, Cli!Answered, Cli!Pump
    <2> QED BY <1>4, <2>1, <2>2, <2>3
  <1>16. CASE Cli!Settle
    BY <1>16 DEF Cli!Settle, Cli!Exits, Cli!ExitCodeTrue
  <1>17. CASE Cli!ScriptEnds
    <2>1. /\ front' = "script" /\ loop' = "down" /\ UNCHANGED <<shell, talk, wrong, ran>>
          /\ ~Cli!Down /\ front = "script"
      BY <1>17 DEF Cli!ScriptEnds, Cli!Exits
    <2>2. CASE rc' = 0
      <3>1. Cli!Save(shell.conv, talk) /\ ~shell.failures
        BY <1>17, <2>2 DEF Cli!ScriptEnds, Cli!Exits
      <3>2. files'[shell.conv].is = "snapshot" /\ files'[shell.conv].talk = talk
        BY <2>1, <3>1, CliTypes DEF CliOwn, Cli!Save, CliFiles
      <3> QED BY <2>1, <3>1, <3>2 DEF Cli!ExitCodeTrue
    <2> QED BY <2>1, <2>2 DEF Cli!ExitCodeTrue
  <1>18. CASE Cli!Drained
    BY <1>18 DEF Cli!Drained, Cli!Exits, Cli!ExitCodeTrue
  <1>19. CASE Cli!Finishes \/ Cli!Cancelled
    <2>1. ~Cli!Down
      <3>1. active.phase \in {"running", "cancelling"}
        BY <1>19 DEF Cli!Finishes, Cli!Cancelled
      <3> QED BY <3>1 DEF CliOwn, Cli!NotRunning
    <2>2. PICK ok, said : ok \in BOOLEAN /\ Cli!Ended(ok, said) /\ UNCHANGED ran
      BY <1>19 DEF Cli!Finishes, Cli!Cancelled
    <2>3. CASE front = "run"
      <3>1. loop' = "down" /\ front' = front /\ talk' = said /\ wrong' = (wrong \/ ~ok)
        BY <2>2, <2>3 DEF Cli!Ended, Cli!Exits
      <3>2. shell'.conv = shell.conv
        BY <1>3, <2>2, <2>3 DEF Cli!Ended, CliShells
      <3>3. CASE rc' = 0
        <4>1. Cli!Save(shell.conv, said) /\ ok
          BY <2>2, <2>3, <3>3 DEF Cli!Ended, Cli!Exits
        <4>2. files'[shell.conv].is = "snapshot" /\ files'[shell.conv].talk = said
          BY <2>1, <4>1, CliTypes DEF CliOwn, Cli!Save, CliFiles
        <4>3. ~wrong'
          BY <2>1, <2>3, <3>1, <4>1
        <4> QED BY <3>1, <3>2, <4>2, <4>3, <2>3 DEF Cli!ExitCodeTrue
      <3> QED BY <2>3, <3>1, <3>3 DEF Cli!ExitCodeTrue
    <2>4. CASE front # "run"
      <3>1. shell'.failures = (shell.failures \/ ~ok)
        BY <1>3, <2>2, <2>4 DEF Cli!Ended, CliShells
      <3>2. /\ wrong' = (wrong \/ ~ok) /\ front' = front /\ ~Cli!Down'
            /\ loop' \in {loop, "prompt"}
        BY <2>1, <2>2, <2>4 DEF Cli!Ended
      <3> QED BY <1>3, <1>4, <2>1, <2>4, <3>1, <3>2
    <2> QED BY <2>3, <2>4
  <1>21. CASE Cli!Killed
    BY <1>21 DEF Cli!Killed, Cli!Exits, Cli!ExitCodeTrue
  <1>22. CASE UNCHANGED Cli!vars
    BY <1>22 DEF Cli!vars, Cli!ExitCodeTrue
  <1> QED
    BY <1>6, <1>7, <1>8, <1>9, <1>10, <1>11, <1>13, <1>14, <1>15, <1>16, <1>17, <1>18,
       <1>19, <1>21, <1>22 DEF Cli!Next

LEMMA CliInit ==
    ASSUME CliParameters, Cli!Init
    PROVE  CliInv
  <1>1. Cli!TypeOK
    BY CliTypeInit
  <1>2. CliOwn
    BY DEF Cli!Init, CliOwn, Cli!Down, Cli!SnapshotOwnsMessages, Cli!Readable, Cli!None,
           Cli!Running, Cli!NotRunning
  <1>3. CliExit
    BY DEF Cli!Init, CliExit, Cli!Down, Cli!ExitCodeTrue
  <1> QED BY <1>1, <1>2, <1>3 DEF CliInv

LEMMA CliStep ==
    ASSUME CliParameters, CliInv, [Cli!Next]_Cli!vars
    PROVE  CliInv'
  BY CliTypeStep, CliOwnStep, CliExitStep DEF CliInv

\* The memory of a process and every snapshot hold one conversation, and the exit
\* code of a script or a run tells how it went: for any number of sessions, tasks,
\* processes and kills in between (session_store.py, main.py).
THEOREM CliKeepsSessions ==
    ASSUME CliParameters
    PROVE  Cli!Spec => [](Cli!TypeOK /\ Cli!SnapshotOwnsMessages /\ Cli!ExitCodeTrue)
  <1>1. Cli!Init => CliInv
    BY CliInit
  <1>2. CliInv /\ [Cli!Next]_Cli!vars => CliInv'
    BY CliStep
  <1>3. CliInv => Cli!TypeOK /\ Cli!SnapshotOwnsMessages /\ Cli!ExitCodeTrue
    BY DEF CliInv, CliOwn, CliExit
  <1> QED BY <1>1, <1>2, <1>3, PTL DEF Cli!Spec

-----------------------------------------------------------------------------
(* McpClient.                                                                *)

ClientParameters == Kinds \subseteq {"stdio", "http"} /\ MaxRequests \in Nat /\ MaxNotices \in Nat

\* The messages on their way, and those of them that receive() can still return.
ClientSent ==
    asked \union {pipe[i].msg : i \in 1..Len(pipe)} \union {buffer[i].msg : i \in 1..Len(buffer)}
          \union {inbox[i] : i \in 1..Len(inbox)} \union {stream[i] : i \in 1..Len(stream)}
ClientNear ==
    asked \union {pipe[i].msg : i \in {j \in 1..Len(pipe) : pipe[j].end}}
          \union {buffer[i].msg : i \in {j \in 1..Len(buffer) : buffer[j].end}}
          \union {inbox[i] : i \in 1..Len(inbox)} \union {stream[i] : i \in 1..Len(stream)}

\* Ids are never used twice: what has the id of a request is the answer to it.
ClientPairs ==
    /\ \A m \in ClientSent : m.id <= lastId /\ m.serial <= serial
    /\ \A t \in Tasks :
          /\ rpc[t].id <= lastId /\ rpc[t].serial <= serial
          /\ rpc[t].id # 0 => rpc[t].serial # 0 /\ \A m \in ClientSent :
                                 m.id = rpc[t].id <=> m.serial = rpc[t].serial
          /\ Client!UnderWay(t) => rpc[t].id # 0
          /\ rpc[t].outcome = "answer" => rpc[t].got = rpc[t].serial
          /\ rpc[t].phase \in {"closing", "opening"} => rpc[t].outcome # "answer"

\* While requests do not overlap, the answer to the one under way is near.
ClientAlone ==
    /\ \A i \in 1..Len(stream) - 1 : stream[i] = Client!Notice
    /\ ~mixed => \A t, u \in Tasks : Client!UnderWay(t) /\ Client!UnderWay(u) => t = u
    /\ ~mixed /\ Client!Reachable => \A t \in Tasks : Client!UnderWay(t) =>
          \E m \in ClientNear : m.serial = rpc[t].serial

ClientInv == Client!TypeOK /\ ClientPairs /\ ClientAlone

ClientCalls == [phase : Client!Phases, for : {"call", "initialize"}, id : 0..MaxRequests,
                serial : 0..MaxRequests, outcome : Client!Outcomes, got : 0..MaxRequests]
ClientWires == [open : BOOLEAN, ready : BOOLEAN, process : {"none", "up", "down"}]

LEMMA ClientTypes ==
    /\ Client!TypeOK <=>
         /\ kind \in {"stdio", "http"} /\ wire \in ClientWires
         /\ lastId \in 0..MaxRequests /\ serial \in 0..MaxRequests
         /\ rpc \in [Tasks -> ClientCalls]
         /\ asked \subseteq Client!Messages /\ notices \in 0..MaxNotices /\ mixed \in BOOLEAN
         /\ pipe \in Seq(Client!Pieces) /\ buffer \in Seq(Client!Pieces)
         /\ inbox \in Seq(Client!Messages) /\ stream \in Seq(Client!Messages)
    /\ Client!TypeOK' <=>
         /\ kind' \in {"stdio", "http"} /\ wire' \in ClientWires
         /\ lastId' \in 0..MaxRequests /\ serial' \in 0..MaxRequests
         /\ rpc' \in [Tasks -> ClientCalls]
         /\ asked' \subseteq Client!Messages /\ notices' \in 0..MaxNotices /\ mixed' \in BOOLEAN
         /\ pipe' \in Seq(Client!Pieces) /\ buffer' \in Seq(Client!Pieces)
         /\ inbox' \in Seq(Client!Messages) /\ stream' \in Seq(Client!Messages)
  BY Zenon DEF Client!TypeOK, ClientCalls, ClientWires

LEMMA ClientMessages ==
    ASSUME Client!TypeOK, ClientParameters
    PROVE  /\ ClientSent \subseteq Client!Messages /\ ClientNear \subseteq ClientSent
           /\ \A m \in Client!Messages : m.id \in Nat /\ m.serial \in Nat
           /\ Client!Notice \in Client!Messages
           /\ Client!Notice.id = 0 /\ Client!Notice.serial = 0
           /\ Client!Idle \in ClientCalls
  <1>1. /\ \A i \in 1..Len(pipe) : pipe[i].msg \in Client!Messages
        /\ \A i \in 1..Len(buffer) : buffer[i].msg \in Client!Messages
        /\ \A i \in 1..Len(inbox) : inbox[i] \in Client!Messages
        /\ \A i \in 1..Len(stream) : stream[i] \in Client!Messages
        /\ asked \subseteq Client!Messages
    <2>1. /\ pipe \in Seq(Client!Pieces) /\ buffer \in Seq(Client!Pieces)
          /\ inbox \in Seq(Client!Messages) /\ stream \in Seq(Client!Messages)
          /\ asked \subseteq Client!Messages
      BY DEF Client!TypeOK
    <2>2. /\ \A i \in 1..Len(pipe) : pipe[i] \in Client!Pieces
          /\ \A i \in 1..Len(buffer) : buffer[i] \in Client!Pieces
      BY <2>1
    <2>3. /\ \A i \in 1..Len(inbox) : inbox[i] \in Client!Messages
          /\ \A i \in 1..Len(stream) : stream[i] \in Client!Messages
      BY <2>1
    <2>4. \A piece \in Client!Pieces : piece.msg \in Client!Messages
      BY DEF Client!Pieces
    <2> QED BY <2>1, <2>2, <2>3, <2>4, Zenon
  <1>2. ClientSent \subseteq Client!Messages /\ ClientNear \subseteq ClientSent
    BY <1>1 DEF ClientSent, ClientNear
  <1>3. /\ \A m \in Client!Messages : m.id \in Nat /\ m.serial \in Nat
        /\ Client!Notice \in Client!Messages
        /\ Client!Notice.id = 0 /\ Client!Notice.serial = 0
    BY DEF Client!Messages, Client!Notice, ClientParameters
  <1>4. Client!Idle \in ClientCalls
    BY DEF Client!Idle, ClientCalls, Client!Phases, Client!Outcomes, ClientParameters
  <1> QED BY <1>2, <1>3, <1>4

\* The end of a request.
LEMMA ClientFinish ==
    ASSUME Client!TypeOK, ClientParameters, NEW t \in Tasks, NEW how \in Client!Outcomes,
           NEW got \in 0..MaxRequests, Client!Finish(t, how, got)
    PROVE  /\ rpc' \in [Tasks -> ClientCalls] /\ \A u \in Tasks \ {t} : rpc'[u] = rpc[u]
           /\ rpc'[t].phase = "idle" /\ rpc'[t].id = 0 /\ rpc'[t].serial = rpc[t].serial
           /\ rpc'[t].outcome = how /\ rpc'[t].got = got
  <1>1. PICK c : c = [phase |-> "idle", for |-> rpc[t].for, id |-> 0, serial |-> rpc[t].serial,
                      outcome |-> how, got |-> got]
    OBVIOUS
  <1>2. rpc' = [rpc EXCEPT ![t] = c]
    <2>1. PICK c1 : c1 = [Client!Idle EXCEPT !.for = rpc[t].for]
      OBVIOUS
    <2>2. PICK c2 : c2 = [c1 EXCEPT !.serial = rpc[t].serial]
      OBVIOUS
    <2>3. PICK c3 : c3 = [c2 EXCEPT !.outcome = how]
      OBVIOUS
    <2>4. c1 = [phase |-> "idle", for |-> rpc[t].for, id |-> 0, serial |-> 0,
                outcome |-> "none", got |-> 0]
      BY <2>1 DEF Client!Idle
    <2>5. c2 = [phase |-> "idle", for |-> rpc[t].for, id |-> 0, serial |-> rpc[t].serial,
                outcome |-> "none", got |-> 0]
      BY <2>2, <2>4
    <2>6. c3 = [phase |-> "idle", for |-> rpc[t].for, id |-> 0, serial |-> rpc[t].serial,
                outcome |-> how, got |-> 0]
      BY <2>3, <2>5
    <2>7. [c3 EXCEPT !.got = got] = c
      BY <1>1, <2>6
    <2> QED BY <2>1, <2>2, <2>3, <2>7, Zenon DEF Client!Finish
  <1>3. rpc \in [Tasks -> ClientCalls]
    BY ClientTypes
  <1>4. c \in ClientCalls
    BY <1>1, <1>3 DEF ClientCalls, Client!Phases, ClientParameters
  <1> QED BY <1>1, <1>2, <1>3, <1>4

\* A request that fails ends, or closes the transport first.
LEMMA ClientFail ==
    ASSUME Client!TypeOK, ClientParameters, NEW t \in Tasks,
           NEW how \in {"failed", "timeout"}, Client!Fail(t, how)
    PROVE  /\ rpc' \in [Tasks -> ClientCalls] /\ \A u \in Tasks \ {t} : rpc'[u] = rpc[u]
           /\ rpc'[t].phase \in {"idle", "closing"} /\ rpc'[t].id \in {0, rpc[t].id}
           /\ rpc'[t].serial = rpc[t].serial /\ rpc'[t].outcome = how
           /\ wire' \in ClientWires /\ (wire' = wire \/ ~wire'.open)
           /\ wire'.process = wire.process
  <1>1. rpc \in [Tasks -> ClientCalls] /\ wire \in ClientWires
    BY ClientTypes
  <1>2. CASE rpc[t].for = "initialize" /\ wire.open
    <2>1. /\ rpc' = [rpc EXCEPT ![t].phase = "closing", ![t].outcome = how]
          /\ wire' = [wire EXCEPT !.open = FALSE]
      BY <1>2 DEF Client!Fail
    <2>2. wire' \in ClientWires /\ ~wire'.open /\ wire'.process = wire.process
      BY <1>1, <2>1 DEF ClientWires
    <2>3. PICK r : r = [rpc EXCEPT ![t].phase = "closing"]
      OBVIOUS
    <2>4. r \in [Tasks -> ClientCalls] /\ r[t].phase = "closing" /\ r[t].id = rpc[t].id
          /\ r[t].serial = rpc[t].serial /\ \A u \in Tasks \ {t} : r[u] = rpc[u]
      BY <1>1, <2>3 DEF ClientCalls, Client!Phases
    <2>5. rpc' = [r EXCEPT ![t].outcome = how]
      BY <2>1, <2>3
    <2>6. /\ rpc' \in [Tasks -> ClientCalls] /\ rpc'[t].phase = "closing" /\ rpc'[t].id = r[t].id
          /\ rpc'[t].serial = r[t].serial /\ \A u \in Tasks \ {t} : rpc'[u] = r[u]
          /\ rpc'[t].outcome = how
      BY <2>4, <2>5 DEF ClientCalls, Client!Outcomes
    <2> QED BY <2>2, <2>4, <2>6
  <1>3. CASE ~(rpc[t].for = "initialize" /\ wire.open)
    <2>1. Client!Finish(t, how, 0) /\ wire' = wire
      BY <1>3 DEF Client!Fail
    <2>2. how \in Client!Outcomes /\ 0 \in 0..MaxRequests
      BY DEF Client!Outcomes, ClientParameters
    <2> QED BY <1>1, <2>1, <2>2, ClientFinish
  <1> QED BY <1>2, <1>3

\* A request that is sent: its id and its serial are new.
LEMMA ClientAsk ==
    ASSUME Client!TypeOK, ClientParameters, NEW t \in Tasks, NEW for \in {"call", "initialize"},
           Client!Ask(t, for)
    PROVE  /\ rpc' \in [Tasks -> ClientCalls] /\ \A u \in Tasks \ {t} : rpc'[u] = rpc[u]
           /\ lastId' = lastId + 1 /\ serial' = serial + 1
           /\ lastId' \in 0..MaxRequests /\ serial' \in 0..MaxRequests
           /\ rpc'[t].phase \in {"receive", "posting"} /\ rpc'[t].outcome = "none"
           /\ rpc'[t].id = lastId' /\ rpc'[t].serial = serial'
           /\ asked' = asked \union {[id |-> lastId', serial |-> serial']}
           /\ asked' \subseteq Client!Messages /\ mixed' \in BOOLEAN
           /\ ~mixed' => ~mixed /\ \A u \in Tasks \ {t} : ~Client!UnderWay(u)
  <1>1. /\ rpc \in [Tasks -> ClientCalls] /\ lastId \in 0..MaxRequests /\ serial \in 0..MaxRequests
        /\ asked \subseteq Client!Messages /\ mixed \in BOOLEAN
    BY ClientTypes
  <1>2. /\ serial < MaxRequests /\ lastId < MaxRequests
        /\ lastId' = lastId + 1 /\ serial' = serial + 1
        /\ asked' = asked \union {[id |-> lastId', serial |-> serial']}
    BY DEF Client!Ask
  <1>3. /\ mixed' \in BOOLEAN /\ (~mixed' => ~mixed /\ \A u \in Tasks \ {t} : ~Client!UnderWay(u))
    BY Zenon DEF Client!Ask
  <1>4. lastId' \in 0..MaxRequests /\ serial' \in 0..MaxRequests
    BY <1>1, <1>2 DEF ClientParameters
  <1>5. asked' \subseteq Client!Messages
    BY <1>1, <1>2, <1>4 DEF Client!Messages
  <1>6. PICK c : c = [phase |-> IF kind = "stdio" THEN "receive" ELSE "posting", for |-> for,
                      id |-> lastId', serial |-> serial', outcome |-> "none", got |-> 0]
    OBVIOUS
  <1>7. rpc' = [rpc EXCEPT ![t] = c]
    <2>1. PICK c1 : c1 = [Client!Idle EXCEPT !.for = for]
      OBVIOUS
    <2>2. PICK c2 : c2 = [c1 EXCEPT !.id = lastId']
      OBVIOUS
    <2>3. PICK c3 : c3 = [c2 EXCEPT !.serial = serial']
      OBVIOUS
    <2>4. c1 = [phase |-> "idle", for |-> for, id |-> 0, serial |-> 0,
                outcome |-> "none", got |-> 0]
      BY <2>1 DEF Client!Idle
    <2>5. c2 = [phase |-> "idle", for |-> for, id |-> lastId', serial |-> 0,
                outcome |-> "none", got |-> 0]
      BY <2>2, <2>4
    <2>6. c3 = [phase |-> "idle", for |-> for, id |-> lastId', serial |-> serial',
                outcome |-> "none", got |-> 0]
      BY <2>3, <2>5
    <2>7. [c3 EXCEPT !.phase = IF kind = "stdio" THEN "receive" ELSE "posting"] = c
      BY <1>6, <2>6
    <2> QED BY <2>1, <2>2, <2>3, <2>7, Zenon DEF Client!Ask
  <1>8. c \in ClientCalls
    BY <1>4, <1>6 DEF ClientCalls, Client!Phases, Client!Outcomes, ClientParameters
  <1> QED BY <1>1, <1>2, <1>3, <1>4, <1>5, <1>6, <1>7, <1>8

\* The first end of a line, if there is one, is in the buffer.
LEMMA ClientLine ==
    ASSUME buffer \in Seq(Client!Pieces)
    PROVE  /\ Client!LineEnd \in 0..Len(buffer)
           /\ Client!LineEnd # 0 => \A j \in 1..Client!LineEnd - 1 : ~buffer[j].end
           /\ Client!LineEnd = 0 => \A j \in 1..Len(buffer) : ~buffer[j].end
  <1>1. Len(buffer) \in Nat /\ DOMAIN buffer = 1..Len(buffer)
    OBVIOUS
  <1>2. CASE \E i \in DOMAIN buffer : buffer[i].end
    <2>1. PICK ends : ends = {i \in 1..Len(buffer) : buffer[i].end}
      OBVIOUS
    <2>2. ends \subseteq Nat /\ ends # {}
      BY <1>1, <1>2, <2>1
    <2>3. PICK i \in ends : \A j \in ends : i <= j
      BY <2>2, LeastOf
    <2>4. i \in DOMAIN buffer /\ buffer[i].end /\ \A j \in 1..i - 1 : ~buffer[j].end
      BY <1>1, <2>1, <2>3
    <2>5. Client!LineEnd = CHOOSE k \in DOMAIN buffer :
                              buffer[k].end /\ \A j \in 1..k - 1 : ~buffer[j].end
      BY <1>2 DEF Client!LineEnd
    <2>6. Client!LineEnd \in DOMAIN buffer /\ \A j \in 1..Client!LineEnd - 1 : ~buffer[j].end
      BY <2>4, <2>5
    <2> QED BY <1>1, <2>6
  <1>3. CASE ~\E i \in DOMAIN buffer : buffer[i].end
    <2>1. Client!LineEnd = 0
      BY <1>3 DEF Client!LineEnd
    <2> QED BY <1>1, <1>3, <2>1
  <1> QED BY <1>2, <1>3

\* What a step leaves of the pairs: no message but the notice is new, and a request
\* keeps its id and serial, or has ended.
LEMMA ClientPairsKept ==
    ASSUME ClientParameters, Client!TypeOK, Client!TypeOK', ClientPairs,
           lastId <= lastId', UNCHANGED serial,
           ClientSent' \subseteq ClientSent \union {Client!Notice},
           \A t \in Tasks :
              \/ rpc'[t] = rpc[t]
              \/ /\ rpc'[t].id = 0 \/ rpc'[t].id = rpc[t].id
                 /\ rpc'[t].serial = rpc[t].serial \/ (rpc'[t].id = 0 /\ rpc'[t].serial = 0)
                 /\ rpc'[t].phase \in {"receive", "parked", "posting"} => rpc'[t].id # 0
                 /\ rpc'[t].outcome = "answer" => rpc'[t].got = rpc'[t].serial
                 /\ rpc'[t].phase \in {"closing", "opening"} => rpc'[t].outcome # "answer"
    PROVE  ClientPairs'
  <1>1. /\ lastId \in Nat /\ lastId' \in Nat /\ serial \in Nat
        /\ \A t \in Tasks : rpc[t].id \in Nat /\ rpc[t].serial \in Nat
    <2>1. /\ lastId \in 0..MaxRequests /\ lastId' \in 0..MaxRequests /\ serial \in 0..MaxRequests
          /\ rpc \in [Tasks -> ClientCalls]
      BY ClientTypes, Zenon
    <2>2. \A c \in ClientCalls : c.id \in Nat /\ c.serial \in Nat
      BY DEF ClientParameters, ClientCalls
    <2>3. \A n \in 0..MaxRequests : n \in Nat
      BY DEF ClientParameters
    <2> QED BY <2>1, <2>2, <2>3, Zenon
  <1>2. /\ ClientSent \subseteq Client!Messages
        /\ \A m \in Client!Messages : m.id \in Nat /\ m.serial \in Nat
        /\ Client!Notice.id = 0 /\ Client!Notice.serial = 0
    BY ClientMessages
  <1>3. \A m \in ClientSent' : m.id <= lastId' /\ m.serial <= serial'
    BY <1>1, <1>2 DEF ClientPairs
  <1>4. ASSUME NEW t \in Tasks
        PROVE  /\ rpc'[t].id <= lastId' /\ rpc'[t].serial <= serial'
               /\ rpc'[t].id # 0 => rpc'[t].serial # 0 /\ \A m \in ClientSent' :
                                      m.id = rpc'[t].id <=> m.serial = rpc'[t].serial
               /\ rpc'[t].phase \in {"receive", "parked", "posting"} => rpc'[t].id # 0
               /\ rpc'[t].outcome = "answer" => rpc'[t].got = rpc'[t].serial
               /\ rpc'[t].phase \in {"closing", "opening"} => rpc'[t].outcome # "answer"
    <2>1. /\ rpc[t].id <= lastId /\ rpc[t].serial <= serial
          /\ rpc[t].id # 0 => rpc[t].serial # 0 /\ \A m \in ClientSent :
                                 m.id = rpc[t].id <=> m.serial = rpc[t].serial
          /\ rpc[t].phase \in {"receive", "parked", "posting"} => rpc[t].id # 0
          /\ rpc[t].outcome = "answer" => rpc[t].got = rpc[t].serial
          /\ rpc[t].phase \in {"closing", "opening"} => rpc[t].outcome # "answer"
      BY DEF ClientPairs, Client!UnderWay
    <2> QED BY <1>1, <1>2, <2>1
  <1> QED BY <1>3, <1>4 DEF ClientPairs, Client!UnderWay

\* A request that is sent, with what the pipe holds kept or forgotten.
LEMMA ClientPairsAsk ==
    ASSUME ClientParameters, Client!TypeOK, ClientPairs, NEW t \in Tasks,
           NEW for \in {"call", "initialize"}, Client!Ask(t, for),
           pipe' = <<>> \/ pipe' = pipe, UNCHANGED <<buffer, inbox, stream>>
    PROVE  ClientPairs'
  <1>1. /\ rpc' \in [Tasks -> ClientCalls] /\ \A u \in Tasks \ {t} : rpc'[u] = rpc[u]
        /\ lastId' = lastId + 1 /\ serial' = serial + 1
        /\ rpc'[t].phase \in {"receive", "posting"} /\ rpc'[t].outcome = "none"
        /\ rpc'[t].id = lastId' /\ rpc'[t].serial = serial'
        /\ asked' = asked \union {[id |-> lastId', serial |-> serial']}
    BY ClientAsk
  <1>2. /\ lastId \in Nat /\ serial \in Nat
        /\ \A u \in Tasks : rpc[u].id \in Nat /\ rpc[u].serial \in Nat
    <2>1. /\ lastId \in 0..MaxRequests /\ serial \in 0..MaxRequests
          /\ rpc \in [Tasks -> ClientCalls]
      BY ClientTypes, Zenon
    <2>2. \A c \in ClientCalls : c.id \in Nat /\ c.serial \in Nat
      BY DEF ClientParameters, ClientCalls
    <2>3. \A n \in 0..MaxRequests : n \in Nat
      BY DEF ClientParameters
    <2> QED BY <2>1, <2>2, <2>3, Zenon
  <1>3. /\ ClientSent \subseteq Client!Messages
        /\ \A m \in Client!Messages : m.id \in Nat /\ m.serial \in Nat
    BY ClientMessages
  <1>4. ClientSent' \subseteq ClientSent \union {[id |-> lastId', serial |-> serial']}
    <2>1. CASE pipe' = pipe
      BY <1>1, <2>1 DEF ClientSent
    <2>2. CASE pipe' = <<>>
      BY <1>1, <2>2 DEF ClientSent
    <2> QED BY <2>1, <2>2
  <1>5. \A m \in ClientSent' : \/ m.id = lastId + 1 /\ m.serial = serial + 1
                               \/ m \in ClientSent /\ m.id <= lastId /\ m.serial <= serial
                                  /\ m.id \in Nat /\ m.serial \in Nat
    BY <1>1, <1>3, <1>4 DEF ClientPairs
  <1>6. ASSUME NEW u \in Tasks \ {t}
        PROVE  /\ rpc'[u].id <= lastId' /\ rpc'[u].serial <= serial'
               /\ rpc'[u].id # 0 => rpc'[u].serial # 0 /\ \A m \in ClientSent' :
                                      m.id = rpc'[u].id <=> m.serial = rpc'[u].serial
               /\ rpc'[u].phase \in {"receive", "parked", "posting"} => rpc'[u].id # 0
               /\ rpc'[u].outcome = "answer" => rpc'[u].got = rpc'[u].serial
               /\ rpc'[u].phase \in {"closing", "opening"} => rpc'[u].outcome # "answer"
    <2>1. /\ rpc[u].id <= lastId /\ rpc[u].serial <= serial
          /\ rpc[u].id # 0 => rpc[u].serial # 0 /\ \A m \in ClientSent :
                                 m.id = rpc[u].id <=> m.serial = rpc[u].serial
          /\ rpc[u].phase \in {"receive", "parked", "posting"} => rpc[u].id # 0
          /\ rpc[u].outcome = "answer" => rpc[u].got = rpc[u].serial
          /\ rpc[u].phase \in {"closing", "opening"} => rpc[u].outcome # "answer"
      BY DEF ClientPairs, Client!UnderWay
    <2> QED BY <1>1, <1>2, <1>5, <2>1
  <1>7. /\ rpc'[t].id <= lastId' /\ rpc'[t].serial <= serial'
        /\ rpc'[t].id # 0 => rpc'[t].serial # 0 /\ \A m \in ClientSent' :
                               m.id = rpc'[t].id <=> m.serial = rpc'[t].serial
        /\ rpc'[t].phase \in {"receive", "parked", "posting"} => rpc'[t].id # 0
        /\ rpc'[t].outcome # "answer"
    BY <1>1, <1>2, <1>5
  <1>8. \A m \in ClientSent' : m.id <= lastId' /\ m.serial <= serial'
    BY <1>1, <1>2, <1>5
  <1> QED BY <1>6, <1>7, <1>8 DEF ClientPairs, Client!UnderWay

\* The rest of the types, whatever a step did to the messages.
ClientHolds(k, l, n, a, w, p, b, i, st, mx) ==
    /\ k \in {"stdio", "http"} /\ l \in 0..MaxRequests /\ n \in 0..MaxNotices
    /\ a \subseteq Client!Messages /\ w \in ClientWires
    /\ p \in Seq(Client!Pieces) /\ b \in Seq(Client!Pieces)
    /\ i \in Seq(Client!Messages) /\ st \in Seq(Client!Messages) /\ mx \in BOOLEAN

ClientBox == ClientHolds(kind, lastId, notices, asked, wire, pipe, buffer, inbox, stream, mixed)

LEMMA ClientTyped ==
    /\ Client!TypeOK <=> ClientBox /\ serial \in 0..MaxRequests /\ rpc \in [Tasks -> ClientCalls]
    /\ Client!TypeOK' <=> ClientBox' /\ serial' \in 0..MaxRequests /\ rpc' \in [Tasks -> ClientCalls]
  BY ClientTypes, Zenon DEF ClientBox, ClientHolds

\* Notices come before the answer in a stream.
ClientStream == \A i \in 1..Len(stream) - 1 : stream[i] = Client!Notice

\* A request ends, or one that has ended goes on to close or open the transport.
LEMMA ClientEnds ==
    ASSUME ClientParameters, ClientInv, NEW t \in Tasks,
           rpc' \in [Tasks -> ClientCalls], \A u \in Tasks \ {t} : rpc'[u] = rpc[u],
           rpc'[t].phase \in {"idle", "closing", "opening"}, rpc'[t].outcome # "answer",
           \/ rpc'[t].id = 0 /\ rpc'[t].serial = 0
           \/ rpc'[t].id \in {0, rpc[t].id} /\ rpc'[t].serial = rpc[t].serial,
           ClientBox', ClientStream', UNCHANGED serial, lastId <= lastId', mixed => mixed',
           ClientSent' \subseteq ClientSent \union {Client!Notice},
           \/ Client!UnderWay(t) \/ ~Client!Reachable'
           \/ ClientNear \subseteq ClientNear' /\ (Client!Reachable' => Client!Reachable)
    PROVE  ClientInv'
  <1>1. Client!TypeOK /\ ClientPairs /\ ClientAlone
    BY DEF ClientInv
  <1>2. Client!TypeOK'
    BY <1>1, ClientTyped
  <1>3. ClientPairs'
    <2>1. \A u \in Tasks :
              \/ rpc'[u] = rpc[u]
              \/ /\ rpc'[u].id = 0 \/ rpc'[u].id = rpc[u].id
                 /\ rpc'[u].serial = rpc[u].serial \/ (rpc'[u].id = 0 /\ rpc'[u].serial = 0)
                 /\ rpc'[u].phase \in {"receive", "parked", "posting"} => rpc'[u].id # 0
                 /\ rpc'[u].outcome = "answer" => rpc'[u].got = rpc'[u].serial
                 /\ rpc'[u].phase \in {"closing", "opening"} => rpc'[u].outcome # "answer"
      <3>1. /\ rpc'[t].id = 0 \/ rpc'[t].id = rpc[t].id
            /\ rpc'[t].serial = rpc[t].serial \/ (rpc'[t].id = 0 /\ rpc'[t].serial = 0)
            /\ rpc'[t].phase \in {"receive", "parked", "posting"} => rpc'[t].id # 0
            /\ rpc'[t].outcome = "answer" => rpc'[t].got = rpc'[t].serial
            /\ rpc'[t].phase \in {"closing", "opening"} => rpc'[t].outcome # "answer"
        OBVIOUS
      <3>2. \A u \in Tasks \ {t} : rpc'[u] = rpc[u]
        OBVIOUS
      <3> QED BY <3>1, <3>2
    <2> QED BY <1>1, <1>2, <2>1, ClientPairsKept
  <1>4. \A u \in Tasks : Client!UnderWay(u)' => u # t /\ Client!UnderWay(u) /\ rpc'[u] = rpc[u]
    BY DEF Client!UnderWay
  <1>5. ~mixed' => ~mixed
    OBVIOUS
  <1>6. ASSUME ~mixed', Client!Reachable', NEW u \in Tasks, Client!UnderWay(u)'
        PROVE  \E m \in ClientNear' : m.serial = rpc'[u].serial
    <2>1. ~Client!UnderWay(t)
      BY <1>1, <1>4, <1>5, <1>6 DEF ClientAlone
    <2>2. ClientNear \subseteq ClientNear' /\ Client!Reachable
      BY <1>6, <2>1
    <2>3. \E m \in ClientNear : m.serial = rpc[u].serial
      BY <1>1, <1>4, <1>5, <1>6, <2>2 DEF ClientAlone
    <2> QED BY <1>4, <1>6, <2>2, <2>3
  <1>7. ~mixed' => \A u, w \in Tasks : Client!UnderWay(u)' /\ Client!UnderWay(w)' => u = w
    BY <1>1, <1>4, <1>5 DEF ClientAlone
  <1>8. ClientAlone'
    BY <1>6, <1>7 DEF ClientAlone, ClientStream
  <1> QED BY <1>2, <1>3, <1>8 DEF ClientInv

\* A request goes on, its answer near if it was near.
LEMMA ClientGoesOn ==
    ASSUME ClientParameters, ClientInv, NEW t \in Tasks, NEW phase \in {"receive", "parked"},
           Client!UnderWay(t), rpc' = [rpc EXCEPT ![t].phase = phase],
           ClientBox', ClientStream', UNCHANGED <<kind, wire, lastId, serial, mixed>>,
           ClientSent' \subseteq ClientSent \union {Client!Notice},
           \A m \in ClientNear : m.serial = rpc[t].serial =>
                                    \E n \in ClientNear' : n.serial = rpc[t].serial
    PROVE  ClientInv'
  <1>1. Client!TypeOK /\ ClientPairs /\ ClientAlone /\ rpc \in [Tasks -> ClientCalls]
    BY ClientTypes DEF ClientInv
  <1>2. /\ rpc' \in [Tasks -> ClientCalls] /\ \A u \in Tasks \ {t} : rpc'[u] = rpc[u]
        /\ rpc'[t].phase = phase /\ rpc'[t].id = rpc[t].id /\ rpc'[t].serial = rpc[t].serial
        /\ rpc'[t].outcome = rpc[t].outcome /\ rpc'[t].got = rpc[t].got
    BY <1>1 DEF ClientCalls, Client!Phases
  <1>3. Client!TypeOK'
    BY <1>1, <1>2, ClientTyped
  <1>4. ClientPairs'
    <2>1. rpc[t].id # 0 /\ (rpc[t].outcome = "answer" => rpc[t].got = rpc[t].serial)
      BY <1>1 DEF ClientPairs
    <2>2. \A u \in Tasks :
              \/ rpc'[u] = rpc[u]
              \/ /\ rpc'[u].id = 0 \/ rpc'[u].id = rpc[u].id
                 /\ rpc'[u].serial = rpc[u].serial \/ (rpc'[u].id = 0 /\ rpc'[u].serial = 0)
                 /\ rpc'[u].phase \in {"receive", "parked", "posting"} => rpc'[u].id # 0
                 /\ rpc'[u].outcome = "answer" => rpc'[u].got = rpc'[u].serial
                 /\ rpc'[u].phase \in {"closing", "opening"} => rpc'[u].outcome # "answer"
      <3>1. /\ rpc'[t].id = 0 \/ rpc'[t].id = rpc[t].id
            /\ rpc'[t].serial = rpc[t].serial \/ (rpc'[t].id = 0 /\ rpc'[t].serial = 0)
            /\ rpc'[t].phase \in {"receive", "parked", "posting"} => rpc'[t].id # 0
            /\ rpc'[t].outcome = "answer" => rpc'[t].got = rpc'[t].serial
            /\ rpc'[t].phase \in {"closing", "opening"} => rpc'[t].outcome # "answer"
        BY <1>2, <2>1
      <3>2. \A u \in Tasks \ {t} : rpc'[u] = rpc[u]
        BY <1>2
      <3> QED BY <3>1, <3>2
    <2>3. lastId <= lastId'
      BY <1>1 DEF Client!TypeOK, ClientParameters
    <2> QED BY <1>1, <1>3, <2>2, <2>3, ClientPairsKept
  <1>5. \A u \in Tasks : Client!UnderWay(u)' => Client!UnderWay(u) /\ rpc'[u].serial = rpc[u].serial
    BY <1>2 DEF Client!UnderWay
  <1>6. Client!Reachable' <=> Client!Reachable
    BY DEF Client!Reachable
  <1>7. ASSUME ~mixed', Client!Reachable', NEW u \in Tasks, Client!UnderWay(u)'
        PROVE  \E m \in ClientNear' : m.serial = rpc'[u].serial
    <2>1. u = t
      BY <1>1, <1>5, <1>7 DEF ClientAlone
    <2>2. \E m \in ClientNear : m.serial = rpc[t].serial
      BY <1>1, <1>6, <1>7 DEF ClientAlone
    <2> QED BY <1>2, <2>1, <2>2
  <1>8. ~mixed' => \A u, w \in Tasks : Client!UnderWay(u)' /\ Client!UnderWay(w)' => u = w
    BY <1>1, <1>5 DEF ClientAlone
  <1>9. ClientAlone'
    BY <1>7, <1>8 DEF ClientAlone, ClientStream
  <1> QED BY <1>3, <1>4, <1>9 DEF ClientInv

\* What a request does with the message it has received.
LEMMA ClientConsiders ==
    ASSUME ClientParameters, ClientInv, NEW t \in Tasks, Client!UnderWay(t),
           NEW m \in ClientSent, Client!Consider(t, m),
           ClientHolds(kind', lastId', notices', asked', wire, pipe', buffer', inbox', stream', mixed'),
           ClientStream', UNCHANGED <<kind, lastId, serial, mixed>>,
           ClientSent' \subseteq ClientSent, ClientNear \ {m} \subseteq ClientNear'
    PROVE  ClientInv'
  <1>1. /\ Client!TypeOK /\ ClientPairs /\ ClientAlone /\ rpc \in [Tasks -> ClientCalls]
        /\ wire \in ClientWires
    BY ClientTypes DEF ClientInv
  <1>2. /\ rpc[t].id # 0 /\ \A n \in ClientSent : n.id = rpc[t].id <=> n.serial = rpc[t].serial
        /\ m.serial \in 0..MaxRequests
    BY <1>1, ClientMessages DEF ClientPairs, Client!Messages
  <1>3. CASE m.id = rpc[t].id
    <2>1. Client!Finish(t, "answer", m.serial) /\ wire' = [wire EXCEPT !.ready = @ \/ rpc[t].for = "initialize"]
      BY <1>3 DEF Client!Consider
    <2>2. /\ rpc' \in [Tasks -> ClientCalls] /\ \A u \in Tasks \ {t} : rpc'[u] = rpc[u]
          /\ rpc'[t].phase = "idle" /\ rpc'[t].id = 0 /\ rpc'[t].serial = rpc[t].serial
          /\ rpc'[t].outcome = "answer" /\ rpc'[t].got = m.serial
      <3>1. "answer" \in Client!Outcomes
        BY DEF Client!Outcomes
      <3> QED BY <1>1, <1>2, <2>1, <3>1, ClientFinish
    <2>3. wire' \in ClientWires
      BY <1>1, <2>1 DEF ClientWires
    <2>4. ClientBox'
      BY <2>3 DEF ClientBox, ClientHolds
    <2>5. Client!TypeOK'
      BY <1>1, <2>2, <2>4, ClientTyped DEF Client!TypeOK
    <2>6. ClientPairs'
      <3>1. \A u \in Tasks :
              \/ rpc'[u] = rpc[u]
              \/ /\ rpc'[u].id = 0 \/ rpc'[u].id = rpc[u].id
                 /\ rpc'[u].serial = rpc[u].serial \/ (rpc'[u].id = 0 /\ rpc'[u].serial = 0)
                 /\ rpc'[u].phase \in {"receive", "parked", "posting"} => rpc'[u].id # 0
                 /\ rpc'[u].outcome = "answer" => rpc'[u].got = rpc'[u].serial
                 /\ rpc'[u].phase \in {"closing", "opening"} => rpc'[u].outcome # "answer"
        <4>1. /\ rpc'[t].id = 0 \/ rpc'[t].id = rpc[t].id
              /\ rpc'[t].serial = rpc[t].serial \/ (rpc'[t].id = 0 /\ rpc'[t].serial = 0)
              /\ rpc'[t].phase \in {"receive", "parked", "posting"} => rpc'[t].id # 0
              /\ rpc'[t].outcome = "answer" => rpc'[t].got = rpc'[t].serial
              /\ rpc'[t].phase \in {"closing", "opening"} => rpc'[t].outcome # "answer"
          BY <1>2, <1>3, <2>2
        <4>2. \A u \in Tasks \ {t} : rpc'[u] = rpc[u]
          BY <2>2
        <4> QED BY <4>1, <4>2
      <3>2. lastId <= lastId'
        BY <1>1 DEF Client!TypeOK, ClientParameters
      <3> QED BY <1>1, <2>5, <3>1, <3>2, ClientPairsKept
    <2>7. \A u \in Tasks : Client!UnderWay(u)' => u # t /\ Client!UnderWay(u)
      BY <2>2 DEF Client!UnderWay
    <2>8. ~mixed' => \A u \in Tasks : ~Client!UnderWay(u)'
      BY <1>1, <2>7 DEF ClientAlone
    <2>9. ClientAlone'
      BY <2>8 DEF ClientAlone, ClientStream
    <2> QED BY <2>5, <2>6, <2>9 DEF ClientInv
  <1>4. CASE m.id # rpc[t].id
    <2>1. rpc' = [rpc EXCEPT ![t].phase = "receive"] /\ wire' = wire
      BY <1>4 DEF Client!Consider
    <2>2. \A n \in ClientNear : n.serial = rpc[t].serial =>
                                    \E k \in ClientNear' : k.serial = rpc[t].serial
      BY <1>2, <1>4
    <2>3. ClientBox'
      BY <2>1 DEF ClientBox
    <2> QED BY <2>1, <2>2, <2>3, ClientGoesOn
  <1> QED BY <1>3, <1>4

\* The server and the listener: no request changes.
LEMMA ClientServed ==
    ASSUME ClientParameters, ClientInv, ClientBox', ClientStream',
           UNCHANGED <<kind, lastId, serial, rpc, mixed>>,
           ClientSent' \subseteq ClientSent \union {Client!Notice},
           Client!Reachable' => Client!Reachable /\ ClientNear \subseteq ClientNear'
    PROVE  ClientInv'
  <1>1. Client!TypeOK /\ ClientPairs /\ ClientAlone /\ lastId \in Nat
    BY ClientTypes DEF ClientInv, ClientParameters
  <1>2. Client!TypeOK'
    BY <1>1, ClientTyped
  <1>3. ClientPairs'
    BY <1>1, <1>2, ClientPairsKept
  <1>4. \A t \in Tasks : Client!UnderWay(t)' <=> Client!UnderWay(t)
    BY DEF Client!UnderWay
  <1>5. ClientAlone'
    BY <1>1, <1>4 DEF ClientAlone, ClientStream
  <1> QED BY <1>2, <1>3, <1>5 DEF ClientInv

\* A request that is sent.
LEMMA ClientAsks ==
    ASSUME ClientParameters, ClientInv, NEW t \in Tasks, NEW for \in {"call", "initialize"},
           Client!Ask(t, for), pipe' = <<>> \/ pipe' = pipe, wire' \in ClientWires,
           UNCHANGED <<kind, notices, buffer, inbox, stream>>
    PROVE  ClientInv'
  <1>1. /\ Client!TypeOK /\ ClientPairs /\ ClientAlone /\ ClientBox
    BY ClientTyped DEF ClientInv
  <1>2. /\ rpc' \in [Tasks -> ClientCalls] /\ \A u \in Tasks \ {t} : rpc'[u] = rpc[u]
        /\ lastId' \in 0..MaxRequests /\ serial' \in 0..MaxRequests
        /\ rpc'[t].serial = serial'
        /\ asked' = asked \union {[id |-> lastId', serial |-> serial']}
        /\ asked' \subseteq Client!Messages /\ mixed' \in BOOLEAN
        /\ ~mixed' => ~mixed /\ \A u \in Tasks \ {t} : ~Client!UnderWay(u)
    BY <1>1, ClientAsk
  <1>3. ClientBox'
    <2>1. pipe' \in Seq(Client!Pieces)
      <3>1. pipe \in Seq(Client!Pieces) /\ <<>> \in Seq(Client!Pieces)
        BY <1>1 DEF ClientBox, ClientHolds
      <3> QED BY <3>1
    <2> QED BY <1>1, <1>2, <2>1 DEF ClientBox, ClientHolds
  <1>4. Client!TypeOK'
    BY <1>2, <1>3, ClientTyped
  <1>5. ClientPairs'
    BY <1>1, ClientPairsAsk
  <1>6. ~mixed' => \A u \in Tasks : Client!UnderWay(u)' => u = t
    BY <1>2 DEF Client!UnderWay
  <1>7. [id |-> lastId', serial |-> serial'] \in ClientNear'
    BY <1>2 DEF ClientNear
  <1>8. ClientAlone'
    BY <1>1, <1>2, <1>6, <1>7 DEF ClientAlone
  <1> QED BY <1>4, <1>5, <1>8 DEF ClientInv

LEMMA ClientStep ==
    ASSUME ClientParameters, ClientInv, [Client!Next]_Client!vars
    PROVE  ClientInv'
  <1>1. /\ Client!TypeOK /\ ClientPairs /\ ClientAlone /\ ClientBox /\ ClientStream
        /\ rpc \in [Tasks -> ClientCalls] /\ wire \in ClientWires /\ MaxRequests \in Nat
        /\ lastId \in 0..MaxRequests /\ serial \in 0..MaxRequests /\ notices \in 0..MaxNotices
        /\ asked \subseteq Client!Messages /\ lastId \in Nat
        /\ pipe \in Seq(Client!Pieces) /\ buffer \in Seq(Client!Pieces)
        /\ inbox \in Seq(Client!Messages) /\ stream \in Seq(Client!Messages)
    <2>1. Client!TypeOK /\ ClientPairs /\ ClientAlone /\ ClientBox
      BY ClientTyped DEF ClientInv
    <2>2. ClientStream
      BY <2>1 DEF ClientAlone, ClientStream
    <2> QED BY <2>1, <2>2, ClientTypes DEF ClientParameters
  <1>2. /\ Client!Idle \in ClientCalls /\ Client!Notice \in Client!Messages
        /\ Client!Notice.id = 0
    BY <1>1, ClientMessages
  \* Nothing on its way changes.
  <1>3. ASSUME UNCHANGED <<asked, pipe, buffer, inbox, stream>>
        PROVE  ClientSent' = ClientSent /\ ClientNear' = ClientNear /\ ClientStream'
    BY <1>1, <1>3 DEF ClientSent, ClientNear, ClientStream
  <1>4. ASSUME NEW t \in Tasks, NEW c \in ClientCalls, rpc' = [rpc EXCEPT ![t] = c],
               c.phase \in {"closing", "opening", "idle"}, c.outcome # "answer",
               c.id = 0, c.serial = 0,
               wire' \in ClientWires, Client!Reachable' => Client!Reachable,
               mixed' \in BOOLEAN, mixed => mixed', lastId <= lastId', lastId' \in 0..MaxRequests,
               UNCHANGED <<kind, serial, asked, notices, pipe, buffer, inbox, stream>>
        PROVE  ClientInv'
    <2>1. /\ rpc' \in [Tasks -> ClientCalls] /\ \A u \in Tasks \ {t} : rpc'[u] = rpc[u]
          /\ rpc'[t] = c
      BY <1>1, <1>4
    <2>2. ClientSent' = ClientSent /\ ClientNear' = ClientNear /\ ClientStream'
      BY <1>3, <1>4
    <2>3. ClientBox'
      BY <1>1, <1>4 DEF ClientBox, ClientHolds
    <2>4. UNCHANGED serial
      BY <1>4
    <2> QED BY <1>4, <2>1, <2>2, <2>3, <2>4, ClientEnds
  <1>5. ASSUME NEW t \in Tasks, NEW how \in {"failed", "timeout"},
               Client!Fail(t, how) \/ (Client!Finish(t, how, 0) /\ UNCHANGED wire),
               UNCHANGED <<kind, serial, asked, notices, pipe, buffer, inbox, stream, mixed>>,
               lastId <= lastId', lastId' \in 0..MaxRequests
        PROVE  ClientInv'
    <2>1. /\ rpc' \in [Tasks -> ClientCalls] /\ \A u \in Tasks \ {t} : rpc'[u] = rpc[u]
          /\ rpc'[t].phase \in {"idle", "closing"} /\ rpc'[t].id \in {0, rpc[t].id}
          /\ rpc'[t].serial = rpc[t].serial /\ rpc'[t].outcome = how
          /\ wire' \in ClientWires /\ (wire' = wire \/ ~wire'.open)
          /\ wire'.process = wire.process
      <3>1. CASE Client!Fail(t, how)
        BY <1>1, <3>1, ClientFail
      <3>2. CASE Client!Finish(t, how, 0) /\ UNCHANGED wire
        <4>1. how \in Client!Outcomes /\ 0 \in 0..MaxRequests
          BY <1>1 DEF Client!Outcomes
        <4> QED BY <1>1, <3>2, <4>1, ClientFinish
      <3> QED BY <1>5, <3>1, <3>2
    <2>2. ClientSent' = ClientSent /\ ClientNear' = ClientNear /\ ClientStream'
      BY <1>3, <1>5
    <2>3. ClientBox'
      BY <1>1, <1>5, <2>1 DEF ClientBox, ClientHolds
    <2>4. Client!Reachable' => Client!Reachable
      BY <1>5, <2>1 DEF Client!Reachable
    <2>5. UNCHANGED serial /\ (mixed => mixed')
      BY <1>5
    <2> QED BY <1>5, <2>1, <2>2, <2>3, <2>4, <2>5, ClientEnds
  <1>6. ASSUME NEW t \in Tasks, Client!Connect(t)
        PROVE  ClientInv'
    <2>1. CASE /\ kind = "stdio" /\ ~wire.open
               /\ rpc' = [rpc EXCEPT ![t] = [Client!Idle EXCEPT !.phase = "opening",
                                                                !.for = "initialize"]]
               /\ UNCHANGED <<wire, lastId, serial, asked, mixed>>
      <3>1. PICK c0 : c0 = [Client!Idle EXCEPT !.phase = "opening"]
        OBVIOUS
      <3>2. PICK c : c = [c0 EXCEPT !.for = "initialize"]
        OBVIOUS
      <3>3. c0 = [phase |-> "opening", for |-> "call", id |-> 0, serial |-> 0,
                  outcome |-> "none", got |-> 0]
        BY <3>1 DEF Client!Idle
      <3>4. c = [phase |-> "opening", for |-> "initialize", id |-> 0, serial |-> 0,
                 outcome |-> "none", got |-> 0]
        BY <3>2, <3>3
      <3>5. c \in ClientCalls
        BY <1>1, <3>4 DEF ClientCalls, Client!Phases, Client!Outcomes
      <3>6. rpc' = [rpc EXCEPT ![t] = c]
        BY <2>1, <3>1, <3>2, Zenon
      <3>7. UNCHANGED <<kind, wire, lastId, serial, asked, mixed, notices, pipe, buffer, inbox,
                        stream>>
        BY <1>6, <2>1 DEF Client!Connect
      <3>8. /\ wire' \in ClientWires /\ mixed' \in BOOLEAN /\ (mixed => mixed')
            /\ lastId <= lastId' /\ lastId' \in 0..MaxRequests
            /\ (Client!Reachable' => Client!Reachable)
        BY <1>1, <3>7 DEF ClientBox, ClientHolds, Client!Reachable
      <3> QED BY <1>4, <3>4, <3>5, <3>6, <3>7, <3>8
    <2>2. CASE /\ Client!OpenAtOnce \/ (kind = "stdio" /\ Client!Reachable /\ UNCHANGED wire)
               /\ Client!Ask(t, "initialize")
      <3>1. wire' \in ClientWires
        BY <1>1, <2>2 DEF Client!OpenAtOnce, ClientWires
      <3>2. pipe' = pipe /\ UNCHANGED <<kind, notices, buffer, inbox, stream>>
        BY <1>6 DEF Client!Connect
      <3> QED BY <2>2, <3>1, <3>2, ClientAsks
    <2> QED BY <1>6, <2>1, <2>2 DEF Client!Connect
  <1>7. ASSUME NEW t \in Tasks, Client!ConnectFails(t)
        PROVE  ClientInv'
    <2>1. PICK c0 : c0 = [Client!Idle EXCEPT !.phase = "closing"]
      OBVIOUS
    <2>2. PICK c1 : c1 = [c0 EXCEPT !.for = "initialize"]
      OBVIOUS
    <2>3. PICK c : c = [c1 EXCEPT !.outcome = "failed"]
      OBVIOUS
    <2>4. c0 = [phase |-> "closing", for |-> "call", id |-> 0, serial |-> 0,
                outcome |-> "none", got |-> 0]
      BY <2>1 DEF Client!Idle
    <2>5. c1 = [phase |-> "closing", for |-> "initialize", id |-> 0, serial |-> 0,
                outcome |-> "none", got |-> 0]
      BY <2>2, <2>4
    <2>6. c = [phase |-> "closing", for |-> "initialize", id |-> 0, serial |-> 0,
               outcome |-> "failed", got |-> 0]
      BY <2>3, <2>5
    <2>7. c \in ClientCalls
      BY <1>1, <2>6 DEF ClientCalls, Client!Phases, Client!Outcomes
    <2>8. rpc' = [rpc EXCEPT ![t] = c]
      BY <1>7, <2>1, <2>2, <2>3, Zenon DEF Client!ConnectFails
    <2>9. /\ lastId < MaxRequests /\ lastId' = lastId + 1 /\ wire' = [wire EXCEPT !.open = FALSE]
          /\ UNCHANGED <<kind, serial, asked, notices, pipe, buffer, inbox, stream, mixed>>
      BY <1>7 DEF Client!ConnectFails
    <2>10. /\ wire' \in ClientWires /\ mixed' \in BOOLEAN /\ (mixed => mixed')
           /\ lastId <= lastId' /\ lastId' \in 0..MaxRequests
           /\ (Client!Reachable' => Client!Reachable)
      <3>1. wire' \in ClientWires /\ ~wire'.open
        BY <1>1, <2>9 DEF ClientWires
      <3>2. lastId <= lastId' /\ lastId' \in 0..MaxRequests
        BY <1>1, <2>9
      <3> QED BY <1>1, <2>9, <3>1, <3>2 DEF ClientBox, ClientHolds, Client!Reachable
    <2> QED BY <1>4, <2>6, <2>7, <2>8, <2>9, <2>10
  <1>8. ASSUME NEW t \in Tasks, Client!Started(t)
        PROVE  ClientInv'
    <2>1. /\ Client!Ask(t, "initialize") /\ pipe' = <<>>
          /\ UNCHANGED <<kind, notices, buffer, inbox, stream>>
      BY <1>8 DEF Client!Started
    <2>2. PICK w : w = [wire EXCEPT !.open = TRUE]
      OBVIOUS
    <2>3. w \in ClientWires
      BY <1>1, <2>2 DEF ClientWires
    <2>4. wire' = [w EXCEPT !.process = "up"]
      BY <1>8, <2>2 DEF Client!Started
    <2>5. wire' \in ClientWires
      BY <2>3, <2>4 DEF ClientWires
    <2> QED BY <2>1, <2>5, ClientAsks
  <1>9. ASSUME NEW t \in Tasks, Client!Call(t)
        PROVE  ClientInv'
    <2>1. /\ Client!Ask(t, "call") /\ pipe' = pipe /\ wire' \in ClientWires
          /\ UNCHANGED <<kind, notices, buffer, inbox, stream>>
      BY <1>1, <1>9 DEF Client!Call
    <2> QED BY <2>1, ClientAsks
  <1>10. lastId <= lastId
    BY <1>1
  <1>11. ASSUME NEW t \in Tasks, Client!StartFails(t)
         PROVE  ClientInv'
    BY <1>1, <1>5, <1>10, <1>11 DEF Client!StartFails
  <1>12. ASSUME NEW t \in Tasks, Client!CallFails(t)
         PROVE  ClientInv'
    <2>1. lastId <= lastId' /\ lastId' \in 0..MaxRequests
      BY <1>1, <1>12 DEF Client!CallFails
    <2> QED BY <1>5, <1>12, <2>1 DEF Client!CallFails
  <1>13. ASSUME NEW t \in Tasks, Client!ReadFails(t)
         PROVE  ClientInv'
    BY <1>1, <1>5, <1>10, <1>13 DEF Client!ReadFails
  <1>14. ASSUME NEW t \in Tasks, Client!PostFails(t)
         PROVE  ClientInv'
    BY <1>1, <1>5, <1>10, <1>14 DEF Client!PostFails
  <1>15. ASSUME NEW t \in Tasks, Client!TimesOut(t)
         PROVE  ClientInv'
    BY <1>1, <1>5, <1>10, <1>15 DEF Client!TimesOut
  <1>16. ASSUME NEW t \in Tasks, Client!Cancelled(t)
         PROVE  ClientInv'
    BY <1>1, <1>5, <1>10, <1>16 DEF Client!Cancelled
  <1>17. ASSUME NEW t \in Tasks, Client!Park(t)
         PROVE  ClientInv'
    <2>1. CASE Client!Fail(t, "failed")
      BY <1>1, <1>5, <1>10, <1>17, <2>1 DEF Client!Park
    <2>2. CASE rpc' = [rpc EXCEPT ![t].phase = "parked"] /\ UNCHANGED wire
      <3>1. UNCHANGED <<kind, lastId, serial, asked, notices, pipe, buffer, inbox, stream, mixed>>
        BY <1>17 DEF Client!Park
      <3>2. ClientSent' = ClientSent /\ ClientNear' = ClientNear /\ ClientStream'
        BY <1>3, <3>1
      <3>3. ClientBox'
        BY <1>1, <2>2, <3>1 DEF ClientBox
      <3>4. Client!UnderWay(t)
        BY <1>17 DEF Client!Park, Client!UnderWay
      <3> QED BY <2>2, <3>1, <3>2, <3>3, <3>4, ClientGoesOn
    <2> QED BY <1>17, <2>1, <2>2 DEF Client!Park
  <1>18. ASSUME NEW t \in Tasks, Client!Disconnect(t)
         PROVE  ClientInv'
    <2>1. PICK c : c = [phase |-> "closing", for |-> "call", id |-> 0, serial |-> 0,
                        outcome |-> "none", got |-> 0]
      OBVIOUS
    <2>2. c \in ClientCalls
      BY <1>1, <2>1 DEF ClientCalls, Client!Phases, Client!Outcomes
    <2>3. rpc' = [rpc EXCEPT ![t] = c]
      <3>1. [Client!Idle EXCEPT !.phase = "closing"] = c
        BY <2>1 DEF Client!Idle
      <3> QED BY <1>18, <3>1, Zenon DEF Client!Disconnect
    <2>4. wire' \in ClientWires /\ ~wire'.open
      <3>1. PICK w : w = [wire EXCEPT !.ready = FALSE]
        OBVIOUS
      <3>2. w \in ClientWires
        BY <1>1, <3>1 DEF ClientWires
      <3>3. wire' = [w EXCEPT !.open = FALSE]
        BY <1>18, <3>1 DEF Client!Disconnect
      <3> QED BY <3>2, <3>3 DEF ClientWires
    <2>5. mixed' \in BOOLEAN /\ (mixed => mixed')
      BY <1>18, Zenon DEF Client!Disconnect
    <2>6. UNCHANGED <<kind, lastId, serial, asked, notices, pipe, buffer, inbox, stream>>
      BY <1>18 DEF Client!Disconnect
    <2> QED BY <1>1, <1>4, <1>10, <2>1, <2>2, <2>3, <2>4, <2>5, <2>6 DEF Client!Reachable
  <1>19. ASSUME NEW t \in Tasks, Client!Closed(t)
         PROVE  ClientInv'
    <2>1. rpc[t].phase = "closing" /\ rpc[t].outcome # "answer" /\ rpc[t].outcome \in Client!Outcomes
      BY <1>1, <1>19 DEF Client!Closed, ClientPairs, ClientCalls
    <2>2. /\ rpc' \in [Tasks -> ClientCalls] /\ \A u \in Tasks \ {t} : rpc'[u] = rpc[u]
          /\ rpc'[t].phase = "idle" /\ rpc'[t].id = 0 /\ rpc'[t].serial = rpc[t].serial
          /\ rpc'[t].outcome = rpc[t].outcome
      <3>1. Client!Finish(t, rpc[t].outcome, 0) /\ 0 \in 0..MaxRequests
        BY <1>1, <1>19 DEF Client!Closed
      <3> QED BY <1>1, <2>1, <3>1, ClientFinish
    <2>3. UNCHANGED <<kind, lastId, serial, notices, buffer, inbox, stream, mixed>>
      BY <1>19 DEF Client!Closed
    <2>4. CASE Client!ProcessGone
      <3>1. wire' \in ClientWires /\ wire'.process = "none" /\ kind = "stdio"
        BY <1>1, <2>4 DEF Client!ProcessGone, ClientWires
      <3>2. asked' = {} /\ pipe' = <<>>
        BY <2>4 DEF Client!ProcessGone
      <3>3. ClientSent' \subseteq ClientSent /\ ClientStream'
        BY <1>1, <2>3, <3>2 DEF ClientSent, ClientStream
      <3>4. ClientBox'
        BY <1>1, <2>3, <3>1, <3>2 DEF ClientBox, ClientHolds
      <3>5. ~Client!Reachable'
        BY <2>3, <3>1 DEF Client!Reachable
      <3> QED BY <1>10, <2>1, <2>2, <2>3, <3>3, <3>4, <3>5, ClientEnds
    <2>5. CASE Client!ClientGone
      <3>1. UNCHANGED <<wire, asked, pipe>>
        BY <2>5 DEF Client!ClientGone
      <3>2. ClientSent' = ClientSent /\ ClientNear' = ClientNear /\ ClientStream'
        BY <1>3, <2>3, <3>1
      <3>3. ClientBox' /\ (Client!Reachable' => Client!Reachable)
        BY <1>1, <2>3, <3>1 DEF ClientBox, Client!Reachable
      <3> QED BY <1>10, <2>1, <2>2, <2>3, <3>2, <3>3, ClientEnds
    <2> QED BY <1>19, <2>4, <2>5 DEF Client!Closed
  <1>20. ASSUME NEW t \in Tasks, Client!ReadLine(t)
         PROVE  ClientInv'
    <2>1. PICK e : e = Client!LineEnd
      OBVIOUS
    <2>2. /\ e \in 1..Len(buffer) /\ Len(buffer) \in Nat
          /\ buffer' = SubSeq(buffer, e + 1, Len(buffer))
          /\ \A j \in 1..e - 1 : ~buffer[j].end
          /\ UNCHANGED <<kind, lastId, serial, asked, notices, pipe, inbox, stream, mixed>>
          /\ Client!UnderWay(t)
      <3>1. /\ e # 0 /\ UNCHANGED <<kind, lastId, serial, asked, notices, pipe, inbox, stream, mixed>>
            /\ buffer' = SubSeq(buffer, e + 1, Len(buffer)) /\ rpc[t].phase = "receive"
        BY <1>20, <2>1, Zenon DEF Client!ReadLine
      <3>2. e \in 0..Len(buffer) /\ (e # 0 => \A j \in 1..e - 1 : ~buffer[j].end)
        BY <1>1, <2>1, ClientLine
      <3>3. Len(buffer) \in Nat
        BY <1>1
      <3>4. e \in 1..Len(buffer)
        BY <3>1, <3>2, <3>3
      <3> QED BY <3>1, <3>2, <3>3, <3>4 DEF Client!UnderWay
    <2>3. /\ buffer' \in Seq(Client!Pieces) /\ Len(buffer') = Len(buffer) - e
          /\ \A i \in 1..Len(buffer) - e : buffer'[i] = buffer[e + i]
      <3>1. e \in 0..Len(buffer)
        BY <2>2
      <3> QED BY <1>1, <2>2, <3>1, Halves
    <2>4. /\ ClientHolds(kind', lastId', notices', asked', wire, pipe', buffer', inbox', stream', mixed')
          /\ ClientStream'
      BY <1>1, <2>2, <2>3 DEF ClientBox, ClientHolds, ClientStream
    <2>5. ClientSent' \subseteq ClientSent
      <3>1. \A i \in 1..Len(buffer) - e : e + i \in 1..Len(buffer)
        BY <2>2
      <3>2. {buffer'[i].msg : i \in 1..Len(buffer')} \subseteq {buffer[i].msg : i \in 1..Len(buffer)}
        BY <2>3, <3>1
      <3> QED BY <2>2, <3>2 DEF ClientSent
    <2>6. CASE e = 2 /\ buffer[1].msg = buffer[2].msg
      <3>1. PICK m : m = buffer[1].msg
        OBVIOUS
      <3>2. Client!Consider(t, m)
        BY <1>20, <2>1, <2>6, <3>1, Zenon DEF Client!ReadLine
      <3>3. m \in ClientSent
        BY <2>2, <2>6, <3>1 DEF ClientSent
      <3>4. ClientNear \ {m} \subseteq ClientNear'
        <4>1. \A j \in 1..Len(buffer) : buffer[j].end /\ buffer[j].msg # m =>
                 j - 2 \in 1..Len(buffer') /\ buffer'[j - 2] = buffer[j]
          <5>1. ASSUME NEW j \in 1..Len(buffer), buffer[j].end, buffer[j].msg # m
                PROVE  j - 2 \in 1..Len(buffer') /\ buffer'[j - 2] = buffer[j]
            <6>1. j # 1 /\ j # 2
              BY <2>2, <2>6, <3>1, <5>1
            <6>2. j - 2 \in 1..Len(buffer) - e /\ e + (j - 2) = j
              BY <2>2, <2>6, <6>1
            <6>3. buffer'[j - 2] = buffer[e + (j - 2)]
              BY <2>3, <6>2
            <6> QED BY <2>3, <6>2, <6>3
          <5> QED BY <5>1
        <4>2. \A n \in {buffer[i].msg : i \in {j \in 1..Len(buffer) : buffer[j].end}} \ {m} :
                 n \in {buffer'[i].msg : i \in {j \in 1..Len(buffer') : buffer'[j].end}}
          BY <4>1
        <4> QED BY <2>2, <4>2 DEF ClientNear
      <3> QED BY <2>2, <2>4, <2>5, <3>2, <3>3, <3>4, ClientConsiders
    <2>7. CASE ~(e = 2 /\ buffer[1].msg = buffer[2].msg)
      <3>1. Client!Fail(t, "failed")
        BY <1>20, <2>1, <2>7, Zenon DEF Client!ReadLine
      <3>2. /\ rpc' \in [Tasks -> ClientCalls] /\ \A u \in Tasks \ {t} : rpc'[u] = rpc[u]
            /\ rpc'[t].phase \in {"idle", "closing"} /\ rpc'[t].id \in {0, rpc[t].id}
            /\ rpc'[t].serial = rpc[t].serial /\ rpc'[t].outcome = "failed"
            /\ wire' \in ClientWires
        BY <1>1, <3>1, ClientFail
      <3>3. ClientBox'
        BY <2>4, <3>2 DEF ClientBox, ClientHolds
      <3> QED BY <1>10, <2>2, <2>4, <2>5, <3>2, <3>3, ClientEnds
    <2> QED BY <2>6, <2>7
  <1>21. ASSUME NEW t \in Tasks, Client!ReadChunk(t)
         PROVE  ClientInv'
    <2>1. /\ rpc' = [rpc EXCEPT ![t].phase = "receive"] /\ Client!UnderWay(t)
          /\ UNCHANGED <<kind, wire, lastId, serial, asked, notices, inbox, stream, mixed>>
      BY <1>21 DEF Client!ReadChunk, Client!UnderWay
    <2>2. PICK n \in 1..Len(pipe) : /\ buffer' = buffer \o SubSeq(pipe, 1, n)
                                    /\ pipe' = SubSeq(pipe, n + 1, Len(pipe))
      BY <1>21, Zenon DEF Client!ReadChunk
    <2>3. PICK head : head = SubSeq(pipe, 1, n)
      OBVIOUS
    <2>4. Len(pipe) \in Nat /\ Len(buffer) \in Nat /\ n \in 0..Len(pipe)
      BY <1>1
    <2>5. /\ head \in Seq(Client!Pieces) /\ Len(head) = n
          /\ \A i \in 1..n : head[i] = pipe[i]
          /\ pipe' \in Seq(Client!Pieces) /\ Len(pipe') = Len(pipe) - n
          /\ \A i \in 1..Len(pipe) - n : pipe'[i] = pipe[n + i]
      BY <1>1, <2>2, <2>3, <2>4, Halves
    <2>6. /\ buffer' \in Seq(Client!Pieces) /\ Len(buffer') = Len(buffer) + n
          /\ \A i \in 1..Len(buffer) : buffer'[i] = buffer[i]
          /\ \A i \in 1..n : buffer'[Len(buffer) + i] = head[i]
          /\ \A i \in 1..Len(buffer) + n : i \in 1..Len(buffer) \/ i - Len(buffer) \in 1..n
      BY <1>1, <2>2, <2>3, <2>5, Joined
    <2>7. ClientSent' \subseteq ClientSent \union {Client!Notice}
      <3>1. \A i \in 1..Len(buffer') : \/ i \in 1..Len(buffer) /\ buffer'[i] = buffer[i]
                                       \/ i - Len(buffer) \in 1..Len(pipe)
                                          /\ buffer'[i] = pipe[i - Len(buffer)]
        <4>1. ASSUME NEW i \in 1..Len(buffer'), i - Len(buffer) \in 1..n
              PROVE  i - Len(buffer) \in 1..Len(pipe) /\ buffer'[i] = pipe[i - Len(buffer)]
          <5>1. i = Len(buffer) + (i - Len(buffer))
            BY <2>4, <4>1
          <5> QED BY <2>4, <2>5, <2>6, <4>1, <5>1
        <4> QED BY <2>6, <4>1
      <3>2. {buffer'[i].msg : i \in 1..Len(buffer')} \subseteq
               {buffer[i].msg : i \in 1..Len(buffer)} \union {pipe[i].msg : i \in 1..Len(pipe)}
        BY <3>1
      <3>3. \A i \in 1..Len(pipe') : n + i \in 1..Len(pipe) /\ pipe'[i] = pipe[n + i]
        BY <2>4, <2>5
      <3>4. {pipe'[i].msg : i \in 1..Len(pipe')} \subseteq {pipe[i].msg : i \in 1..Len(pipe)}
        BY <3>3
      <3> QED BY <2>1, <3>2, <3>4 DEF ClientSent
    <2>8. ClientNear \subseteq ClientNear'
      <3>1. \A i \in 1..Len(buffer) : i \in 1..Len(buffer') /\ buffer'[i] = buffer[i]
        BY <2>4, <2>6
      <3>2. {buffer[i].msg : i \in {j \in 1..Len(buffer) : buffer[j].end}} \subseteq
               {buffer'[i].msg : i \in {j \in 1..Len(buffer') : buffer'[j].end}}
        BY <3>1
      <3>3. \A i \in 1..Len(pipe) :
               \/ i - n \in 1..Len(pipe') /\ pipe'[i - n] = pipe[i]
               \/ Len(buffer) + i \in 1..Len(buffer') /\ buffer'[Len(buffer) + i] = pipe[i]
        <4>1. ASSUME NEW i \in 1..Len(pipe), i <= n
              PROVE  Len(buffer) + i \in 1..Len(buffer') /\ buffer'[Len(buffer) + i] = pipe[i]
          <5>1. i \in 1..n /\ Len(buffer) + i \in 1..Len(buffer')
            BY <2>4, <2>6, <4>1
          <5> QED BY <2>5, <2>6, <5>1
        <4>2. ASSUME NEW i \in 1..Len(pipe), ~(i <= n)
              PROVE  i - n \in 1..Len(pipe') /\ pipe'[i - n] = pipe[i]
          <5>1. i - n \in 1..Len(pipe) - n /\ n + (i - n) = i
            BY <2>4, <4>2
          <5> QED BY <2>5, <5>1
        <4> QED BY <4>1, <4>2
      <3>4. {pipe[i].msg : i \in {j \in 1..Len(pipe) : pipe[j].end}} \subseteq
               {buffer'[i].msg : i \in {j \in 1..Len(buffer') : buffer'[j].end}}
               \union {pipe'[i].msg : i \in {j \in 1..Len(pipe') : pipe'[j].end}}
        BY <3>3
      <3> QED BY <2>1, <3>2, <3>4 DEF ClientNear
    <2>9. ClientBox' /\ ClientStream'
      BY <1>1, <2>1, <2>5, <2>6 DEF ClientBox, ClientHolds, ClientStream
    <2> QED BY <2>1, <2>7, <2>8, <2>9, ClientGoesOn
  <1>22. ASSUME NEW t \in Tasks, Client!PostReturns(t)
         PROVE  ClientInv'
    <2>1. /\ Client!UnderWay(t) /\ UNCHANGED <<kind, lastId, serial, pipe, buffer, mixed>>
          /\ IF wire.open THEN rpc' = [rpc EXCEPT ![t].phase = "receive"] /\ UNCHANGED wire
                          ELSE Client!Fail(t, "failed")
      BY <1>22 DEF Client!PostReturns, Client!UnderWay
    <2>2. PICK own : own = {m \in asked : m.serial = rpc[t].serial}
      OBVIOUS
    <2>3. \/ \E m \in own : inbox' = Append(inbox, m) /\ asked' = asked \ own
                            /\ UNCHANGED <<stream, notices>>
          \/ \E m \in own, n \in {k \in 0..1 : notices + k <= MaxNotices} :
                /\ stream' = [i \in 1..n |-> Client!Notice] \o <<m>> /\ asked' = asked \ own
                /\ notices' = notices + n
                /\ UNCHANGED inbox
          \/ UNCHANGED <<inbox, stream, asked, notices>>
      BY <1>22, <2>2, Zenon DEF Client!PostReturns
    <2> DEFINE Good == /\ ClientHolds(kind', lastId', notices', asked', wire, pipe', buffer', inbox',
                                      stream', mixed')
                       /\ ClientStream'
                       /\ ClientSent' \subseteq ClientSent \union {Client!Notice}
                       /\ \A m \in ClientNear : m.serial = rpc[t].serial =>
                             \E n \in ClientNear' : n.serial = rpc[t].serial
    <2>4. ASSUME \E m \in own : inbox' = Append(inbox, m) /\ asked' = asked \ own
                                /\ UNCHANGED <<stream, notices>>
          PROVE  Good
      <3>1. PICK m \in own : inbox' = Append(inbox, m) /\ asked' = asked \ own
                             /\ UNCHANGED <<stream, notices>>
        BY <2>4
      <3>2. m \in Client!Messages /\ m \in asked /\ m.serial = rpc[t].serial
        BY <1>1, <2>2
      <3>3. /\ inbox' \in Seq(Client!Messages)
            /\ {inbox'[i] : i \in 1..Len(inbox')} = {inbox[i] : i \in 1..Len(inbox)} \union {m}
        <4>1. inbox \in Seq(Client!Messages)
          BY <1>1
        <4>2. /\ Append(inbox, m) \in Seq(Client!Messages)
              /\ {Append(inbox, m)[i] : i \in 1..Len(Append(inbox, m))} =
                    {inbox[i] : i \in 1..Len(inbox)} \union {m}
          BY <3>2, <4>1, Added
        <4> QED BY <3>1, <4>2, Zenon
      <3>4. {inbox'[i] : i \in 1..Len(inbox')} \subseteq {inbox[i] : i \in 1..Len(inbox)} \union asked
        BY <3>2, <3>3
      <3>5. ClientSent' \subseteq ClientSent \union {Client!Notice}
        BY <2>1, <3>1, <3>4 DEF ClientSent
      <3>6. m \in ClientNear'
        BY <3>3 DEF ClientNear
      <3>7. asked' \subseteq Client!Messages
        BY <1>1, <3>1
      <3>8. /\ ClientHolds(kind', lastId', notices', asked', wire, pipe', buffer', inbox', stream', mixed')
            /\ ClientStream'
        BY <1>1, <2>1, <3>1, <3>3, <3>7 DEF ClientBox, ClientHolds, ClientStream
      <3> QED BY <3>2, <3>5, <3>6, <3>8
    <2>5. ASSUME \E m \in own, n \in {k \in 0..1 : notices + k <= MaxNotices} :
                    /\ stream' = [i \in 1..n |-> Client!Notice] \o <<m>> /\ asked' = asked \ own
                    /\ notices' = notices + n
                    /\ UNCHANGED inbox
          PROVE  Good
      <3>1. PICK m \in own, n \in {k \in 0..1 : notices + k <= MaxNotices} :
                  /\ stream' = [i \in 1..n |-> Client!Notice] \o <<m>> /\ asked' = asked \ own
                  /\ notices' = notices + n
                  /\ UNCHANGED inbox
        BY <2>5
      <3>2. m \in Client!Messages /\ m \in asked /\ m.serial = rpc[t].serial
        BY <1>1, <2>2
      <3>3. PICK r : r = [i \in 1..n |-> Client!Notice]
        OBVIOUS
      <3>4. r \in Seq(Client!Messages) /\ Len(r) = n /\ <<m>> \in Seq(Client!Messages)
            /\ Len(<<m>>) = 1 /\ <<m>>[1] = m /\ \A i \in 1..n : r[i] = Client!Notice
        BY <1>2, <3>2, <3>3
      <3>5. /\ stream' \in Seq(Client!Messages) /\ Len(stream') = n + 1
            /\ \A i \in 1..n : stream'[i] = Client!Notice
            /\ stream'[n + 1] = m
        <4>1. /\ r \o <<m>> \in Seq(Client!Messages) /\ Len(r \o <<m>>) = Len(r) + Len(<<m>>)
              /\ \A i \in 1..Len(r) : (r \o <<m>>)[i] = r[i]
              /\ \A i \in 1..Len(<<m>>) : (r \o <<m>>)[Len(r) + i] = <<m>>[i]
          BY <3>4, Joined
        <4>2. stream' = r \o <<m>>
          BY <3>1, <3>3, Zenon
        <4> QED BY <3>4, <4>1, <4>2
      <3>6. n \in Nat /\ \A i \in 1..Len(stream') : i \in 1..n \/ i = n + 1
        BY <3>5
      <3>7. {stream'[i] : i \in 1..Len(stream')} \subseteq asked \union {Client!Notice}
        BY <3>2, <3>5, <3>6
      <3>8. ClientSent' \subseteq ClientSent \union {Client!Notice}
        BY <2>1, <3>1, <3>7 DEF ClientSent
      <3>9. m \in ClientNear'
        <4>1. n + 1 \in 1..Len(stream')
          BY <3>5, <3>6
        <4> QED BY <3>5, <4>1 DEF ClientNear
      <3>10. asked' \subseteq Client!Messages /\ notices' \in 0..MaxNotices
        BY <1>1, <3>1
      <3>11. ClientStream'
        BY <3>5, <3>6 DEF ClientStream
      <3>12. ClientHolds(kind', lastId', notices', asked', wire, pipe', buffer', inbox', stream', mixed')
        BY <1>1, <2>1, <3>1, <3>5, <3>10 DEF ClientBox, ClientHolds
      <3> QED BY <3>2, <3>8, <3>9, <3>11, <3>12
    <2>6. ASSUME UNCHANGED <<inbox, stream, asked, notices>>
          PROVE  Good
      <3>1. ClientSent' = ClientSent /\ ClientNear' = ClientNear /\ ClientStream'
        BY <1>3, <2>1, <2>6
      <3>2. ClientHolds(kind', lastId', notices', asked', wire, pipe', buffer', inbox', stream', mixed')
        BY <1>1, <2>1, <2>6 DEF ClientBox, ClientHolds
      <3> QED BY <3>1, <3>2
    <2>7. Good
      BY <2>3, <2>4, <2>5, <2>6
    <2>8. CASE wire.open
      <3>1. rpc' = [rpc EXCEPT ![t].phase = "receive"] /\ UNCHANGED wire
        BY <2>1, <2>8
      <3>2. ClientBox'
        BY <2>7, <3>1 DEF ClientBox
      <3> QED BY <2>1, <2>7, <3>1, <3>2, ClientGoesOn
    <2>9. CASE ~wire.open
      <3>1. /\ rpc' \in [Tasks -> ClientCalls] /\ \A u \in Tasks \ {t} : rpc'[u] = rpc[u]
            /\ rpc'[t].phase \in {"idle", "closing"} /\ rpc'[t].id \in {0, rpc[t].id}
            /\ rpc'[t].serial = rpc[t].serial /\ rpc'[t].outcome = "failed"
            /\ wire' \in ClientWires
        BY <1>1, <2>1, <2>9, ClientFail
      <3>2. ClientBox'
        BY <2>7, <3>1 DEF ClientBox, ClientHolds
      <3> QED BY <1>10, <2>1, <2>7, <3>1, <3>2, ClientEnds
    <2> QED BY <2>8, <2>9
  <1>23. ASSUME NEW t \in Tasks, Client!Receive(t)
         PROVE  ClientInv'
    <2>1. /\ Client!UnderWay(t)
          /\ UNCHANGED <<kind, lastId, serial, asked, notices, pipe, buffer, mixed>>
      BY <1>23 DEF Client!Receive, Client!UnderWay
    <2>2. CASE /\ stream # <<>>
               /\ stream' = IF Head(stream) = Client!Notice THEN Tail(stream) ELSE <<>>
               /\ Client!Consider(t, Head(stream)) /\ UNCHANGED inbox
      <3>1. /\ Tail(stream) \in Seq(Client!Messages) /\ Len(Tail(stream)) = Len(stream) - 1
            /\ Len(stream) \in Nat \ {0} /\ Head(stream) = stream[1]
            /\ \A i \in 1..Len(stream) - 1 : Tail(stream)[i] = stream[i + 1]
            /\ {Tail(stream)[i] : i \in 1..Len(Tail(stream))} \subseteq
                  {stream[i] : i \in 1..Len(stream)}
            /\ {stream[i] : i \in 1..Len(stream)} \ {stream[1]} \subseteq
                  {Tail(stream)[i] : i \in 1..Len(Tail(stream))}
        BY <1>1, <2>2, Rest
      <3>2. stream' = Tail(stream)
        <4>1. CASE Head(stream) = Client!Notice
          BY <2>2, <4>1
        <4>2. CASE Head(stream) # Client!Notice
          <5>1. stream' = <<>>
            BY <2>2, <4>2
          <5>2. 1 \notin 1..Len(stream) - 1
            BY <1>1, <3>1, <4>2 DEF ClientStream
          <5>3. Len(Tail(stream)) = 0 /\ Tail(stream) \in Seq(Client!Messages)
            BY <3>1, <5>2
          <5>4. Tail(stream) = <<>>
            BY <5>3, EmptySeq
          <5> QED BY <5>1, <5>4
        <4> QED BY <4>1, <4>2
      <3>3. ClientStream'
        <4>1. ASSUME NEW i \in 1..Len(stream') - 1
              PROVE  stream'[i] = Client!Notice
          <5>1. i + 1 \in 1..Len(stream) - 1 /\ i \in 1..Len(stream) - 1
            BY <3>1, <3>2
          <5> QED BY <1>1, <3>1, <3>2, <5>1 DEF ClientStream
        <4> QED BY <4>1 DEF ClientStream
      <3>4. PICK m : m = stream[1]
        OBVIOUS
      <3>5. m \in ClientSent /\ Client!Consider(t, m)
        <4>1. 1 \in 1..Len(stream)
          BY <3>1
        <4>2. m \in ClientSent
          BY <3>4, <4>1 DEF ClientSent
        <4> QED BY <2>2, <3>1, <3>4, <4>2
      <3>6. {stream'[i] : i \in 1..Len(stream')} \subseteq {stream[i] : i \in 1..Len(stream)}
        BY <3>1, <3>2
      <3>7. {stream[i] : i \in 1..Len(stream)} \ {m} \subseteq {stream'[i] : i \in 1..Len(stream')}
        BY <3>1, <3>2, <3>4
      <3>8. ClientSent' \subseteq ClientSent /\ ClientNear \ {m} \subseteq ClientNear'
        BY <2>1, <2>2, <3>6, <3>7 DEF ClientSent, ClientNear
      <3>9. ClientHolds(kind', lastId', notices', asked', wire, pipe', buffer', inbox', stream', mixed')
        BY <1>1, <2>1, <2>2, <3>1, <3>2 DEF ClientBox, ClientHolds
      <3> QED BY <2>1, <3>3, <3>5, <3>8, <3>9, ClientConsiders
    <2>3. CASE /\ stream = <<>> /\ inbox # <<>>
               /\ inbox' = Tail(inbox) /\ Client!Consider(t, Head(inbox)) /\ UNCHANGED stream
      <3>1. /\ inbox' \in Seq(Client!Messages) /\ Len(inbox) \in Nat \ {0}
            /\ Head(inbox) = inbox[1]
            /\ {inbox'[i] : i \in 1..Len(inbox')} \subseteq {inbox[i] : i \in 1..Len(inbox)}
            /\ {inbox[i] : i \in 1..Len(inbox)} \ {inbox[1]} \subseteq
                  {inbox'[i] : i \in 1..Len(inbox')}
        <4>1. inbox \in Seq(Client!Messages) /\ inbox # <<>>
          BY <1>1, <2>3
        <4>2. /\ Tail(inbox) \in Seq(Client!Messages) /\ Len(inbox) \in Nat \ {0}
              /\ Head(inbox) = inbox[1]
              /\ {Tail(inbox)[i] : i \in 1..Len(Tail(inbox))} \subseteq
                    {inbox[i] : i \in 1..Len(inbox)}
              /\ {inbox[i] : i \in 1..Len(inbox)} \ {inbox[1]} \subseteq
                    {Tail(inbox)[i] : i \in 1..Len(Tail(inbox))}
          BY <4>1, Rest
        <4> QED BY <2>3, <4>2, Zenon
      <3>2. PICK m : m = inbox[1]
        OBVIOUS
      <3>3. m \in ClientSent /\ Client!Consider(t, m)
        <4>1. 1 \in 1..Len(inbox)
          BY <3>1
        <4>2. m \in ClientSent
          BY <3>2, <4>1 DEF ClientSent
        <4> QED BY <2>3, <3>1, <3>2, <4>2
      <3>4. {inbox'[i] : i \in 1..Len(inbox')} \subseteq {inbox[i] : i \in 1..Len(inbox)}
        BY <3>1
      <3>5. {inbox[i] : i \in 1..Len(inbox)} \ {m} \subseteq {inbox'[i] : i \in 1..Len(inbox')}
        BY <3>1, <3>2
      <3>6. ClientSent' \subseteq ClientSent /\ ClientNear \ {m} \subseteq ClientNear'
        BY <2>1, <2>3, <3>4, <3>5 DEF ClientSent, ClientNear
      <3>7. /\ ClientHolds(kind', lastId', notices', asked', wire, pipe', buffer', inbox', stream', mixed')
            /\ ClientStream'
        BY <1>1, <2>1, <2>3, <3>1 DEF ClientBox, ClientHolds, ClientStream
      <3> QED BY <2>1, <3>3, <3>6, <3>7, ClientConsiders
    <2> QED BY <1>23, <2>2, <2>3 DEF Client!Receive
  <1>24. ASSUME Client!ListenNotifications
         PROVE  ClientInv'
    <2>1. /\ notices < MaxNotices /\ notices' = notices + 1 /\ inbox' = Append(inbox, Client!Notice)
          /\ UNCHANGED <<kind, wire, lastId, serial, rpc, asked, pipe, buffer, stream, mixed>>
      BY <1>24 DEF Client!ListenNotifications
    <2>2. notices' \in 0..MaxNotices
      BY <1>1, <2>1 DEF ClientParameters
    <2>3. /\ inbox' \in Seq(Client!Messages)
          /\ {inbox'[i] : i \in 1..Len(inbox')} =
                {inbox[i] : i \in 1..Len(inbox)} \union {Client!Notice}
      <3>1. inbox \in Seq(Client!Messages)
        BY <1>1
      <3>2. /\ Append(inbox, Client!Notice) \in Seq(Client!Messages)
            /\ {Append(inbox, Client!Notice)[i] : i \in 1..Len(Append(inbox, Client!Notice))} =
                  {inbox[i] : i \in 1..Len(inbox)} \union {Client!Notice}
        BY <1>2, <3>1, Added
      <3> QED BY <2>1, <3>2, Zenon
    <2>6. /\ ClientSent' \subseteq ClientSent \union {Client!Notice}
          /\ Client!Reachable' => Client!Reachable /\ ClientNear \subseteq ClientNear'
      BY <2>1, <2>3 DEF ClientSent, ClientNear, Client!Reachable
    <2>7. ClientBox' /\ ClientStream'
      BY <1>1, <2>1, <2>2, <2>3 DEF ClientBox, ClientHolds, ClientStream
    <2> QED BY <2>1, <2>6, <2>7, ClientServed
  \* The server writes a line.
  <1>25. ASSUME NEW m \in Client!Messages, pipe' = pipe \o Client!Line(m),
                m \in asked \/ m = Client!Notice, asked' \in {asked, asked \ {m}},
                notices' \in 0..MaxNotices,
                UNCHANGED <<kind, wire, lastId, serial, rpc, buffer, inbox, stream, mixed>>
         PROVE  ClientInv'
    <2>1. PICK r : r = Client!Line(m)
      OBVIOUS
    <2>2. /\ r \in Seq(Client!Pieces) /\ Len(r) = 2 /\ r[1].msg = m /\ r[2].msg = m /\ r[2].end
      BY <2>1 DEF Client!Line, Client!Pieces
    <2>3. /\ pipe' \in Seq(Client!Pieces) /\ Len(pipe') = Len(pipe) + 2
          /\ \A i \in 1..Len(pipe) : pipe'[i] = pipe[i]
          /\ \A i \in 1..2 : pipe'[Len(pipe) + i] = r[i]
      <3>1. /\ pipe \o r \in Seq(Client!Pieces) /\ Len(pipe \o r) = Len(pipe) + Len(r)
            /\ \A i \in 1..Len(pipe) : (pipe \o r)[i] = pipe[i]
            /\ \A i \in 1..Len(r) : (pipe \o r)[Len(pipe) + i] = r[i]
        <4>1. pipe \in Seq(Client!Pieces) /\ r \in Seq(Client!Pieces)
          BY <1>1, <2>2
        <4> QED BY <4>1, Joined
      <3> QED BY <1>25, <2>1, <2>2, <3>1
    <2>4. Len(pipe) \in Nat
      BY <1>1
    <2>5. \A i \in 1..Len(pipe') : (i \in 1..Len(pipe) /\ pipe'[i] = pipe[i]) \/ pipe'[i].msg = m
      <3>1. ASSUME NEW i \in 1..Len(pipe'), i \notin 1..Len(pipe)
            PROVE  pipe'[i].msg = m
        <4>1. i = Len(pipe) + 1 \/ i = Len(pipe) + 2
          BY <2>3, <2>4, <3>1
        <4> QED BY <2>2, <2>3, <4>1
      <3> QED BY <2>3, <3>1
    <2>6. {pipe'[i].msg : i \in 1..Len(pipe')} \subseteq {pipe[i].msg : i \in 1..Len(pipe)} \union {m}
      BY <2>5
    <2>7. \A i \in 1..Len(pipe) : i \in 1..Len(pipe') /\ pipe'[i] = pipe[i]
      BY <2>3, <2>4
    <2>8. Len(pipe) + 2 \in 1..Len(pipe') /\ pipe'[Len(pipe) + 2].end /\ pipe'[Len(pipe) + 2].msg = m
      BY <2>2, <2>3, <2>4
    <2>9. {pipe[i].msg : i \in {j \in 1..Len(pipe) : pipe[j].end}} \union {m} \subseteq
             {pipe'[i].msg : i \in {j \in 1..Len(pipe') : pipe'[j].end}}
      BY <2>7, <2>8
    <2>10. asked' \subseteq asked /\ asked \subseteq asked' \union {m}
      BY <1>25
    <2>11. ClientSent' \subseteq ClientSent \union {Client!Notice}
      BY <1>25, <2>6, <2>10 DEF ClientSent
    <2>12. ClientNear \subseteq ClientNear' /\ (Client!Reachable' => Client!Reachable)
      BY <1>25, <2>9, <2>10 DEF ClientNear, Client!Reachable
    <2>13. ClientBox' /\ ClientStream'
      BY <1>1, <1>25, <2>3, <2>10 DEF ClientBox, ClientHolds, ClientStream
    <2> QED BY <1>25, <2>11, <2>12, <2>13, ClientServed
  <1>26. ASSUME Client!ServerAnswers
         PROVE  ClientInv'
    BY <1>1, <1>25, <1>26 DEF Client!ServerAnswers
  <1>27. ASSUME Client!ServerNotifies
         PROVE  ClientInv'
    <2>1. /\ notices' \in 0..MaxNotices /\ pipe' = pipe \o Client!Line(Client!Notice)
          /\ UNCHANGED <<kind, wire, lastId, serial, rpc, asked, buffer, inbox, stream, mixed>>
      BY <1>1, <1>27 DEF Client!ServerNotifies, ClientParameters
    <2> QED BY <1>2, <1>25, <2>1
  <1>28. ASSUME Client!ServerDies
         PROVE  ClientInv'
    <2>1. /\ wire' = [wire EXCEPT !.process = "down"] /\ asked' = {} /\ pipe' = <<>>
          /\ UNCHANGED <<kind, lastId, serial, rpc, notices, buffer, inbox, stream, mixed>>
          /\ kind = "stdio"
      BY <1>28 DEF Client!ServerDies
    <2>2. wire' \in ClientWires /\ wire'.process = "down"
      BY <1>1, <2>1 DEF ClientWires
    <2>3. ClientBox' /\ ClientStream'
      BY <1>1, <2>1, <2>2 DEF ClientBox, ClientHolds, ClientStream
    <2>4. ClientSent' \subseteq ClientSent \union {Client!Notice}
      BY <2>1 DEF ClientSent
    <2>5. ~Client!Reachable'
      BY <2>1, <2>2 DEF Client!Reachable
    <2> QED BY <2>1, <2>3, <2>4, <2>5, ClientServed
  \* A chunk that does not decode ends the request that read it.
  <1>30. ASSUME NEW t \in Tasks, Client!LoseChunk(t)
         PROVE  ClientInv'
    <2>1. /\ Client!UnderWay(t) /\ Client!Fail(t, "failed")
          /\ UNCHANGED <<kind, lastId, serial, asked, notices, buffer, inbox, stream, mixed>>
      BY <1>30 DEF Client!LoseChunk, Client!UnderWay
    <2>2. PICK n \in 1..Len(pipe), cut \in BOOLEAN :
             pipe' = (IF cut THEN <<[msg |-> pipe[n].msg, end |-> pipe[n].end, torn |-> TRUE]>>
                             ELSE <<>>)
                         \o SubSeq(pipe, n + 1, Len(pipe))
      BY <1>30, Zenon DEF Client!LoseChunk
    <2>3. PICK rest, left, torn :
             /\ rest = [msg |-> pipe[n].msg, end |-> pipe[n].end, torn |-> TRUE]
             /\ left = IF cut THEN <<rest>> ELSE <<>>
             /\ torn = SubSeq(pipe, n + 1, Len(pipe))
      OBVIOUS
    <2>4. Len(pipe) \in Nat /\ n \in 0..Len(pipe) /\ pipe[n] \in Client!Pieces
      BY <1>1
    <2>5. /\ torn \in Seq(Client!Pieces) /\ Len(torn) = Len(pipe) - n
          /\ \A i \in 1..Len(pipe) - n : torn[i] = pipe[n + i]
      BY <1>1, <2>3, <2>4, Halves
    <2>6. rest \in Client!Pieces /\ rest.msg = pipe[n].msg
      BY <2>3, <2>4 DEF Client!Pieces
    <2>7. /\ left \in Seq(Client!Pieces) /\ Len(left) \in Nat
          /\ \A i \in 1..Len(left) : left[i].msg = pipe[n].msg
      BY <2>3, <2>6
    <2>8. /\ pipe' \in Seq(Client!Pieces) /\ Len(pipe') = Len(left) + Len(torn)
          /\ \A i \in 1..Len(left) : pipe'[i] = left[i]
          /\ \A i \in 1..Len(torn) : pipe'[Len(left) + i] = torn[i]
          /\ \A i \in 1..Len(left) + Len(torn) : i \in 1..Len(left) \/ i - Len(left) \in 1..Len(torn)
      <3>1. pipe' = left \o torn
        BY <2>2, <2>3, Zenon
      <3>2. /\ left \o torn \in Seq(Client!Pieces) /\ Len(left \o torn) = Len(left) + Len(torn)
            /\ \A i \in 1..Len(left) : (left \o torn)[i] = left[i]
            /\ \A i \in 1..Len(torn) : (left \o torn)[Len(left) + i] = torn[i]
            /\ \A i \in 1..Len(left) + Len(torn) :
                  i \in 1..Len(left) \/ i - Len(left) \in 1..Len(torn)
        <4>1. left \in Seq(Client!Pieces) /\ torn \in Seq(Client!Pieces)
          BY <2>5, <2>7
        <4> QED BY ONLY <4>1, Joined
      <3> QED BY <3>1, <3>2, Zenon
    <2>9. \A i \in 1..Len(pipe') : \E j \in 1..Len(pipe) : pipe'[i].msg = pipe[j].msg
      <3>1. \A i \in 1..Len(left) : pipe'[i].msg = pipe[n].msg
        BY <2>7, <2>8
      <3>2. ASSUME NEW k \in 1..Len(torn)
            PROVE  n + k \in 1..Len(pipe) /\ pipe'[Len(left) + k] = pipe[n + k]
        <4>1. k \in 1..Len(pipe) - n
          BY <2>5
        <4>2. n + k \in 1..Len(pipe)
          BY <2>4, <4>1
        <4> QED BY <2>5, <2>8, <4>1, <4>2
      <3>3. ASSUME NEW i \in 1..Len(pipe'), i - Len(left) \in 1..Len(torn)
            PROVE  \E j \in 1..Len(pipe) : pipe'[i].msg = pipe[j].msg
        <4>1. Len(left) + (i - Len(left)) = i
          BY <2>5, <2>7, <2>8
        <4> QED BY <3>2, <3>3, <4>1
      <3> QED BY <2>8, <3>1, <3>3
    <2>10. ClientSent' \subseteq ClientSent /\ ClientStream'
      <3>1. {pipe'[i].msg : i \in 1..Len(pipe')} \subseteq {pipe[i].msg : i \in 1..Len(pipe)}
        BY <2>9
      <3> QED BY <1>1, <2>1, <3>1 DEF ClientSent, ClientStream
    <2>11. /\ rpc' \in [Tasks -> ClientCalls] /\ \A u \in Tasks \ {t} : rpc'[u] = rpc[u]
           /\ rpc'[t].phase \in {"idle", "closing"} /\ rpc'[t].id \in {0, rpc[t].id}
           /\ rpc'[t].serial = rpc[t].serial /\ rpc'[t].outcome = "failed"
           /\ wire' \in ClientWires
      BY <1>1, <2>1, ClientFail
    <2>12. ClientBox'
      BY <1>1, <2>1, <2>8, <2>11 DEF ClientBox, ClientHolds
    <2> QED BY <1>10, <2>1, <2>10, <2>11, <2>12, ClientEnds
  <1>29. CASE UNCHANGED Client!vars
    <2>1. UNCHANGED <<kind, wire, lastId, serial, rpc, asked, notices, pipe, buffer, inbox, stream,
                      mixed>>
      BY <1>29 DEF Client!vars
    <2>2. ClientSent' = ClientSent /\ ClientNear' = ClientNear /\ ClientStream'
      BY <1>3, <2>1
    <2>3. ClientBox' /\ (Client!Reachable' => Client!Reachable)
      BY <1>1, <2>1 DEF ClientBox, Client!Reachable
    <2> QED BY <2>1, <2>2, <2>3, ClientServed
  <1> QED BY <1>6, <1>7, <1>8, <1>9, <1>11, <1>12, <1>13, <1>14, <1>15, <1>16, <1>17, <1>18,
              <1>19, <1>20, <1>21, <1>22, <1>23, <1>24, <1>26, <1>27, <1>28, <1>29, <1>30
          DEF Client!Next

LEMMA ClientInit ==
    ASSUME ClientParameters, Client!Init
    PROVE  ClientInv
  <1>1. /\ kind \in {"stdio", "http"} /\ wire = [open |-> FALSE, ready |-> FALSE, process |-> "none"]
        /\ lastId = 0 /\ serial = 0 /\ notices = 0 /\ rpc = [t \in Tasks |-> Client!Idle]
        /\ asked = {} /\ mixed = FALSE
        /\ pipe = <<>> /\ buffer = <<>> /\ inbox = <<>> /\ stream = <<>>
    BY DEF Client!Init, ClientParameters
  <1>2. Client!Idle \in ClientCalls
    BY DEF Client!Idle, ClientCalls, Client!Phases, Client!Outcomes, ClientParameters
  <1>3. Client!TypeOK
    <2>1. wire \in ClientWires
      BY <1>1 DEF ClientWires
    <2>2. rpc \in [Tasks -> ClientCalls]
      BY <1>1, <1>2
    <2>3. 0 \in 0..MaxRequests /\ 0 \in 0..MaxNotices
      BY DEF ClientParameters
    <2>4. /\ pipe \in Seq(Client!Pieces) /\ buffer \in Seq(Client!Pieces)
          /\ inbox \in Seq(Client!Messages) /\ stream \in Seq(Client!Messages)
      BY <1>1
    <2> QED BY <1>1, <2>1, <2>2, <2>3, <2>4, ClientTypes
  <1>4. ClientSent = {}
    BY <1>1 DEF ClientSent
  <1>5. \A t \in Tasks : rpc[t].id = 0 /\ rpc[t].serial = 0 /\ rpc[t].phase = "idle"
                         /\ rpc[t].outcome = "none"
    BY <1>1 DEF Client!Idle
  <1>6. ClientPairs
    BY <1>1, <1>4, <1>5 DEF ClientPairs, Client!UnderWay
  <1>7. ClientAlone
    BY <1>1, <1>5 DEF ClientAlone, Client!UnderWay
  <1> QED BY <1>3, <1>6, <1>7 DEF ClientInv

LEMMA ClientKeeps ==
    ASSUME ClientParameters, ClientInv
    PROVE  Client!TypeOK /\ Client!OwnAnswer /\ Client!AnswerNotLost
  <1>1. Client!TypeOK /\ ClientPairs /\ ClientAlone
    BY DEF ClientInv
  <1>2. Client!OwnAnswer
    BY <1>1 DEF ClientPairs, Client!OwnAnswer
  <1>3. ASSUME ~mixed, Client!Reachable, NEW t \in Tasks, Client!UnderWay(t)
        PROVE  \/ \E m \in asked : m.serial = rpc[t].serial
               \/ \E i \in DOMAIN pipe : pipe[i].msg.serial = rpc[t].serial
               \/ \E i \in DOMAIN buffer : buffer[i].end /\ buffer[i].msg.serial = rpc[t].serial
               \/ \E i \in DOMAIN inbox : inbox[i].serial = rpc[t].serial
               \/ \E i \in DOMAIN stream : stream[i].serial = rpc[t].serial
    <2>1. PICK m \in ClientNear : m.serial = rpc[t].serial
      BY <1>1, <1>3 DEF ClientAlone
    <2>2. /\ pipe \in Seq(Client!Pieces) /\ buffer \in Seq(Client!Pieces)
          /\ inbox \in Seq(Client!Messages) /\ stream \in Seq(Client!Messages)
      BY <1>1 DEF Client!TypeOK
    <2>3. /\ DOMAIN pipe = 1..Len(pipe) /\ DOMAIN buffer = 1..Len(buffer)
          /\ DOMAIN inbox = 1..Len(inbox) /\ DOMAIN stream = 1..Len(stream)
      BY <2>2
    <2>4. \/ m \in asked
          \/ \E i \in 1..Len(pipe) : m = pipe[i].msg
          \/ \E i \in 1..Len(buffer) : buffer[i].end /\ m = buffer[i].msg
          \/ \E i \in 1..Len(inbox) : m = inbox[i]
          \/ \E i \in 1..Len(stream) : m = stream[i]
      BY <2>1 DEF ClientNear
    <2> QED BY <2>1, <2>3, <2>4
  <1>4. Client!AnswerNotLost
    BY <1>3 DEF Client!AnswerNotLost
  <1> QED BY <1>1, <1>2, <1>4

\* Every request returns the answer to itself, and while requests do not overlap the
\* answer to the one under way is never lost (MCPClient._request and the two transports),
\* for any number of tasks, requests and notifications.
THEOREM ClientAnswers ==
    ASSUME ClientParameters
    PROVE  Client!Spec => [](Client!TypeOK /\ Client!OwnAnswer /\ Client!AnswerNotLost)
  <1>1. Client!Init => ClientInv
    BY ClientInit
  <1>2. ClientInv /\ [Client!Next]_Client!vars => ClientInv'
    BY ClientStep
  <1>3. ClientInv => Client!TypeOK /\ Client!OwnAnswer /\ Client!AnswerNotLost
    BY ClientKeeps
  <1> QED BY <1>1, <1>2, <1>3, PTL DEF Client!Spec

-----------------------------------------------------------------------------
(* A2aServer.                                                                *)

ServerParameters == TaskIds # {} /\ Outputs \subseteq SUBSET Server!Files

\* What was read of the stream decides what was yielded, and nothing is sent before
\* the subscriber has asked.
ServerStream ==
    /\ sse.sent \in {0, 2, 4} /\ sse.read \in 0..sse.sent /\ sse.yielded = sse.read \div 2
    /\ Subscriber \in Requests /\ request[Subscriber].phase = "free" => sse.sent = 0

\* An answer names files that its run left; before it there is neither.
ServerAnswers == \A r \in Requests :
    /\ request[r].phase # "answered" => outputs[r] = {} /\ answer[r].parts = {}
    /\ \A p \in answer[r].parts : p[1] = "uri" => p[2] \in Server!Linked(outputs[r])

ServerInv == Server!TypeOK /\ ServerStream /\ ServerAnswers /\ Server!OwnArtifact

-----------------------------------------------------------------------------

LEMMA ServerInit == ASSUME ServerParameters, Server!Init PROVE ServerInv
  <1> USE DEF Server!Init
  <1>1. (CHOOSE t \in TaskIds : TRUE) \in TaskIds
    BY DEF ServerParameters
  <1>2. \A r \in Requests : request[r].phase = "free" /\ answer[r].parts = {} /\ outputs[r] = {}
    BY DEF Server!NoAnswer
  <1>3. request \in [Requests -> [phase : {"free", "running", "answered"}, id : TaskIds,
                                  parts : Inputs \union {{}}]]
    BY <1>1
  <1>4. answer \in [Requests -> [state : Server!States \union {"none"},
                                 parts : SUBSET ({"text", "inline", "uri"} \X Server!Files)]]
    BY DEF Server!NoAnswer
  <1>5. sse = [sent |-> 0, read |-> 0, yielded |-> 0]
    BY DEF Server!NoStream
  <1>6. Server!TypeOK
    <2>1. tasks \in [TaskIds -> Server!States \union {"none"}]
      OBVIOUS
    <2>2. served \in [TaskIds \X {"x", "y"} -> [by : Requests \union {"none"}, dir : {0, 1, 2}]]
      OBVIOUS
    <2>3. outputs \in [Requests -> Outputs \union {{}}]
      OBVIOUS
    <2>4. sse \in [sent : 0..4, read : 0..4, yielded : 0..2] /\ serving \in BOOLEAN
      BY <1>5
    <2> QED BY <1>3, <1>4, <2>1, <2>2, <2>3, <2>4 DEF Server!TypeOK
  <1>7. ServerStream
    BY <1>5 DEF ServerStream
  <1>8. ServerAnswers
    BY <1>2 DEF ServerAnswers
  <1>9. Server!OwnArtifact
    BY <1>2 DEF Server!OwnArtifact
  <1> QED BY <1>6, <1>7, <1>8, <1>9 DEF ServerInv

\* What a run that ends copies: at its own places the files it links, nothing elsewhere.
LEMMA ServerCopies ==
    ASSUME Server!TypeOK, NEW r \in Requests, NEW t \in TaskIds, NEW produced, produced \subseteq Server!Files
    PROVE  LET s == Server!Copies(r, t, produced)
           IN  /\ s \in [TaskIds \X {"x", "y"} -> [by : Requests \union {"none"}, dir : {0, 1, 2}]]
               /\ \A k \in TaskIds \X {"x", "y"} :
                     /\ (\A f \in Server!Linked(produced) : <<t, f.name>> # k) => s[k] = served[k]
                     /\ \A f \in Server!Linked(produced) :
                           /\ <<t, f.name>> = k
                           /\ \A g \in Server!Linked(produced) : g.name = f.name => g = f
                           => s[k] = [by |-> r, dir |-> f.dir]
  <1> DEFINE K == TaskIds \X {"x", "y"}
             Here(k) == {f \in Server!Linked(produced) : <<t, f.name>> = k}
             Latest(k) == CHOOSE f \in Here(k) : \A g \in Here(k) : g.dir <= f.dir
             s == Server!Copies(r, t, produced)
  <1>1. served \in [K -> [by : Requests \union {"none"}, dir : {0, 1, 2}]]
    BY DEF Server!TypeOK
  <1>2. s = [k \in K |-> IF Here(k) = {} THEN served[k] ELSE [by |-> r, dir |-> Latest(k).dir]]
    BY <1>1, Zenon DEF Server!Copies, Server!Place
  <1>3. Server!Linked(produced) \subseteq produced
    BY DEF Server!Linked
  <1>4. ASSUME NEW k \in K, Here(k) # {} PROVE Latest(k) \in Here(k)
    <2>1. \A f \in Here(k) : f.dir \in {1, 2}
      BY <1>3 DEF Server!Files
    <2>2. \E f \in Here(k) : \A g \in Here(k) : g.dir <= f.dir
      <3>1. CASE \E f \in Here(k) : f.dir = 2
        <4>1. PICK f \in Here(k) : f.dir = 2
          BY <3>1
        <4>2. \A g \in Here(k) : g.dir <= f.dir
          BY <2>1, <4>1
        <4> QED BY <4>2
      <3>2. CASE ~\E f \in Here(k) : f.dir = 2
        <4>1. \A f \in Here(k) : f.dir = 1
          BY <2>1, <3>2
        <4>2. \A f, g \in Here(k) : g.dir <= f.dir
          BY <4>1
        <4> QED BY <1>4, <4>2
      <3> QED BY <3>1, <3>2
    <2> QED BY <2>2, Zenon
  <1>5. \A k \in K : Here(k) # {} => Latest(k).dir \in {0, 1, 2}
    BY <1>3, <1>4 DEF Server!Files
  <1>6. \A k \in K : (\A f \in Server!Linked(produced) : <<t, f.name>> # k) => Here(k) = {}
    OBVIOUS
  <1>7. ASSUME NEW k \in K, NEW f \in Server!Linked(produced), <<t, f.name>> = k,
               \A g \in Server!Linked(produced) : g.name = f.name => g = f
        PROVE  Here(k) # {} /\ Latest(k) = f
    <2>1. f \in Here(k)
      BY <1>7
    <2>2. \A g \in Here(k) : g = f
      BY <1>7
    <2> QED BY <1>4, <2>1, <2>2
  <1> HIDE DEF Here, Latest
  <1>8. s \in [K -> [by : Requests \union {"none"}, dir : {0, 1, 2}]]
    <2>1. \A k \in K : s[k] \in [by : Requests \union {"none"}, dir : {0, 1, 2}]
      <3> SUFFICES ASSUME NEW k \in K PROVE s[k] \in [by : Requests \union {"none"}, dir : {0, 1, 2}]
        OBVIOUS
      <3>1. CASE Here(k) = {}
        BY <1>1, <1>2, <3>1
      <3>2. CASE Here(k) # {}
        BY <1>2, <1>5, <3>2
      <3> QED BY <3>1, <3>2
    <2> QED BY <1>2, <2>1
  <1>9. \A k \in K : (\A f \in Server!Linked(produced) : <<t, f.name>> # k) => s[k] = served[k]
    BY <1>2, <1>6
  <1>10. \A k \in K, f \in Server!Linked(produced) :
            <<t, f.name>> = k /\ (\A g \in Server!Linked(produced) : g.name = f.name => g = f)
            => s[k] = [by |-> r, dir |-> f.dir]
    BY <1>2, <1>7
  <1> HIDE DEF s
  <1> QED BY <1>8, <1>9, <1>10, Zenon DEF s

\* A request is sent to the server.
LEMMA ServerRun ==
    ASSUME ServerParameters, ServerInv, NEW r \in Requests, NEW t \in TaskIds, Server!Run(r, t)
    PROVE  ServerInv'
  <1> USE DEF ServerInv
  <1>1. PICK parts \in Inputs : request' = [request EXCEPT ![r] = Server!Asked(t, parts)]
    BY DEF Server!Run
  <1>2. /\ request[r].phase = "free"
        /\ serving' = serving /\ answer' = answer /\ tasks' = tasks /\ served' = served
        /\ outputs' = outputs
    BY DEF Server!Run
  <1>3. /\ request'[r] = [phase |-> "running", id |-> t, parts |-> parts]
        /\ \A q \in Requests \ {r} : request'[q] = request[q]
        /\ request' \in [Requests -> [phase : {"free", "running", "answered"}, id : TaskIds,
                                      parts : Inputs \union {{}}]]
    BY <1>1 DEF Server!TypeOK, Server!Asked
  <1>4. /\ r # Subscriber => sse' = sse
        /\ r = Subscriber => sse' = [sent |-> 2, read |-> sse.read, yielded |-> sse.yielded]
    BY DEF Server!Run, Server!TypeOK
  <1>5. ServerStream' /\ sse' \in [sent : 0..4, read : 0..4, yielded : 0..2]
    <2>1. CASE r # Subscriber
      <3>1. request'[Subscriber].phase = "free" /\ Subscriber \in Requests => sse.sent = 0
        BY <1>3, <2>1 DEF ServerStream
      <3> QED BY <1>4, <2>1, <3>1 DEF ServerStream, Server!TypeOK
    <2>2. CASE r = Subscriber
      <3>1. sse.sent = 0 /\ sse.read = 0 /\ sse.yielded = 0
        BY <1>2, <2>2 DEF ServerStream
      <3>2. sse' = [sent |-> 2, read |-> 0, yielded |-> 0]
        BY <1>4, <2>2, <3>1
      <3>3. request'[Subscriber].phase # "free"
        BY <1>3, <2>2
      <3> QED BY <3>2, <3>3 DEF ServerStream
    <2> QED BY <2>1, <2>2
  <1>6. Server!TypeOK'
    BY <1>2, <1>3, <1>5 DEF Server!TypeOK
  <1>7. ServerAnswers'
    <2>1. \A all : Server!Linked(all)' = Server!Linked(all)
      BY <1>2 DEF Server!Linked
    <2> SUFFICES ASSUME NEW q \in Requests
                 PROVE  /\ request'[q].phase # "answered" => outputs'[q] = {} /\ answer'[q].parts = {}
                        /\ \A p \in answer'[q].parts : p[1] = "uri" => p[2] \in Server!Linked(outputs[q])
      BY <1>2, <2>1 DEF ServerAnswers, Server!Linked
    <2> QED BY <1>2, <1>3 DEF ServerAnswers
  <1>8. Server!OwnArtifact'
    <2> SUFFICES ASSUME NEW q \in Requests, NEW p \in answer[q].parts, p[1] = "uri",
                        Server!Cardinality({g \in outputs[q] : g.name = p[2].name /\ g.size = "big"}) = 1,
                        \A o \in Requests \ {q} : request'[o].id # request'[q].id \/ outputs[o] = {}
                 PROVE  served[<<request'[q].id, p[2].name>>] = [by |-> q, dir |-> p[2].dir]
      BY <1>2, Zenon DEF Server!OwnArtifact, Server!Place
    <2>1. outputs[r] = {} /\ answer[r].parts = {}
      BY <1>2 DEF ServerAnswers
    <2>2. q # r
      BY <2>1
    <2>3. request'[q] = request[q]
      BY <1>3, <2>2
    <2>4. \A o \in Requests \ {q} : request[o].id # request[q].id \/ outputs[o] = {}
      BY <1>3, <2>1, <2>3
    <2>5. served[<<request[q].id, p[2].name>>] = [by |-> q, dir |-> p[2].dir]
      BY <2>4, Zenon DEF Server!OwnArtifact, Server!Place
    <2> QED BY <2>3, <2>5
  <1> QED BY <1>5, <1>6, <1>7, <1>8

\* The agent has answered, or raised.
LEMMA ServerRunEnds ==
    ASSUME ServerParameters, ServerInv, NEW r \in Requests, Server!RunEnds(r)
    PROVE  ServerInv'
  <1> USE DEF ServerInv
  <1> DEFINE t == request[r].id
  <1>1. PICK state \in {"completed", "failed"}, produced \in Outputs \union {{}} :
            /\ tasks' = [tasks EXCEPT ![t] = state]
            /\ outputs' = [outputs EXCEPT ![r] = produced]
            /\ served' = Server!Copies(r, t, produced)
            /\ answer' = [answer EXCEPT ![r] =
                   [state |-> state, parts |-> ({"inline"} \X Server!Inline(produced))
                                               \union ({"uri"} \X Server!Linked(produced))]]
    BY DEF Server!RunEnds
  <1>2. /\ request[r].phase = "running" /\ serving' = serving
        /\ request' = [request EXCEPT ![r].phase = "answered", ![r].parts = {}]
    BY DEF Server!RunEnds
  <1>3. /\ request'[r] = [phase |-> "answered", id |-> t, parts |-> {}] /\ t \in TaskIds
        /\ \A q \in Requests \ {r} : request'[q] = request[q]
        /\ request' \in [Requests -> [phase : {"free", "running", "answered"}, id : TaskIds,
                                      parts : Inputs \union {{}}]]
    <2>1. request \in [Requests -> [phase : {"free", "running", "answered"}, id : TaskIds,
                                    parts : Inputs \union {{}}]]
      BY DEF Server!TypeOK
    <2>2. request'[r] = [phase |-> "answered", id |-> t, parts |-> {}] /\ t \in TaskIds
      BY <1>2, <2>1
    <2>3. \A q \in Requests \ {r} : request'[q] = request[q]
      BY <1>2, <2>1
    <2> QED BY <1>2, <2>1, <2>2, <2>3
  <1>4. produced \subseteq Server!Files
    BY DEF ServerParameters
  <1>5. /\ outputs'[r] = produced /\ \A q \in Requests \ {r} : outputs'[q] = outputs[q]
        /\ outputs' \in [Requests -> Outputs \union {{}}]
    BY <1>1 DEF Server!TypeOK
  <1> DEFINE parts == ({"inline"} \X Server!Inline(produced)) \union ({"uri"} \X Server!Linked(produced))
  <1>6. /\ answer'[r] = [state |-> state, parts |-> parts]
        /\ \A q \in Requests \ {r} : answer'[q] = answer[q]
        /\ answer' \in [Requests -> [state : Server!States \union {"none"},
                                     parts : SUBSET ({"text", "inline", "uri"} \X Server!Files)]]
    <2>1. Server!Inline(produced) \subseteq Server!Files /\ Server!Linked(produced) \subseteq Server!Files
      BY <1>4 DEF Server!Inline, Server!Linked
    <2>2. parts \in SUBSET ({"text", "inline", "uri"} \X Server!Files)
      BY <2>1
    <2>3. state \in Server!States \union {"none"}
      BY DEF Server!States
    <2> HIDE DEF parts
    <2> QED BY <1>1, <2>2, <2>3, Zenon DEF Server!TypeOK, parts
  <1>7. sse' = IF r = Subscriber THEN [sse EXCEPT !.sent = 4] ELSE sse
    BY DEF Server!RunEnds
  <1>8. ServerStream' /\ sse' \in [sent : 0..4, read : 0..4, yielded : 0..2]
    <2>1. sse \in [sent : 0..4, read : 0..4, yielded : 0..2]
      BY DEF Server!TypeOK
    <2>2. CASE r = Subscriber
      <3>1. sse' = [sent |-> 4, read |-> sse.read, yielded |-> sse.yielded]
        BY <1>7, <2>1, <2>2
      <3>2. request'[Subscriber].phase # "free"
        BY <1>3, <2>2
      <3> QED BY <2>1, <3>1, <3>2 DEF ServerStream
    <2>3. CASE r # Subscriber
      <3>1. request'[Subscriber].phase = "free" /\ Subscriber \in Requests => sse.sent = 0
        BY <1>3, <2>3 DEF ServerStream
      <3> QED BY <1>7, <2>1, <2>3, <3>1 DEF ServerStream
    <2> QED BY <2>2, <2>3
  <1>9. Server!TypeOK'
    <2>1. tasks' \in [TaskIds -> Server!States \union {"none"}]
      BY <1>1 DEF Server!TypeOK, Server!States
    <2>2. served' \in [TaskIds \X {"x", "y"} -> [by : Requests \union {"none"}, dir : {0, 1, 2}]]
      BY <1>1, <1>3, <1>4, ServerCopies
    <2> QED BY <1>2, <1>3, <1>5, <1>6, <1>8, <2>1, <2>2 DEF Server!TypeOK
  <1>10. ASSUME NEW p \in answer'[r].parts, p[1] = "uri" PROVE p[2] \in Server!Linked(produced)
    <2>1. p \in parts
      BY <1>6, <1>10
    <2> QED BY <1>10, <2>1
  <1>11. ServerAnswers'
    <2>1. \A all : Server!Linked(all)' = Server!Linked(all)
      BY <1>2 DEF Server!Linked
    <2> SUFFICES ASSUME NEW q \in Requests
                 PROVE  /\ request'[q].phase # "answered" => outputs'[q] = {} /\ answer'[q].parts = {}
                        /\ \A p \in answer'[q].parts : p[1] = "uri" => p[2] \in Server!Linked(outputs'[q])
      BY <1>2, <2>1 DEF ServerAnswers, Server!Linked
    <2>2. CASE q = r
      BY <1>3, <1>5, <1>10, <2>2
    <2>3. CASE q # r
      BY <1>3, <1>5, <1>6, <2>3 DEF ServerAnswers
    <2> QED BY <2>2, <2>3
  <1>12. Server!OwnArtifact'
    <2> SUFFICES ASSUME NEW q \in Requests, NEW p \in answer'[q].parts, p[1] = "uri",
                        Server!Cardinality({g \in outputs'[q] : g.name = p[2].name /\ g.size = "big"}) = 1,
                        \A o \in Requests \ {q} : request'[o].id # request'[q].id \/ outputs'[o] = {}
                 PROVE  served'[<<request'[q].id, p[2].name>>] = [by |-> q, dir |-> p[2].dir]
      BY Zenon DEF Server!OwnArtifact, Server!Place
    <2> DEFINE same == {g \in outputs'[q] : g.name = p[2].name /\ g.size = "big"}
               k == <<request'[q].id, p[2].name>>
    <2>1. answer'[q].parts \subseteq {"text", "inline", "uri"} \X Server!Files
      BY <1>9 DEF Server!TypeOK
    <2>2. request'[q].id \in TaskIds /\ p[2] \in Server!Files /\ k \in TaskIds \X {"x", "y"}
      BY <1>3, <2>1 DEF Server!Files
    <2>3. CASE q = r
      <3>1. p[2] \in Server!Linked(produced) /\ request'[q].id = t
        BY <1>3, <1>10, <2>3
      <3>2. \E g : same = {g}
        <4> DEFINE one == [dir |-> 1, name |-> p[2].name, size |-> "big"]
                   two == [dir |-> 2, name |-> p[2].name, size |-> "big"]
        <4>1. same \subseteq {one} \union {two}
          BY <1>4, <1>5, <2>3 DEF Server!Files
        <4>2. IsFiniteSet({one} \union {two})
          BY FS_Singleton, FS_Union
        <4>3. IsFiniteSet(same)
          BY <4>1, <4>2, FS_Subset
        <4> HIDE DEF same
        <4>4. Cardinality(same) = 1
          BY Zenon DEF Server!Cardinality, Cardinality, same
        <4> QED BY <4>3, <4>4, FS_Singleton
      <3>3. \A g \in Server!Linked(produced) : g \in same \/ g.name # p[2].name
        BY <1>5, <2>3 DEF Server!Linked
      <3>4. \A g \in Server!Linked(produced) : g.name = p[2].name => g = p[2]
        BY <3>1, <3>2, <3>3
      <3>5. served'[k] = [by |-> r, dir |-> p[2].dir]
        BY <1>1, <1>3, <1>4, <2>2, <3>1, <3>4, ServerCopies
      <3> QED BY <2>3, <3>5
    <2>4. CASE q # r
      <3>1. /\ request'[q] = request[q] /\ answer'[q] = answer[q] /\ outputs'[q] = outputs[q]
        BY <1>3, <1>5, <1>6, <2>4
      <3>2. outputs[r] = {}
        BY <1>2 DEF ServerAnswers
      <3>3. \A o \in Requests \ {q} : request[o].id # request[q].id \/ outputs[o] = {}
        BY <1>3, <1>5, <3>1, <3>2
      <3>4. served[k] = [by |-> q, dir |-> p[2].dir]
        <4>1. p \in answer[q].parts
          BY <3>1
        <4>2. Server!Cardinality({g \in outputs[q] : g.name = p[2].name /\ g.size = "big"}) = 1
          BY <3>1, Zenon
        <4>3. served[<<request[q].id, p[2].name>>] = [by |-> q, dir |-> p[2].dir]
          BY <3>3, <4>1, <4>2, Zenon DEF Server!OwnArtifact, Server!Place
        <4> QED BY <3>1, <4>3
      <3>5. \A f \in Server!Linked(produced) : <<t, f.name>> # k
        <4>1. request'[r].id # request'[q].id \/ produced = {}
          BY <1>5, <2>4
        <4>2. CASE produced = {}
          BY <4>2 DEF Server!Linked
        <4>3. CASE request'[r].id # request'[q].id
          BY <1>3, <4>3
        <4> QED BY <4>1, <4>2, <4>3
      <3>6. served'[k] = served[k]
        <4> HIDE DEF k, t
        <4> QED BY <1>1, <1>3, <1>4, <2>2, <3>5, ServerCopies
      <3> QED BY <3>4, <3>6
    <2> QED BY <2>3, <2>4
  <1> QED BY <1>8, <1>9, <1>11, <1>12

\* What leaves requests, answers and served files alone.
LEMMA ServerRest ==
    ASSUME ServerParameters, ServerInv,
           (\E t \in TaskIds : Server!Cancel(t)) \/ Server!Chunk \/ UNCHANGED Server!vars
    PROVE  ServerInv'
  <1> USE DEF ServerInv
  <1>1. /\ serving' = serving /\ request' = request /\ answer' = answer /\ served' = served
        /\ outputs' = outputs
    BY Zenon DEF Server!Cancel, Server!Chunk, Server!vars
  <1>2. tasks' \in [TaskIds -> Server!States \union {"none"}]
    <2>1. CASE \E t \in TaskIds : Server!Cancel(t)
      BY <2>1 DEF Server!Cancel, Server!TypeOK, Server!States
    <2>2. CASE tasks' = tasks
      BY <2>2 DEF Server!TypeOK
    <2> QED BY <2>1, <2>2, Zenon DEF Server!Chunk, Server!vars
  <1>3. /\ sse' \in [sent : 0..4, read : 0..4, yielded : 0..2] /\ sse'.sent = sse.sent
        /\ sse'.read \in 0..sse'.sent /\ sse'.yielded = sse'.read \div 2
    <2>1. sse \in [sent : 0..4, read : 0..4, yielded : 0..2]
      BY DEF Server!TypeOK
    <2>2. CASE Server!Chunk
      <3>1. PICK n \in sse.read + 1 .. sse.sent :
                sse' = [sse EXCEPT !.read = n, !.yielded = n \div 2]
        BY <2>2, Zenon DEF Server!Chunk
      <3>2. sse' = [sent |-> sse.sent, read |-> n, yielded |-> n \div 2]
        BY <2>1, <3>1
      <3>3. n \in 0..sse.sent /\ n \in 0..4 /\ n \div 2 \in 0..2
        BY <2>1, <3>1
      <3> QED BY <2>1, <3>2, <3>3
    <2>3. CASE sse' = sse
      BY <2>1, <2>3 DEF ServerStream
    <2> QED BY <2>2, <2>3, Zenon DEF Server!Cancel, Server!vars
  <1>4. Server!TypeOK'
    BY <1>1, <1>2, <1>3 DEF Server!TypeOK
  <1>5. ServerStream'
    BY <1>1, <1>3 DEF ServerStream
  <1>6. ServerAnswers' /\ Server!OwnArtifact'
    BY <1>1 DEF ServerAnswers, Server!OwnArtifact, Server!Linked, Server!Place
  <1> QED BY <1>4, <1>5, <1>6

LEMMA ServerStep == ASSUME ServerParameters, ServerInv, [Server!Next]_Server!vars PROVE ServerInv'
  BY ServerRun, ServerRunEnds, ServerRest DEF Server!Next

LEMMA ServerHolds ==
    ASSUME ServerInv
    PROVE  Server!TypeOK /\ Server!NothingLost /\ Server!OwnArtifact
  <1>1. ASSUME NEW parts
        PROVE  /\ Server!InputOf(parts).text # {} \/ Server!InputOf(parts).attachments # {}
               /\ parts \ {"text", "blank", "other"}
                    \subseteq Server!InputOf(parts).text \union Server!InputOf(parts).attachments
    <2> DEFINE said == {k \in parts : Server!Text(k)}
               seen == {k \in parts : Server!Attachment(k)}
    <2>1. /\ Server!InputOf(parts).text = IF said = {} /\ seen = {} THEN {"(No input)"} ELSE said
          /\ Server!InputOf(parts).attachments = seen
      BY Zenon DEF Server!InputOf
    <2>2. parts \ {"text", "blank", "other"} \subseteq said \union seen
      BY Zenon DEF Server!Text
    <2> HIDE DEF said, seen
    <2> QED BY <2>1, <2>2, Zenon
  <1>2. sse.read = 4 => sse.yielded = 2
    BY DEF ServerInv, ServerStream
  <1>3. Server!NothingLost
    BY <1>1, <1>2, Zenon DEF Server!NothingLost
  <1> QED BY <1>3 DEF ServerInv

\* Each part of a message reaches the run, a subscriber gets both events, and the
\* address of a big file serves that file, for any requests, tasks and files (a2a).
THEOREM ServerLosesNothing ==
    ASSUME ServerParameters
    PROVE  Server!Spec => [](Server!NothingLost /\ Server!OwnArtifact)
  <1>1. Server!Init => ServerInv
    BY ServerInit
  <1>2. ServerInv /\ [Server!Next]_Server!vars => ServerInv'
    BY ServerStep
  <1>3. ServerInv => Server!NothingLost /\ Server!OwnArtifact
    BY ServerHolds
  <1> QED BY <1>1, <1>2, <1>3, PTL DEF Server!Spec

-----------------------------------------------------------------------------
(* Console.                                                                  *)

TerminalQuestion == [options : 0..4, multi : BOOLEAN]

TerminalParameters ==
    /\ \A line \in Lines : /\ line.form \in {"blank", "quit", "plain", "slash"}
                           /\ line.split \in BOOLEAN
                           /\ line.picks \in Seq(Nat)
    /\ \A qs \in Questions : qs \in Seq(TerminalQuestion) /\ qs # <<>>
    /\ MaxLines \in Nat /\ MaxInbox \in Nat

TerminalOutcome ==
    [got : {"ignored", "quit", "text", "choice", "choices", "swallowed", "queued", "ok",
            "unsupported", "failed", "decided", "timeout", "control"},
     by : {"prompt", "question", "left"}]

\* Who waits at the terminal: the prompt and a question at most once each, and two
\* at most besides the prompt.
Waits(r, who) == \E i \in 1..Len(r) : r[i] = who
Queue(r) ==
    /\ r \in Seq({"prompt", "question", "left"})
    /\ \A i, j \in 1..Len(r) : r[i] = r[j] /\ r[i] # "left" => i = j
    /\ Len(r) <= IF Waits(r, "prompt") THEN 3 ELSE 2

TerminalTypes ==
    /\ typed \in 0..MaxLines /\ room \in 0..MaxInbox
    /\ sending.kind \in {"none", "message", "action", "control", "stopped"}
    /\ turn \in {"idle", "working", "asking", "approval"}
    /\ questions \in Seq(TerminalQuestion)
    /\ asking \in {"none", "r1"}
    /\ outcomes \in Seq(TerminalOutcome)

\* The client does not read while it sends, and a question waits only in a turn that
\* asks.
TerminalReaders ==
    /\ Queue(readers)
    /\ sending.kind # "none" => ~Waits(readers, "prompt")
    /\ Waits(readers, "question") => turn = "asking" /\ questions # <<>>

TerminalInv == TerminalTypes /\ TerminalReaders /\ Terminal!LinesAccounted

-----------------------------------------------------------------------------

\* The first reader goes.
LEMMA QueueTail ==
    ASSUME NEW r, Queue(r), r # <<>>
    PROVE  /\ Queue(Tail(r)) /\ Len(Tail(r)) = Len(r) - 1 /\ Len(r) \in Nat
           /\ Waits(r, Head(r)) /\ (Head(r) # "left" => ~Waits(Tail(r), Head(r)))
           /\ \A who : who # Head(r) => (Waits(Tail(r), who) <=> Waits(r, who))
  <1> DEFINE s == Tail(r)
  <1>1. /\ s \in Seq({"prompt", "question", "left"}) /\ Len(s) = Len(r) - 1
        /\ Len(r) \in Nat \ {0} /\ Head(r) = r[1]
        /\ \A i \in 1..Len(s) : s[i] = r[i + 1]
    <2>1. r \in Seq({"prompt", "question", "left"})
      BY DEF Queue
    <2> QED BY <2>1, Rest
  <1> HIDE DEF s
  <1>2. \A i \in 1..Len(s) : i + 1 \in 1..Len(r)
    BY <1>1
  <1>3. \A i, j \in 1..Len(s) : s[i] = s[j] /\ s[i] # "left" => i = j
    <2> SUFFICES ASSUME NEW i \in 1..Len(s), NEW j \in 1..Len(s), s[i] = s[j], s[i] # "left"
                 PROVE  i = j
      OBVIOUS
    <2>1. r[i + 1] = r[j + 1] /\ r[i + 1] # "left" /\ i + 1 \in 1..Len(r) /\ j + 1 \in 1..Len(r)
      BY <1>1, <1>2
    <2>2. i + 1 = j + 1
      BY <2>1 DEF Queue
    <2> QED BY <1>1, <2>2
  <1>4. Waits(r, Head(r))
    BY <1>1 DEF Waits
  <1>5. ASSUME NEW who, who # Head(r) PROVE Waits(s, who) <=> Waits(r, who)
    <2>1. Waits(s, who) => Waits(r, who)
      BY <1>1, <1>2 DEF Waits
    <2>2. ASSUME NEW i \in 1..Len(r), r[i] = who PROVE Waits(s, who)
      <3>1. i - 1 \in 1..Len(s) /\ (i - 1) + 1 = i
        BY <1>1, <1>5, <2>2
      <3> QED BY <1>1, <2>2, <3>1 DEF Waits
    <2> QED BY <2>1, <2>2 DEF Waits
  <1>6. ASSUME Head(r) # "left", NEW i \in 1..Len(s), s[i] = Head(r) PROVE FALSE
    <2>1. r[i + 1] = r[1] /\ r[1] # "left" /\ i + 1 \in 1..Len(r) /\ 1 \in 1..Len(r)
      BY <1>1, <1>2, <1>6
    <2>2. i + 1 = 1
      BY <2>1 DEF Queue
    <2> QED BY <1>1, <2>2
  <1>7. Len(s) <= IF Waits(s, "prompt") THEN 3 ELSE 2
    <2>1. Len(r) <= IF Waits(r, "prompt") THEN 3 ELSE 2
      BY DEF Queue
    <2>2. CASE Head(r) = "prompt"
      BY <1>1, <2>1, <2>2
    <2>3. CASE Head(r) # "prompt"
      BY <1>1, <1>5, <2>1, <2>3
    <2> QED BY <2>2, <2>3
  <1>8. Queue(s)
    BY <1>1, <1>3, <1>7 DEF Queue
  <1>9. Head(r) # "left" => ~Waits(s, Head(r))
    BY <1>6 DEF Waits
  <1> QED BY <1>1, <1>4, <1>5, <1>8, <1>9 DEF s

\* Somebody joins who does not wait yet, and for whom there is room.
LEMMA QueueAdd ==
    ASSUME NEW r, Queue(r), NEW who \in {"prompt", "question"}, ~Waits(r, who),
           who = "question" => Len(r) + 1 <= IF Waits(r, "prompt") THEN 3 ELSE 2
    PROVE  /\ Queue(Append(r, who))
           /\ \A w : Waits(Append(r, who), w) <=> w = who \/ Waits(r, w)
  <1> DEFINE s == Append(r, who)
  <1>1. /\ s \in Seq({"prompt", "question", "left"}) /\ Len(s) = Len(r) + 1 /\ Len(r) \in Nat
        /\ \A i \in 1..Len(r) : s[i] = r[i]
        /\ s[Len(r) + 1] = who
    <2>1. r \in Seq({"prompt", "question", "left"})
      BY DEF Queue
    <2>2. who \in {"prompt", "question", "left"}
      OBVIOUS
    <2> QED BY <2>1, <2>2, Added
  <1> HIDE DEF s
  <1>2. \A i \in 1..Len(s) : i \in 1..Len(r) \/ i = Len(r) + 1
    BY <1>1
  <1>3. ASSUME NEW w PROVE Waits(s, w) <=> w = who \/ Waits(r, w)
    <2>1. Len(r) + 1 \in 1..Len(s) /\ \A i \in 1..Len(r) : i \in 1..Len(s)
      BY <1>1
    <2> QED BY <1>1, <1>2, <2>1 DEF Waits
  <1>4. \A i, j \in 1..Len(s) : s[i] = s[j] /\ s[i] # "left" => i = j
    <2>1. \A i \in 1..Len(r) : r[i] # who
      BY DEF Waits
    <2>2. \A i, j \in 1..Len(r) : r[i] = r[j] /\ r[i] # "left" => i = j
      BY DEF Queue
    <2> QED BY <1>1, <1>2, <2>1, <2>2
  <1>5. Len(s) <= IF Waits(s, "prompt") THEN 3 ELSE 2
    <2>1. Len(r) <= IF Waits(r, "prompt") THEN 3 ELSE 2
      BY DEF Queue
    <2>2. CASE who = "prompt"
      BY <1>1, <1>3, <2>1, <2>2
    <2>3. CASE who = "question"
      BY <1>1, <1>3, <2>3
    <2> QED BY <2>2, <2>3
  <1>6. Queue(s)
    BY <1>1, <1>4, <1>5 DEF Queue
  <1> QED BY <1>3, <1>6 DEF s

\* An interrupt leaves every reader behind.
LEMMA QueueLeft ==
    ASSUME NEW r, Queue(r), ~Waits(r, "prompt")
    PROVE  /\ Queue([i \in DOMAIN r |-> "left"])
           /\ \A w : w # "left" => ~Waits([i \in DOMAIN r |-> "left"], w)
  <1> DEFINE s == [i \in DOMAIN r |-> "left"]
  <1>1. r \in Seq({"prompt", "question", "left"}) /\ Len(r) <= 2
    BY DEF Queue
  <1>2. DOMAIN r = 1..Len(r) /\ Len(r) \in Nat
    BY <1>1
  <1>3. s \in Seq({"prompt", "question", "left"}) /\ Len(s) = Len(r)
    BY <1>2
  <1>4. \A i \in 1..Len(s) : s[i] = "left"
    BY <1>2, <1>3
  <1> HIDE DEF s
  <1>5. \A w : w # "left" => ~Waits(s, w)
    BY <1>4 DEF Waits
  <1>6. Len(s) <= IF Waits(s, "prompt") THEN 3 ELSE 2
    BY <1>1, <1>3, <1>5
  <1>7. Queue(s)
    BY <1>3, <1>4, <1>6 DEF Queue
  <1> QED BY <1>5, <1>7 DEF s

LEMMA TerminalInit == ASSUME TerminalParameters, Terminal!Init PROVE TerminalInv
  <1> USE DEF Terminal!Init, Terminal!Idle, Terminal!Env
  <1>1. TerminalTypes
    BY DEF TerminalTypes, TerminalParameters
  <1>2. Queue(readers) /\ ~Waits(readers, "question")
    <2>1. /\ readers \in Seq({"prompt", "question", "left"}) /\ Len(readers) = 1
          /\ readers[1] = "prompt"
      OBVIOUS
    <2>2. \A i \in 1..Len(readers) : i = 1
      BY <2>1
    <2>3. Waits(readers, "prompt") /\ ~Waits(readers, "question")
      BY <2>1, <2>2 DEF Waits
    <2> QED BY <2>1, <2>2, <2>3 DEF Queue
  <1>3. sending.kind = "none"
    OBVIOUS
  <1>4. TerminalReaders
    BY <1>2, <1>3 DEF TerminalReaders
  <1>5. Terminal!LinesAccounted
    <2>1. typed = 0 /\ Len(outcomes) = 0 /\ turn = "idle" /\ asking = "none"
      OBVIOUS
    <2> QED BY <1>3, <2>1 DEF Terminal!LinesAccounted
  <1> QED BY <1>1, <1>4, <1>5 DEF TerminalInv

\* One outcome more.
LEMMA TerminalOne ==
    ASSUME TerminalInv, NEW o, o \in TerminalOutcome
    PROVE  Append(outcomes, o) \in Seq(TerminalOutcome) /\ Len(Append(outcomes, o)) = Len(outcomes) + 1
           /\ Len(outcomes) \in Nat
  BY DEF TerminalInv, TerminalTypes

\* What goes on between a line and its outcome, in terms of what the invariant needs.
LEMMA TerminalKinds == \A line : Terminal!EnvelopeOf(line).kind \in {"message", "action", "control"}
  BY Zenon DEF Terminal!EnvelopeOf, Terminal!SlashAction, Terminal!Env

LEMMA TerminalRouted == \A env : Terminal!Routed(env) \in {"ok", "unsupported", "failed"}
  BY Zenon DEF Terminal!Routed

LEMMA TerminalForPrompt ==
    ASSUME TerminalParameters, TerminalInv, Terminal!TypeForPrompt PROVE TerminalInv'
  <1> USE DEF TerminalInv
  <1>1. /\ readers # <<>> /\ Head(readers) = "prompt" /\ typed < MaxLines /\ typed' = typed + 1
        /\ room' = room /\ turn' = turn /\ questions' = questions /\ asking' = asking
    BY DEF Terminal!TypeForPrompt
  <1> DEFINE left == Tail(readers)
  <1>2. /\ Queue(left) /\ ~Waits(left, "prompt") /\ sending.kind = "none"
        /\ Waits(left, "question") <=> Waits(readers, "question")
    BY <1>1, QueueTail DEF TerminalReaders
  <1>3. Queue(Append(left, "prompt")) /\ \A w : Waits(Append(left, "prompt"), w) <=> w = "prompt" \/ Waits(left, w)
    BY <1>2, QueueAdd
  <1> HIDE DEF left
  <1>4. \/ /\ readers' = Append(left, "prompt") /\ sending' = sending
           /\ outcomes' = Append(outcomes, [got |-> "ignored", by |-> "prompt"])
        \/ /\ readers' = left /\ sending'.kind = "stopped"
           /\ outcomes' = Append(outcomes, [got |-> "quit", by |-> "prompt"])
        \/ /\ readers' = left /\ sending'.kind \in {"message", "action", "control"}
           /\ outcomes' = outcomes
    <2>1. PICK line \in Lines :
              IF line.form = "blank"
              THEN /\ readers' = Append(left, "prompt") /\ UNCHANGED sending
                   /\ outcomes' = Append(outcomes, [got |-> "ignored", by |-> "prompt"])
              ELSE IF line.form = "quit"
              THEN /\ readers' = left /\ sending' = Terminal!Env("stopped", "none", {})
                   /\ outcomes' = Append(outcomes, [got |-> "quit", by |-> "prompt"])
              ELSE /\ readers' = left /\ sending' = Terminal!EnvelopeOf(line)
                   /\ UNCHANGED outcomes
      BY Zenon DEF Terminal!TypeForPrompt, left
    <2>2. Terminal!Env("stopped", "none", {}).kind = "stopped"
      BY DEF Terminal!Env
    <2> QED BY <2>1, <2>2, TerminalKinds
  <1>5. /\ \A o \in TerminalOutcome : /\ Append(outcomes, o) \in Seq(TerminalOutcome)
                                      /\ Len(Append(outcomes, o)) = Len(outcomes) + 1
        /\ Len(outcomes) \in Nat
        /\ [got |-> "ignored", by |-> "prompt"] \in TerminalOutcome
        /\ [got |-> "quit", by |-> "prompt"] \in TerminalOutcome
    BY DEF TerminalTypes, TerminalOutcome
  <1>6. TerminalTypes'
    <2>1. typed' \in 0..MaxLines
      BY <1>1 DEF TerminalTypes, TerminalParameters
    <2>2. outcomes' \in Seq(TerminalOutcome)
      BY <1>4, <1>5 DEF TerminalTypes
    <2>3. sending'.kind \in {"none", "message", "action", "control", "stopped"}
      BY <1>4 DEF TerminalTypes
    <2> QED BY <1>1, <2>1, <2>2, <2>3 DEF TerminalTypes
  <1>7. TerminalReaders'
    <2>1. Queue(readers)' /\ (sending'.kind # "none" => ~Waits(readers, "prompt")')
      BY <1>2, <1>3, <1>4
    <2>2. Waits(readers, "question")' => Waits(readers, "question")
      BY <1>2, <1>3, <1>4
    <2> QED BY <1>1, <2>1, <2>2 DEF TerminalReaders
  <1>8. Terminal!LinesAccounted'
    <2>1. typed' = Len(outcomes') + IF sending'.kind \in {"message", "action", "control"} THEN 1 ELSE 0
      <3>1. typed = Len(outcomes)
        BY <1>2 DEF Terminal!LinesAccounted
      <3> QED BY <1>1, <1>2, <1>4, <1>5, <3>1
    <2> QED BY <1>1, <2>1 DEF Terminal!LinesAccounted
  <1> QED BY <1>6, <1>7, <1>8

LEMMA TerminalForOthers ==
    ASSUME TerminalParameters, TerminalInv, Terminal!TypeForQuestion \/ Terminal!TypeForNobody
    PROVE  TerminalInv'
  <1> USE DEF TerminalInv
  <1>1. /\ readers # <<>> /\ typed < MaxLines /\ typed' = typed + 1
        /\ room' = room /\ asking' = asking /\ sending' = sending
    BY DEF Terminal!TypeForQuestion, Terminal!TypeForNobody
  <1> DEFINE left == Tail(readers)
  <1>2. /\ Queue(left) /\ Len(left) = Len(readers) - 1 /\ Len(readers) \in Nat
        /\ Waits(readers, Head(readers)) /\ (Head(readers) # "left" => ~Waits(left, Head(readers)))
        /\ \A who : who # Head(readers) => (Waits(left, who) <=> Waits(readers, who))
    BY <1>1, QueueTail DEF TerminalReaders
  <1>3. PICK o \in TerminalOutcome : outcomes' = Append(outcomes, o)
    <2>1. CASE Terminal!TypeForQuestion
      <3>1. PICK line \in Lines :
                outcomes' = Append(outcomes, [got |-> Terminal!Interpreted(line), by |-> "question"])
        BY <2>1, Zenon DEF Terminal!TypeForQuestion
      <3>2. Terminal!Interpreted(line) \in {"text", "choice", "choices"}
        BY Zenon DEF Terminal!Interpreted
      <3>3. [got |-> Terminal!Interpreted(line), by |-> "question"] \in TerminalOutcome
        BY <3>2 DEF TerminalOutcome
      <3> QED BY <3>1, <3>3
    <2>2. CASE Terminal!TypeForNobody
      <3>1. [got |-> "swallowed", by |-> "left"] \in TerminalOutcome
        BY DEF TerminalOutcome
      <3> QED BY <2>2, <3>1 DEF Terminal!TypeForNobody
    <2> QED BY <2>1, <2>2
  <1>4. /\ outcomes' \in Seq(TerminalOutcome) /\ Len(outcomes') = Len(outcomes) + 1
        /\ Len(outcomes) \in Nat
    BY <1>3, TerminalOne
  <1>5. typed' \in 0..MaxLines
    BY <1>1 DEF TerminalTypes, TerminalParameters
  <1>6. typed' = Len(outcomes') + IF sending'.kind \in {"message", "action", "control"} THEN 1 ELSE 0
    BY <1>1, <1>4 DEF Terminal!LinesAccounted
  <1>7. CASE Terminal!TypeForNobody
    <2>1. /\ Head(readers) = "left" /\ readers' = left /\ turn' = turn /\ questions' = questions
      BY <1>7 DEF Terminal!TypeForNobody
    <2>2. TerminalTypes'
      BY <1>1, <1>4, <1>5, <2>1 DEF TerminalTypes
    <2> HIDE DEF left
    <2>3. TerminalReaders'
      <3>1. \A who \in {"prompt", "question"} : Waits(left, who) <=> Waits(readers, who)
        BY <1>2, <2>1
      <3>2. Queue(readers)'
        BY <1>2, <2>1
      <3>3. /\ Waits(readers, "prompt")' <=> Waits(readers, "prompt")
            /\ Waits(readers, "question")' <=> Waits(readers, "question")
        BY <2>1, <3>1
      <3> QED BY <1>1, <2>1, <3>2, <3>3 DEF TerminalReaders
    <2> QED BY <1>1, <1>6, <2>1, <2>2, <2>3 DEF Terminal!LinesAccounted
  <1>8. CASE Terminal!TypeForQuestion
    <2>1. Head(readers) = "question" /\ questions' = Tail(questions)
      BY <1>8 DEF Terminal!TypeForQuestion
    <2>2. turn = "asking" /\ questions # <<>> /\ asking = "none"
      BY <1>2, <2>1 DEF TerminalReaders, Terminal!LinesAccounted
    <2>3. Tail(questions) \in Seq(TerminalQuestion)
      BY <2>2 DEF TerminalTypes
    <2>4. ~Waits(left, "question") /\ (Waits(left, "prompt") <=> Waits(readers, "prompt"))
      BY <1>2, <2>1
    <2> HIDE DEF left
    <2>5. \/ Tail(questions) = <<>> /\ readers' = left /\ turn' = "working"
          \/ Tail(questions) # <<>> /\ readers' = Append(left, "question") /\ turn' = turn
      BY <1>8, Zenon DEF Terminal!TypeForQuestion, left
    <2>6. /\ Queue(Append(left, "question"))
          /\ \A w : Waits(Append(left, "question"), w) <=> w = "question" \/ Waits(left, w)
      <3>1. Len(left) + 1 <= IF Waits(left, "prompt") THEN 3 ELSE 2
        BY <1>2, <2>4 DEF TerminalReaders, Queue
      <3> QED BY <1>2, <2>4, <3>1, QueueAdd
    <2>7. TerminalTypes'
      BY <1>1, <1>4, <1>5, <2>1, <2>3, <2>5 DEF TerminalTypes
    <2>8. TerminalReaders'
      <3>1. CASE Tail(questions) = <<>>
        <4>1. readers' = left
          BY <2>5, <3>1
        <4>2. Queue(readers)' /\ ~Waits(readers, "question")' /\ (Waits(readers, "prompt")' <=> Waits(readers, "prompt"))
          BY <1>2, <2>4, <4>1
        <4> QED BY <1>1, <4>2 DEF TerminalReaders
      <3>2. CASE Tail(questions) # <<>>
        <4>1. readers' = Append(left, "question") /\ turn' = turn
          BY <2>5, <3>2
        <4>2. Queue(readers)' /\ (Waits(readers, "prompt")' <=> Waits(readers, "prompt"))
          BY <2>4, <2>6, <4>1
        <4>3. turn' = "asking" /\ questions' # <<>>
          BY <2>1, <2>2, <3>2, <4>1
        <4> QED BY <1>1, <4>2, <4>3 DEF TerminalReaders
      <3> QED BY <3>1, <3>2
    <2>9. Terminal!LinesAccounted'
      <3>1. turn' # "approval" /\ asking' = "none"
        BY <1>1, <2>2, <2>5
      <3> QED BY <1>6, <3>1 DEF Terminal!LinesAccounted
    <2> QED BY <2>7, <2>8, <2>9
  <1> QED BY <1>7, <1>8

\* A line is done with: the prompt waits again.
LEMMA TerminalDone ==
    ASSUME TerminalParameters, TerminalInv, sending.kind \in {"message", "action"},
           NEW o, o \in TerminalOutcome, o.got # "nothing", Terminal!Done(o)
    PROVE  /\ Queue(readers)' /\ sending'.kind = "none"
           /\ (Waits(readers, "question")' <=> Waits(readers, "question"))
           /\ outcomes' \in Seq(TerminalOutcome)
           /\ typed = Len(outcomes')
  <1> USE DEF TerminalInv
  <1>1. /\ readers' = Append(readers, "prompt") /\ sending' = Terminal!Idle
        /\ outcomes' = Append(outcomes, o)
    BY DEF Terminal!Done
  <1>2. /\ Queue(Append(readers, "prompt"))
        /\ \A w : Waits(Append(readers, "prompt"), w) <=> w = "prompt" \/ Waits(readers, w)
    BY QueueAdd DEF TerminalReaders
  <1>3. Queue(readers)' /\ (Waits(readers, "question")' <=> Waits(readers, "question"))
    BY <1>1, <1>2
  <1>4. sending'.kind = "none"
    BY <1>1 DEF Terminal!Idle, Terminal!Env
  <1>5. /\ Append(outcomes, o) \in Seq(TerminalOutcome) /\ Len(outcomes) \in Nat
        /\ Len(Append(outcomes, o)) = Len(outcomes) + 1
    BY TerminalOne
  <1>6. typed = Len(outcomes) + 1
    BY DEF Terminal!LinesAccounted
  <1> QED BY <1>1, <1>3, <1>4, <1>5, <1>6

LEMMA TerminalSends ==
    ASSUME TerminalParameters, TerminalInv,
           Terminal!SendMessage \/ Terminal!SendAction \/ Terminal!ActionTimesOut
    PROVE  TerminalInv'
  <1> USE DEF TerminalInv
  <1>1. PICK o \in TerminalOutcome : o.got # "nothing" /\ Terminal!Done(o)
    <2>1. CASE Terminal!SendMessage
      <3>1. [got |-> "queued", by |-> "prompt"] \in TerminalOutcome
        BY DEF TerminalOutcome
      <3> QED BY <2>1, <3>1 DEF Terminal!SendMessage
    <2>2. CASE Terminal!ActionTimesOut
      <3>1. [got |-> "timeout", by |-> "prompt"] \in TerminalOutcome
        BY DEF TerminalOutcome
      <3> QED BY <2>2, <3>1 DEF Terminal!ActionTimesOut
    <2>3. CASE Terminal!SendAction
      <3>1. \E got \in {"decided", "ok", "unsupported", "failed"} :
                Terminal!Done([got |-> got, by |-> "prompt"])
        BY <2>3, TerminalRouted, Zenon DEF Terminal!SendAction
      <3>2. \A got \in {"decided", "ok", "unsupported", "failed"} :
                /\ [got |-> got, by |-> "prompt"] \in TerminalOutcome
                /\ [got |-> got, by |-> "prompt"].got # "nothing"
        BY DEF TerminalOutcome
      <3> QED BY <3>1, <3>2
    <2> QED BY <2>1, <2>2, <2>3
  <1>2. sending.kind \in {"message", "action"} /\ typed' = typed /\ questions' = questions
    BY DEF Terminal!SendMessage, Terminal!SendAction, Terminal!ActionTimesOut
  <1>3. /\ Queue(readers)' /\ sending'.kind = "none"
        /\ (Waits(readers, "question")' <=> Waits(readers, "question"))
        /\ outcomes' \in Seq(TerminalOutcome)
        /\ typed = Len(outcomes')
    BY <1>1, <1>2, TerminalDone
  <1>4. /\ room' \in 0..MaxInbox
        /\ \/ turn' = turn /\ asking' = asking
           \/ turn = "approval" /\ turn' = "working" /\ asking' = "none"
    <2>1. CASE Terminal!SendMessage
      BY <2>1 DEF Terminal!SendMessage, TerminalTypes, TerminalParameters
    <2>2. CASE Terminal!ActionTimesOut
      BY <2>2 DEF Terminal!ActionTimesOut, TerminalTypes
    <2>3. CASE Terminal!SendAction
      <3> DEFINE decides == Terminal!Routed(sending) = "ok"
                            /\ sending.what \in {"approvals:grant", "approvals:deny"}
      <3>1. /\ asking' = IF decides THEN "none" ELSE asking
            /\ turn' = IF decides THEN "working" ELSE turn
            /\ room' = room
        BY <2>3, Zenon DEF Terminal!SendAction
      <3>2. decides => Terminal!Decides(sending.params)
        BY Zenon DEF Terminal!Routed
      <3>3. Terminal!Decides(sending.params) => asking # "none"
        BY Zenon DEF Terminal!Decides
      <3>4. asking # "none" => turn = "approval"
        BY DEF Terminal!LinesAccounted
      <3> HIDE DEF decides
      <3> QED BY <3>1, <3>2, <3>3, <3>4 DEF TerminalTypes
    <2> QED BY <2>1, <2>2, <2>3
  <1>5. TerminalTypes'
    BY <1>2, <1>3, <1>4 DEF TerminalTypes
  <1>6. TerminalReaders'
    BY <1>2, <1>3, <1>4 DEF TerminalReaders
  <1>7. Terminal!LinesAccounted'
    BY <1>2, <1>3, <1>4 DEF Terminal!LinesAccounted
  <1> QED BY <1>5, <1>6, <1>7

LEMMA TerminalControl == ASSUME TerminalParameters, TerminalInv, Terminal!SendControl PROVE TerminalInv'
  <1> USE DEF TerminalInv
  <1> DEFINE o == [got |-> "control", by |-> "prompt"]
             before == IF sending.what = "interrupt" THEN [i \in DOMAIN readers |-> "left"] ELSE readers
  <1>1. /\ sending.kind = "control" /\ outcomes' = Append(outcomes, o) /\ sending' = Terminal!Idle
        /\ typed' = typed /\ room' = room
        /\ IF sending.what = "interrupt"
           THEN turn' = "idle" /\ asking' = "none" /\ questions' = <<>>
           ELSE turn' = turn /\ asking' = asking /\ questions' = questions
    BY Zenon DEF Terminal!SendControl
  <1>2. o \in TerminalOutcome
    BY DEF TerminalOutcome
  <1>3. readers \in Seq({"prompt", "question", "left"})
    BY DEF TerminalReaders, Queue
  <1>4. readers' = Append(before, "prompt")
    <2>1. readers' = Append([i \in DOMAIN readers |->
                                IF sending.what = "interrupt" THEN "left" ELSE readers[i]], "prompt")
      BY Zenon DEF Terminal!SendControl
    <2>2. [i \in DOMAIN readers |-> IF sending.what = "interrupt" THEN "left" ELSE readers[i]] = before
      <3>1. CASE sending.what = "interrupt"
        BY <3>1
      <3>2. CASE sending.what # "interrupt"
        BY <1>3, <3>2
      <3> QED BY <3>1, <3>2
    <2> QED BY <2>1, <2>2
  <1>5. /\ Queue(before) /\ ~Waits(before, "prompt")
        /\ Waits(before, "question") => sending.what # "interrupt" /\ Waits(readers, "question")
    <2>1. Queue(readers) /\ ~Waits(readers, "prompt")
      BY <1>1 DEF TerminalReaders
    <2>2. CASE sending.what = "interrupt"
      BY <2>1, <2>2, QueueLeft
    <2>3. CASE sending.what # "interrupt"
      BY <2>1, <2>3
    <2> QED BY <2>2, <2>3
  <1> HIDE DEF before
  <1>6. /\ Queue(Append(before, "prompt"))
        /\ \A w : Waits(Append(before, "prompt"), w) <=> w = "prompt" \/ Waits(before, w)
    BY <1>5, QueueAdd
  <1>7. Queue(readers)' /\ (Waits(readers, "question")' <=> Waits(before, "question"))
    BY <1>4, <1>6
  <1> HIDE DEF o
  <1>8. /\ outcomes' \in Seq(TerminalOutcome) /\ Len(outcomes') = Len(outcomes) + 1
        /\ Len(outcomes) \in Nat
    BY <1>1, <1>2, TerminalOne
  <1>9. sending'.kind = "none"
    BY <1>1 DEF Terminal!Idle, Terminal!Env
  <1>10. TerminalTypes'
    <2>1. <<>> \in Seq(TerminalQuestion)
      OBVIOUS
    <2> QED BY <1>1, <1>8, <1>9, <2>1 DEF TerminalTypes
  <1>11. TerminalReaders'
    BY <1>1, <1>5, <1>7, <1>9 DEF TerminalReaders
  <1>12. Terminal!LinesAccounted'
    BY <1>1, <1>8, <1>9 DEF Terminal!LinesAccounted
  <1> QED BY <1>10, <1>11, <1>12

LEMMA TerminalAsk == ASSUME TerminalParameters, TerminalInv, Terminal!Ask PROVE TerminalInv'
  <1> USE DEF TerminalInv
  <1>1. /\ turn = "working" /\ Len(readers) < 2 /\ turn' = "asking" /\ questions' \in Questions
        /\ readers' = Append(readers, "question")
        /\ typed' = typed /\ sending' = sending /\ room' = room /\ asking' = asking
        /\ outcomes' = outcomes
    BY DEF Terminal!Ask
  <1>2. questions' \in Seq(TerminalQuestion) /\ questions' # <<>>
    BY <1>1 DEF TerminalParameters
  <1>3. /\ Queue(Append(readers, "question"))
        /\ \A w : Waits(Append(readers, "question"), w) <=> w = "question" \/ Waits(readers, w)
    <2>1. ~Waits(readers, "question") /\ Queue(readers)
      BY <1>1 DEF TerminalReaders
    <2>2. Len(readers) + 1 <= IF Waits(readers, "prompt") THEN 3 ELSE 2
      BY <1>1, <2>1 DEF Queue
    <2> QED BY <2>1, <2>2, QueueAdd
  <1>4. Queue(readers)' /\ (Waits(readers, "prompt")' <=> Waits(readers, "prompt"))
    BY <1>1, <1>3
  <1>5. TerminalTypes'
    BY <1>1, <1>2 DEF TerminalTypes
  <1>6. TerminalReaders'
    BY <1>1, <1>2, <1>4 DEF TerminalReaders
  <1>7. Terminal!LinesAccounted'
    BY <1>1 DEF Terminal!LinesAccounted
  <1> QED BY <1>5, <1>6, <1>7

\* The turns of the agent.
LEMMA TerminalTurns ==
    ASSUME TerminalParameters, TerminalInv,
           \/ Terminal!TurnBegins \/ Terminal!NeedApproval \/ Terminal!TurnEnds
           \/ UNCHANGED Terminal!vars
    PROVE  TerminalInv'
  <1> USE DEF TerminalInv
  <1>1. /\ typed' = typed /\ readers' = readers /\ sending' = sending /\ questions' = questions
        /\ outcomes' = outcomes
    BY DEF Terminal!TurnBegins, Terminal!NeedApproval, Terminal!TurnEnds, Terminal!vars
  <1>2. /\ turn' \in {"idle", "working", "asking", "approval"} /\ asking' \in {"none", "r1"}
        /\ (turn' = "approval") = (asking' # "none")
        /\ (turn = "asking" => turn' = "asking") /\ room' \in 0..MaxInbox
    BY DEF Terminal!TurnBegins, Terminal!NeedApproval, Terminal!TurnEnds, Terminal!vars,
       TerminalTypes, TerminalParameters, Terminal!LinesAccounted
  <1>3. TerminalTypes'
    BY <1>1, <1>2 DEF TerminalTypes
  <1>4. TerminalReaders'
    BY <1>1, <1>2 DEF TerminalReaders, Queue, Waits
  <1>5. Terminal!LinesAccounted'
    BY <1>1, <1>2 DEF Terminal!LinesAccounted
  <1> QED BY <1>3, <1>4, <1>5

LEMMA TerminalStep ==
    ASSUME TerminalParameters, TerminalInv, [Terminal!Next]_Terminal!vars
    PROVE  TerminalInv'
  BY TerminalForPrompt, TerminalForOthers, TerminalSends, TerminalControl, TerminalAsk,
     TerminalTurns DEF Terminal!Next

LEMMA TerminalHolds ==
    ASSUME TerminalParameters, TerminalInv
    PROVE  Terminal!TypeOK /\ Terminal!LinesAccounted
  <1> USE DEF TerminalInv, TerminalTypes
  <1>1. Terminal!Range(readers) \subseteq {"prompt", "question", "left"} /\ Len(readers) <= 3
    BY DEF TerminalReaders, Queue, Terminal!Range
  <1>2. \A q \in Terminal!Range(questions) : q.options \in 0..4 /\ q.multi \in BOOLEAN
    <2>1. \A i \in DOMAIN questions : questions[i] \in TerminalQuestion
      OBVIOUS
    <2>2. \A q \in Terminal!Range(questions) : q \in TerminalQuestion
      BY <2>1 DEF Terminal!Range
    <2> QED BY <2>2 DEF TerminalQuestion
  <1>3. Len(outcomes) <= MaxLines
    <2>1. Len(outcomes) \in Nat /\ Len(outcomes) <= typed
      BY DEF Terminal!LinesAccounted
    <2> QED BY <2>1 DEF TerminalParameters
  <1>4. Terminal!TypeOK
    BY <1>1, <1>2, <1>3 DEF Terminal!TypeOK, TerminalParameters
  <1> QED BY <1>4

\* Every line typed is being sent or has one outcome, whoever waited at the terminal,
\* and a turn waits for an approval while its request is pending, for any lines,
\* questions and handlers (client_channel, ask_user, dispatcher).
THEOREM TerminalAccounts ==
    ASSUME TerminalParameters
    PROVE  Terminal!Spec => [](Terminal!TypeOK /\ Terminal!LinesAccounted)
  <1>1. Terminal!Init => TerminalInv
    BY TerminalInit
  <1>2. TerminalInv /\ [Terminal!Next]_Terminal!vars => TerminalInv'
    BY TerminalStep
  <1>3. TerminalInv => Terminal!TypeOK /\ Terminal!LinesAccounted
    BY TerminalHolds
  <1> QED BY <1>1, <1>2, <1>3, PTL DEF Terminal!Spec

-----------------------------------------------------------------------------
(* Configuration.                                                            *)

\* The files are configurations whose prompt has a mode, or broken; the command line
\* has no flags for the proxy, accepts two modes, and what it asks for is its own.
ConfigFile == {c \in Config!Configs : c.set["mode"] \in {Config!Unset, "replace", "append", "wrong"}}
ConfigParameters ==
    /\ UserFiles \union WorkspaceFiles \subseteq ConfigFile \union {Config!Broken}
    /\ Options \subseteq
          {o \in [Config!Keys -> Config!Values] :
              /\ o["mode"] \in {Config!Unset, "replace", "append"}
              /\ o["content"] \in {Config!Unset, "flag"} /\ o["path"] \in {Config!Unset, "flag"}
              /\ \A k \in {"proxy.disabled", "proxy.system", "proxy.http"} : o[k] = Config!Unset}

\* What the provider has read: a configuration of one prompt mode and one proxy rule.
ConfigRead(c) ==
    /\ c \in Config!Configs
    /\ c.set["mode"] \in {Config!Unset, "replace", "append"}
    /\ c.set["proxy.disabled"] # Config!Unset =>
          c.set["proxy.system"] = Config!Unset /\ c.set["proxy.http"] = Config!Unset
    /\ c.set["proxy.system"] # Config!Unset => c.set["proxy.http"] = Config!Unset

\* The flags are in what runs, everything else is the provider's.
ConfigAbove(c, lower) ==
    /\ \A k \in {"model", "max_tokens", "mcp_paths"} :
          c[k] = IF options[k] # Config!Unset THEN options[k] ELSE lower[k]
    /\ \A k \in {"proxy.disabled", "proxy.system", "proxy.http"} : c[k] = lower[k]
    /\ \A k \in {"mode", "content", "path"} :
          options[k] # Config!Unset => (k = "content" /\ options["path"] # Config!Unset) \/ c[k] = options[k]

\* What the agent was built from, under the flags, and that its prompt and its
\* connections are made of that.
ConfigAsked(c) ==
    /\ \A k \in {"model", "max_tokens", "mcp_paths"} :
          options[k] # Config!Unset => c[k] = options[k]
    /\ options["content"] # Config!Unset \/ options["path"] # Config!Unset =>
          /\ c["content"] # Config!Unset \/ c["path"] # Config!Unset
          /\ c["content"] \in {Config!Unset, "flag"} /\ c["path"] \in {Config!Unset, "flag"}
          /\ c["mode"] = IF options["mode"] # Config!Unset THEN options["mode"] ELSE "replace"
ConfigAgent ==
    /\ agent = [is |-> "agent", config |-> agent.config, prompt |-> Config!PromptOf(agent.config.set),
                proxy |-> Config!ProxyOf(agent.config.set), servers |-> agent.servers]
    /\ ConfigRead(agent.config) /\ agent.servers \in Seq(Config!Servers)
    /\ Config!PromptAccepted(agent.config.set) /\ ConfigAsked(agent.config.set)

\* The inductive invariant: the runtime's configuration is the provider's under the
\* flags, and the agent was built from such a one.
ConfigInv ==
    /\ user \in UserFiles /\ workspace \in WorkspaceFiles /\ options \in Options
    /\ \/ runtime = Config!NoConfig /\ provider = Config!NoConfig /\ agent = Config!NoAgent
       \/ /\ ConfigRead(runtime) /\ ConfigRead(provider)
          /\ ConfigAbove(runtime.set, provider.set) /\ ConfigAgent

\* The files, put over each other, are a configuration the provider may have read.
LEMMA ConfigLoaded ==
    ASSUME ConfigParameters, ConfigInv, Config!Loads
    PROVE  ConfigRead(Config!Loaded)
  <1> DEFINE m == Config!Merged(user.set, workspace.set)
  <1>1. user \in ConfigFile /\ workspace \in ConfigFile
    BY DEF ConfigParameters, ConfigInv, Config!Loads
  <1>2. user.set \in [Config!Keys -> Config!Values] /\ workspace.set \in [Config!Keys -> Config!Values]
        /\ user.set["mode"] \in {Config!Unset, "replace", "append", "wrong"}
        /\ workspace.set["mode"] \in {Config!Unset, "replace", "append", "wrong"}
    BY <1>1 DEF ConfigFile, Config!Configs
  <1>3. m \in [Config!Keys -> Config!Values]
        /\ m["mode"] \in {Config!Unset, "replace", "append"}
    BY <1>2 DEF Config!Merged, Config!Loads, Config!ModeAccepted, Config!Keys
  <1> HIDE DEF m
  <1> DEFINE w == Config!WithProxyRule(m)
  <1>4. /\ w \in [Config!Keys -> Config!Values] /\ w["mode"] = m["mode"]
        /\ w["proxy.disabled"] # Config!Unset =>
              w["proxy.system"] = Config!Unset /\ w["proxy.http"] = Config!Unset
        /\ w["proxy.system"] # Config!Unset => w["proxy.http"] = Config!Unset
    <2>1. Config!Unset \in Config!Values
      BY DEF Config!Values
    <2>2. {"mode", "proxy.disabled", "proxy.system", "proxy.http"} \subseteq Config!Keys
      BY DEF Config!Keys
    <2>3. CASE m["proxy.disabled"] # Config!Unset
      BY <1>3, <2>1, <2>2, <2>3 DEF Config!WithProxyRule
    <2>4. CASE m["proxy.disabled"] = Config!Unset /\ m["proxy.system"] # Config!Unset
      BY <1>3, <2>1, <2>2, <2>4 DEF Config!WithProxyRule
    <2>5. CASE m["proxy.disabled"] = Config!Unset /\ m["proxy.system"] = Config!Unset
      BY <1>3, <2>1, <2>2, <2>5 DEF Config!WithProxyRule
    <2> QED BY <2>3, <2>4, <2>5
  <1>5. Config!Loaded = [is |-> "layer", set |-> w]
    BY DEF Config!Loaded, Config!FromDict, m
  <1> HIDE DEF w
  <1> QED BY <1>3, <1>4, <1>5 DEF ConfigRead, Config!Configs

\* What the flags make of a configuration.
LEMMA ConfigFlags ==
    ASSUME ConfigParameters, ConfigInv, NEW c, ConfigRead(c)
    PROVE  LET r == Config!Overridden(c, options)
           IN  ConfigRead(r) /\ ConfigAbove(r.set, c.set) /\ ConfigAsked(r.set)
  <1> DEFINE d == [c.set EXCEPT
                 !["model"] = IF options["model"] # Config!Unset THEN options["model"] ELSE @,
                 !["max_tokens"] = IF options["max_tokens"] # Config!Unset THEN options["max_tokens"] ELSE @,
                 !["mcp_paths"] = IF options["mcp_paths"] # Config!Unset THEN options["mcp_paths"] ELSE @]
             p == Config!PromptFlags(d, options)
             r == Config!Overridden(c, options)
  <1>1. /\ options \in [Config!Keys -> Config!Values]
        /\ options["mode"] \in {Config!Unset, "replace", "append"}
        /\ options["content"] \in {Config!Unset, "flag"} /\ options["path"] \in {Config!Unset, "flag"}
        /\ \A k \in {"proxy.disabled", "proxy.system", "proxy.http"} : options[k] = Config!Unset
    BY DEF ConfigParameters, ConfigInv
  <1>2. c.set \in [Config!Keys -> Config!Values] /\ c.is = "layer"
    BY DEF ConfigRead, Config!Configs
  <1>3. /\ d \in [Config!Keys -> Config!Values]
        /\ \A k \in {"model", "max_tokens", "mcp_paths"} :
              d[k] = IF options[k] # Config!Unset THEN options[k] ELSE c.set[k]
        /\ \A k \in {"proxy.disabled", "proxy.system", "proxy.http", "mode", "content", "path"} :
              d[k] = c.set[k]
    BY <1>1, <1>2 DEF Config!Keys
  <1> HIDE DEF d
  <1>4. /\ p \in [Config!Keys -> Config!Values]
        /\ \A k \in Config!Keys \ {"mode", "content", "path"} : p[k] = d[k]
        /\ p["mode"] = IF options["mode"] # Config!Unset THEN options["mode"]
                       ELSE IF options["content"] # Config!Unset \/ options["path"] # Config!Unset
                            THEN "replace" ELSE d["mode"]
        /\ p["content"] = IF options["path"] # Config!Unset THEN Config!Unset
                          ELSE IF options["content"] # Config!Unset THEN options["content"] ELSE d["content"]
        /\ p["path"] = IF options["content"] # Config!Unset \/ options["path"] # Config!Unset
                       THEN options["path"] ELSE d["path"]
    BY <1>1, <1>3 DEF Config!PromptFlags, Config!Keys, Config!Values, Config!Unset
  <1>5. r = [is |-> "layer", set |-> p]
    BY DEF Config!Overridden, d
  <1> HIDE DEF p, r
  <1>6. r.set = p /\ r \in Config!Configs
    BY <1>4, <1>5 DEF Config!Configs
  <1>7. ConfigRead(r)
    BY <1>1, <1>3, <1>4, <1>6 DEF ConfigRead, Config!Keys
  <1>8. ConfigAbove(r.set, c.set)
    BY <1>1, <1>3, <1>4, <1>6 DEF ConfigAbove, Config!Keys
  <1>9. ConfigAsked(r.set)
    BY <1>1, <1>3, <1>4, <1>6 DEF ConfigAsked, Config!Keys
  <1> QED BY <1>7, <1>8, <1>9 DEF r

LEMMA ConfigHolds ==
    ASSUME ConfigParameters, ConfigInv
    PROVE  Config!TypeOK /\ Config!FlagsWin /\ Config!PromptAsAsked /\ Config!ProxyAsAsked
  <1>1. /\ options \in [Config!Keys -> Config!Values]
        /\ options["mode"] \in {Config!Unset, "replace", "append"}
        /\ options["content"] \in {Config!Unset, "flag"} /\ options["path"] \in {Config!Unset, "flag"}
        /\ \A k \in {"proxy.disabled", "proxy.system", "proxy.http"} : options[k] = Config!Unset
    BY DEF ConfigParameters, ConfigInv
  <1>2. ASSUME agent # Config!NoAgent
        PROVE  /\ agent.config.set \in [Config!Keys -> Config!Values]
               /\ agent.config.set["mode"] \in {Config!Unset, "replace", "append"}
               /\ agent.prompt = Config!PromptOf(agent.config.set)
               /\ agent.proxy = Config!ProxyOf(agent.config.set) /\ agent.is = "agent"
               /\ ConfigAgent /\ ConfigRead(agent.config)
    BY <1>2 DEF ConfigInv, ConfigAgent, ConfigRead, Config!Configs
  <1>3. Config!TypeOK
    <2>1. ASSUME agent # Config!NoAgent
          PROVE  /\ agent.prompt \in [mode : {"none", "replace", "append"}, text : {"none"} \union Config!Values]
                 /\ agent.proxy \in [trust_env : {"default", "yes", "no"},
                                     proxy : {"default", "none"} \union Config!Values]
      <3> DEFINE c == agent.config.set
      <3>1. c["path"] \in Config!Values /\ c["content"] \in Config!Values /\ c["proxy.http"] \in Config!Values
        BY <1>2, <2>1 DEF Config!Keys
      <3>2. Config!PromptOf(c) \in [mode : {"none", "replace", "append"}, text : {"none"} \union Config!Values]
        BY <1>2, <2>1, <3>1 DEF Config!PromptOf, Config!NoPrompt
      <3>3. Config!ProxyOf(c) \in [trust_env : {"default", "yes", "no"},
                                   proxy : {"default", "none"} \union Config!Values]
        <4>1. CASE c["proxy.disabled"] # Config!Unset
          BY <4>1 DEF Config!ProxyOf
        <4>2. CASE c["proxy.disabled"] = Config!Unset /\ c["proxy.system"] # Config!Unset
          BY <3>1, <4>2 DEF Config!ProxyOf
        <4>3. CASE /\ c["proxy.disabled"] = Config!Unset /\ c["proxy.system"] = Config!Unset
                   /\ c["proxy.http"] # Config!Unset
          BY <3>1, <4>3 DEF Config!ProxyOf
        <4>4. CASE /\ c["proxy.disabled"] = Config!Unset /\ c["proxy.system"] = Config!Unset
                   /\ c["proxy.http"] = Config!Unset
          BY <4>4 DEF Config!ProxyOf
        <4> QED BY <4>1, <4>2, <4>3, <4>4
      <3> QED BY <1>2, <2>1, <3>2, <3>3
    <2> QED BY <1>2, <2>1 DEF ConfigInv, ConfigRead, ConfigAgent, Config!TypeOK
  <1>4. Config!FlagsWin
    <2>1. ASSUME runtime # Config!NoConfig, NEW k \in Config!Keys
          PROVE  /\ options[k] # Config!Unset =>
                       (k = "content" /\ options["path"] # Config!Unset) \/ runtime.set[k] = options[k]
                 /\ options[k] = Config!Unset /\ k \notin {"mode", "content", "path"} =>
                       runtime.set[k] = provider.set[k]
      <3>1. ConfigAbove(runtime.set, provider.set)
        BY <2>1 DEF ConfigInv
      <3> QED BY <1>1, <2>1, <3>1 DEF ConfigAbove, Config!Keys
    <2>2. ASSUME agent # Config!NoAgent
          PROVE  \A k \in {"model", "max_tokens", "mcp_paths"} :
                     options[k] # Config!Unset => Config!ConfigGet(k) = options[k]
      BY <1>2, <2>2 DEF ConfigAgent, ConfigAsked, Config!ConfigGet
    <2> QED BY <2>1, <2>2 DEF Config!FlagsWin
  <1>5. Config!PromptAsAsked
    <2> SUFFICES ASSUME agent # Config!NoAgent
                 PROVE  LET c == agent.config.set
                            given == options["content"] # Config!Unset \/ options["path"] # Config!Unset
                        IN  /\ given => agent.prompt =
                                  [mode |-> IF options["mode"] # Config!Unset THEN options["mode"] ELSE "replace",
                                   text |-> "flag"]
                            /\ ~given => agent.prompt.text \in {"none", c["content"], c["path"]}
                            /\ c["content"] = Config!Unset \/ c["path"] = Config!Unset
      BY DEF Config!PromptAsAsked
    <2> DEFINE c == agent.config.set
               given == options["content"] # Config!Unset \/ options["path"] # Config!Unset
    <2>1. c["content"] = Config!Unset \/ c["path"] = Config!Unset
      BY <1>2 DEF ConfigAgent, Config!PromptAccepted
    <2>2. given => /\ c["content"] # Config!Unset \/ c["path"] # Config!Unset
                   /\ c["content"] \in {Config!Unset, "flag"} /\ c["path"] \in {Config!Unset, "flag"}
                   /\ c["mode"] = IF options["mode"] # Config!Unset THEN options["mode"] ELSE "replace"
      BY <1>2 DEF ConfigAgent, ConfigAsked
    <2>3. agent.prompt = Config!PromptOf(c)
      BY <1>2
    <2>4. given => c["mode"] # Config!Unset
      BY <2>2 DEF Config!Unset
    <2> HIDE DEF c
    <2>5. given => Config!PromptOf(c) =
              [mode |-> IF options["mode"] # Config!Unset THEN options["mode"] ELSE "replace", text |-> "flag"]
      BY <2>2, <2>4 DEF Config!PromptOf
    <2>6. Config!PromptOf(c).text \in {"none", c["content"], c["path"]}
      BY DEF Config!PromptOf, Config!NoPrompt
    <2> QED BY <2>1, <2>3, <2>5, <2>6 DEF c
  <1>6. Config!ProxyAsAsked
    <2> SUFFICES ASSUME agent # Config!NoAgent
                 PROVE  LET c == agent.config.set
                        IN  /\ c["proxy.disabled"] # Config!Unset =>
                                  agent.proxy = [trust_env |-> "no", proxy |-> "none"]
                            /\ agent.proxy.trust_env = "yes" => agent.proxy.proxy = "default"
      BY DEF Config!ProxyAsAsked
    <2> DEFINE c == agent.config.set
    <2>1. c["proxy.system"] # Config!Unset => c["proxy.http"] = Config!Unset
      BY <1>2 DEF ConfigRead
    <2>2. agent.proxy = Config!ProxyOf(c)
      BY <1>2
    <2> HIDE DEF c
    <2>3. CASE c["proxy.disabled"] # Config!Unset
      BY <2>2, <2>3 DEF Config!ProxyOf, c
    <2>4. CASE c["proxy.disabled"] = Config!Unset /\ c["proxy.system"] # Config!Unset
      BY <2>1, <2>2, <2>4 DEF Config!ProxyOf, c
    <2>5. CASE /\ c["proxy.disabled"] = Config!Unset /\ c["proxy.system"] = Config!Unset
               /\ c["proxy.http"] # Config!Unset
      BY <2>2, <2>5 DEF Config!ProxyOf, c
    <2>6. CASE /\ c["proxy.disabled"] = Config!Unset /\ c["proxy.system"] = Config!Unset
               /\ c["proxy.http"] = Config!Unset
      BY <2>2, <2>6 DEF Config!ProxyOf, c
    <2> QED BY <2>3, <2>4, <2>5, <2>6
  <1> QED BY <1>3, <1>4, <1>5, <1>6

LEMMA ConfigInit == ASSUME Config!Init PROVE ConfigInv
  BY DEF Config!Init, ConfigInv

\* The configuration is taken over, and the agent is a new one or keeps what it was
\* built from.
LEMMA ConfigTaken ==
    ASSUME ConfigParameters, ConfigInv, Config!Loads, provider' = Config!Loaded,
           runtime' = Config!Overridden(Config!Loaded, options), UNCHANGED <<user, workspace, options>>,
           ConfigAgent'
    PROVE  ConfigInv'
  <1>1. ConfigRead(Config!Loaded)
    BY ConfigLoaded
  <1> DEFINE d == Config!Loaded
             r == Config!Overridden(d, options)
  <1>2. ConfigRead(r) /\ ConfigAbove(r.set, d.set)
    BY <1>1, ConfigFlags
  <1>3. provider' = d /\ runtime' = r
    OBVIOUS
  <1> HIDE DEF r, d
  <1>4. ConfigRead(runtime') /\ ConfigRead(provider') /\ ConfigAbove(runtime'.set, provider'.set)
    BY <1>1, <1>2, <1>3 DEF d
  <1>5. ConfigRead(runtime)' /\ ConfigRead(provider)' /\ ConfigAbove(runtime.set, provider.set)'
    BY <1>4 DEF ConfigRead, ConfigAbove
  <1> QED BY <1>5 DEF ConfigInv

\* Of an agent that runs only the servers change.
LEMMA ConfigKept ==
    ASSUME ConfigInv, agent # Config!NoAgent, NEW servers \in Seq(Config!Servers),
           agent' = agent \/ agent' = [agent EXCEPT !.servers = servers], options' = options
    PROVE  ConfigAgent'
  <1>1. ConfigAgent
    BY DEF ConfigInv
  <1>2. agent'.config = agent.config /\ agent'.servers \in Seq(Config!Servers)
    BY <1>1 DEF ConfigAgent
  <1>3. agent' = [is |-> "agent", config |-> agent.config, prompt |-> Config!PromptOf(agent.config.set),
                  proxy |-> Config!ProxyOf(agent.config.set), servers |-> agent'.servers]
    BY <1>1 DEF ConfigAgent
  <1>4. ConfigRead(agent.config)' /\ Config!PromptAccepted(agent.config.set)' /\ ConfigAsked(agent.config.set)'
    BY <1>1, <1>2 DEF ConfigAgent, ConfigRead, ConfigAsked, Config!PromptAccepted
  <1>5. (agent = [is |-> "agent", config |-> agent.config, prompt |-> Config!PromptOf(agent.config.set),
                  proxy |-> Config!ProxyOf(agent.config.set), servers |-> agent.servers])'
    BY <1>2, <1>3
  <1> QED BY <1>2, <1>4, <1>5 DEF ConfigAgent

LEMMA ConfigStart ==
    ASSUME ConfigParameters, ConfigInv, NEW servers \in Seq(Config!Servers), Config!Start(servers)
    PROVE  ConfigInv'
  <1> DEFINE r == Config!Overridden(Config!Loaded, options)
  <1>1. /\ Config!Loads /\ Config!PromptAccepted(r.set) /\ provider' = Config!Loaded /\ runtime' = r
        /\ agent' = [is |-> "agent", config |-> r, prompt |-> Config!PromptOf(r.set),
                     proxy |-> Config!ProxyOf(r.set), servers |-> servers]
        /\ UNCHANGED <<user, workspace, options>>
    BY DEF Config!Start
  <1>2. ConfigRead(r) /\ ConfigAsked(r.set)
    BY <1>1, ConfigLoaded, ConfigFlags
  <1>3. ConfigAgent'
    <2> HIDE DEF r
    <2>1. agent'.config = r /\ agent'.servers = servers
      BY <1>1
    <2>2. ConfigRead(agent.config)' /\ Config!PromptAccepted(agent.config.set)' /\ ConfigAsked(agent.config.set)'
      BY <1>1, <1>2, <2>1 DEF ConfigRead, ConfigAsked, Config!PromptAccepted
    <2>3. (agent = [is |-> "agent", config |-> agent.config, prompt |-> Config!PromptOf(agent.config.set),
                    proxy |-> Config!ProxyOf(agent.config.set), servers |-> agent.servers])'
      BY <1>1, <2>1
    <2> QED BY <2>1, <2>2, <2>3 DEF ConfigAgent
  <1> QED BY <1>1, <1>3, ConfigTaken

LEMMA ConfigStep == ASSUME ConfigParameters, ConfigInv, [Config!Next]_Config!vars PROVE ConfigInv'
  <1>1. ASSUME NEW servers \in Config!SeqOf(Config!Servers, Config!Cardinality(Config!Servers)),
               Config!Start(servers) \/ Config!Reload(servers) \/ Config!ReloadPaths(servers)
        PROVE  ConfigInv'
    <2>1. servers \in Seq(Config!Servers)
      BY DEF Config!SeqOf
    <2>2. CASE Config!Start(servers)
      BY <2>1, <2>2, ConfigStart
    <2>3. CASE Config!Reload(servers)
      <3>1. /\ Config!Loads /\ provider' = Config!Loaded /\ agent # Config!NoAgent
            /\ runtime' = Config!Overridden(Config!Loaded, options)
            /\ agent' = agent \/ agent' = [agent EXCEPT !.servers = servers]
            /\ UNCHANGED <<user, workspace, options>>
        BY <2>3 DEF Config!Reload
      <3> QED BY <2>1, <3>1, ConfigKept, ConfigTaken
    <2>4. CASE Config!ReloadPaths(servers)
      <3>1. /\ agent # Config!NoAgent /\ agent' = [agent EXCEPT !.servers = servers]
            /\ UNCHANGED <<user, workspace, options, provider, runtime>>
        BY <2>4 DEF Config!ReloadPaths
      <3>2. ConfigAgent'
        BY <2>1, <3>1, ConfigKept
      <3> QED BY <3>1, <3>2 DEF ConfigInv, ConfigRead, ConfigAbove
    <2> QED BY <1>1, <2>2, <2>3, <2>4
  <1>2. CASE Config!Exit
    BY <1>2 DEF Config!Exit, ConfigInv
  <1>3. CASE Config!UserEdits \/ UNCHANGED Config!vars
    <2>1. /\ UNCHANGED <<options, provider, runtime, agent>>
          /\ user' \in UserFiles /\ workspace' \in WorkspaceFiles
      BY <1>3 DEF Config!UserEdits, Config!vars, ConfigInv
    <2>2. ConfigAgent => ConfigAgent'
      BY <2>1 DEF ConfigAgent, ConfigRead, ConfigAsked, Config!PromptOf, Config!ProxyOf, Config!PromptAccepted
    <2> QED BY <2>1, <2>2 DEF ConfigInv, ConfigRead, ConfigAbove
  <1> QED BY <1>1, <1>2, <1>3 DEF Config!Next

\* The flags are above both files, at the start and after every reload, the prompt is
\* that of the highest source that names one, and a disabled proxy stays out, for any
\* files, flags and edits of them (FileConfigProvider, bootstrap, http client options).
THEOREM FlagsStayAbove ==
    ASSUME ConfigParameters
    PROVE  Config!Spec => [](/\ Config!TypeOK /\ Config!FlagsWin
                             /\ Config!PromptAsAsked /\ Config!ProxyAsAsked)
  <1>1. Config!Init => ConfigInv
    BY ConfigInit
  <1>2. ConfigInv /\ [Config!Next]_Config!vars => ConfigInv'
    BY ConfigStep
  <1>3. ConfigInv => /\ Config!TypeOK /\ Config!FlagsWin /\ Config!PromptAsAsked /\ Config!ProxyAsAsked
    BY ConfigHolds
  <1> QED BY <1>1, <1>2, <1>3, PTL DEF Config!Spec

-----------------------------------------------------------------------------
(* AgentBuilder.                                                             *)

\* There is a configuration, servers and managed hooks are sequences, and every hook has
\* a priority in each configuration.
Transport == "agent_event_transport"
BuilderParameters ==
    /\ Len(Configs) \in Nat \ {0} /\ DOMAIN Configs = 1..Len(Configs)
    /\ ServerTools \in Seq({ServerTools[i] : i \in DOMAIN ServerTools})
    /\ ManagedHooks \in Seq({ManagedHooks[i] : i \in DOMAIN ManagedHooks})
    /\ \A c \in DOMAIN Configs :
          \A h \in {ManagedHooks[i] : i \in DOMAIN ManagedHooks} \union OwnHooks \union {Transport} :
              Configs[c].priority[h] \in Int

\* The builder, the registries and what they hold.
BuilderNames ==
    OwnTools \union {ServerTools[i] : i \in DOMAIN ServerTools}
        \union {"search_skill", "knowledge_get", "ask_user", "manage_context"}
BuilderObjects == [by : {"program", "build"}, of : Nat]
BuilderBooks == UNION {[D -> [object : BuilderObjects, enabled : BOOLEAN]] : D \in SUBSET BuilderNames}
BuilderFields ==
    /\ builder \in [kind : AgentKinds, config : 0..Len(Configs), registry : 0..Len(registries),
                    tools : Seq(OwnTools), hooks : Seq(OwnHooks),
                    slots : [Slots -> [by : {"none", "program", "config"}, of : Nat]],
                    channel : BOOLEAN, skills : BOOLEAN]
    /\ source \in DOMAIN Configs
    /\ registries \in Seq(BuilderBooks)

\* What the program added is registered as its own, and stays enabled.
BuilderHas(t) == \E i \in 1..Len(builder.tools) : builder.tools[i] = t
BuilderTrusted(b) ==
    \A t \in DOMAIN b : b[t].object.by = "program" =>
        b[t].object = Builder!Part("program", 0) /\ b[t].enabled = TRUE /\ BuilderHas(t)

\* An agent has the parts, the tools and the hooks it was asked for.
BuilderParts(a) ==
    \A s \in Slots : a.asked[s].by = "program" =>
        a.asked[s] = IF s \in DOMAIN a.context.parts THEN a.context.parts[s] ELSE a.slots[s]
BuilderTools(a) ==
    \A t \in a.tools : /\ t \in DOMAIN registries[a.registry]
                       /\ registries[a.registry][t].object = Builder!Part("program", 0)
BuilderInTurn(h) ==
    \A i, j \in DOMAIN h : i < j => /\ h[i].name # h[j].name
                                    /\ h[i].rank <= h[j].rank
                                    /\ \/ h[i].rank < h[j].rank
                                       \/ h[i].priority <= h[j].priority
BuilderHooks(a) ==
    builder.kind = "dare" =>
        /\ {a.hooks[i].name : i \in DOMAIN a.hooks} \ {Transport}
              = (Builder!Range(Builder!Managed(a.config)) \union a.added) \ {Transport}
        /\ BuilderInTurn(a.hooks)
        /\ builder.channel => \E i \in DOMAIN a.hooks : a.hooks[i].name = Transport

\* The inductive invariant: what was built is as asked, and the registries guard what
\* the program put into them against the builds to come.
BuilderMade(i) ==
    \/ builds[i] = Builder!NoAgent
    \/ /\ builds[i].built = i /\ builds[i].registry \in 1..Len(registries)
       /\ BuilderParts(builds[i]) /\ BuilderTools(builds[i]) /\ BuilderHooks(builds[i])
BuilderInv ==
    /\ BuilderFields
    /\ \A i \in 1..Len(registries) : BuilderTrusted(registries[i])
    /\ builds \in Seq({builds[i] : i \in 1..Len(builds)})
    /\ \A i \in 1..Len(builds) : BuilderMade(i)

\* A function on the places of a sequence has finitely many values.
LEMMA BuilderFinite ==
    ASSUME NEW n \in Nat, NEW S, NEW f \in [1..n -> S], \A x \in S : \E i \in 1..n : f[i] = x
    PROVE  IsFiniteSet(S)
  <1>1. f \in Surjection(1..n, S)
    BY DEF Surjection
  <1>2. IsFiniteSet(1..n)
    BY FS_Interval
  <1> QED BY <1>1, <1>2, FS_Surjection

-----------------------------------------------------------------------------
(* The hooks.                                                                *)

LEMMA BuilderListings ==
    /\ \A S, R : Builder!InOrder(S, R) = InOrder(S, R)
    /\ \A s, P : Builder!Taken(s, P) = Taken(s, P)
  <1>1. \A S, R : Builder!InOrder(S, R) = InOrder(S, R)
    BY Zenon DEF Builder!InOrder, InOrder, Builder!Cardinality, Cardinality, Builder!IsFiniteSet,
       IsFiniteSet
  <1>2. \A P : Builder!Places(P) = Places(P)
    BY <1>1, Zenon DEF Builder!Places, Places
  <1> QED BY <1>1, <1>2, Zenon DEF Builder!Taken, Taken

LEMMA BuilderManaged ==
    ASSUME BuilderParameters, NEW c \in DOMAIN Configs
    PROVE  Builder!Managed(c) \in Seq({ManagedHooks[i] : i \in DOMAIN ManagedHooks})
  <1> DEFINE S == {ManagedHooks[i] : i \in DOMAIN ManagedHooks}
             P == {i \in DOMAIN ManagedHooks : ManagedHooks[i] \notin Configs[c].hooksOff}
  <1>1. ManagedHooks \in Seq(S) /\ P \in SUBSET (1..Len(ManagedHooks))
    BY DEF BuilderParameters
  <1>2. Builder!Managed(c) = Taken(ManagedHooks, P)
    BY BuilderListings DEF Builder!Managed
  <1> HIDE DEF S, P
  <1>3. Taken(ManagedHooks, P) \in Seq(S)
    BY <1>1, Taking
  <1> QED BY <1>2, <1>3 DEF S

\* Each source of hooks is numbered, and its hooks have priorities.
LEMMA BuilderGroup ==
    ASSUME BuilderParameters, NEW c \in DOMAIN Configs, NEW rank \in 0..2,
           NEW names, Len(names) \in Nat, DOMAIN names = 1..Len(names),
           \A i \in 1..Len(names) : names[i] \in {ManagedHooks[j] : j \in DOMAIN ManagedHooks}
                                                  \union OwnHooks \union {Transport}
    PROVE  LET G == Builder!Group(rank, names, c)
           IN  /\ IsFiniteSet(G)
               /\ \A a \in G : a.rank = rank /\ a.priority \in Int /\ a.at \in Nat
               /\ \A a, b \in G : a.at = b.at => a = b
               /\ {a.name : a \in G} = {names[i] : i \in 1..Len(names)}
  <1> DEFINE rec(i) == [rank |-> rank, name |-> names[i],
                        priority |-> Configs[c].priority[names[i]], at |-> i]
             G == {rec(i) : i \in 1..Len(names)}
             f == [i \in 1..Len(names) |-> rec(i)]
  <1>1. Builder!Group(rank, names, c) = G
    BY DEF Builder!Group
  <1>2. f \in [1..Len(names) -> G] /\ \A x \in G : \E i \in 1..Len(names) : f[i] = x
    OBVIOUS
  <1>3. IsFiniteSet(G)
    <2> HIDE DEF G, f
    <2> QED BY <1>2, BuilderFinite
  <1>4. \A a \in G : a.rank = rank /\ a.priority \in Int /\ a.at \in Nat
    BY DEF BuilderParameters
  <1>5. \A a, b \in G : a.at = b.at => a = b
    OBVIOUS
  <1>6. {a.name : a \in G} = {names[i] : i \in 1..Len(names)}
    <2>1. ASSUME NEW a \in G PROVE a.name \in {names[i] : i \in 1..Len(names)}
      OBVIOUS
    <2>2. ASSUME NEW i \in 1..Len(names) PROVE names[i] \in {a.name : a \in G}
      <3>1. rec(i) \in G /\ rec(i).name = names[i]
        OBVIOUS
      <3> HIDE DEF G, rec
      <3> QED BY <3>1
    <2> HIDE DEF G
    <2> QED BY <2>1, <2>2
  <1> QED BY <1>1, <1>3, <1>4, <1>5, <1>6

\* Source, priority and place put distinct candidates in an order.
BuilderCandidates(C) ==
    /\ IsFiniteSet(C)
    /\ \A a \in C : a.rank \in 0..2 /\ a.priority \in Int /\ a.at \in Nat
    /\ \A a, b \in C : a.rank = b.rank /\ a.at = b.at => a = b

LEMMA BuilderOrders ==
    ASSUME NEW C, BuilderCandidates(C)
    PROVE  /\ Orders(Builder!InTurn(C), C)
           /\ \A a, b \in C : <<a, b>> \in Builder!InTurn(C) <=> Builder!Before(a, b)
           /\ \A a, b \in C : ~(Builder!Before(a, b) /\ Builder!Before(b, a))
           /\ \A a, b \in C : a # b => Builder!Before(a, b) \/ Builder!Before(b, a)
  <1>1. \A a, b \in C : <<a, b>> \in Builder!InTurn(C) <=> Builder!Before(a, b)
    BY DEF Builder!InTurn
  <1>2. \A a \in C : ~Builder!Before(a, a)
    BY DEF BuilderCandidates, Builder!Before
  <1>3. \A a, b \in C : ~(Builder!Before(a, b) /\ Builder!Before(b, a))
    BY DEF BuilderCandidates, Builder!Before
  <1>4. \A a, b \in C : a # b => Builder!Before(a, b) \/ Builder!Before(b, a)
    BY DEF BuilderCandidates, Builder!Before
  <1>5. ASSUME NEW a \in C, NEW b \in C, NEW d \in C, Builder!Before(a, b), Builder!Before(b, d)
        PROVE  Builder!Before(a, d)
    <2>1. /\ a.rank \in Int /\ b.rank \in Int /\ d.rank \in Int
          /\ a.priority \in Int /\ b.priority \in Int /\ d.priority \in Int
          /\ a.at \in Int /\ b.at \in Int /\ d.at \in Int
      BY DEF BuilderCandidates
    <2> QED BY <1>5, <2>1 DEF Builder!Before
  <1> QED BY <1>1, <1>2, <1>3, <1>4, <1>5 DEF Orders

\* Of the candidates of one name there is a first one.
LEMMA BuilderFirst ==
    ASSUME NEW C, BuilderCandidates(C)
    PROVE  LET F == Builder!FirstOf(C)
           IN  /\ F \subseteq C /\ BuilderCandidates(F)
               /\ {a.name : a \in F} = {a.name : a \in C}
               /\ \A a, b \in F : a.name = b.name => a = b
  <1> DEFINE F == Builder!FirstOf(C)
  <1>1. F = {a \in C : \A b \in C : Builder!Before(b, a) => a.name # b.name}
    BY DEF Builder!FirstOf
  <1>2. F \subseteq C /\ BuilderCandidates(F)
    <2>1. F \subseteq C
      BY <1>1
    <2>2. IsFiniteSet(F)
      <3> HIDE DEF F
      <3> QED BY <2>1, FS_Subset DEF BuilderCandidates
    <2> HIDE DEF F
    <2> QED BY <2>1, <2>2 DEF BuilderCandidates
  <1>3. ASSUME NEW a \in F, NEW b \in F, a.name = b.name PROVE a = b
    BY <1>1, <1>3, BuilderOrders
  <1>4. ASSUME NEW c \in C PROVE \E a \in F : a.name = c.name
    <2> DEFINE T == {b \in C : b.name = c.name}
               L == InOrder(T, Builder!InTurn(T))
    <2>1. T \subseteq C /\ c \in T
      OBVIOUS
    <2>2. BuilderCandidates(T)
      <3>1. IsFiniteSet(T)
        <4> HIDE DEF T
        <4> QED BY <2>1, FS_Subset DEF BuilderCandidates
      <3> HIDE DEF T
      <3> QED BY <2>1, <3>1 DEF BuilderCandidates
    <2> HIDE DEF T
    <2>3. Orders(Builder!InTurn(T), T) /\ IsFiniteSet(T)
      BY <2>2, BuilderOrders DEF BuilderCandidates
    <2>4. /\ Cardinality(T) \in Nat /\ L \in [1..Cardinality(T) -> T]
          /\ \A x \in T : \E k \in 1..Cardinality(T) : L[k] = x
          /\ \A j, k \in 1..Cardinality(T) : j < k => <<L[j], L[k]>> \in Builder!InTurn(T)
      BY <2>3, Listing
    <2> HIDE DEF L
    <2>5. 1 \in 1..Cardinality(T)
      BY <2>1, <2>4
    <2>6. L[1] \in T
      BY <2>4, <2>5
    <2>7. ASSUME NEW b \in T, Builder!Before(b, L[1]) PROVE FALSE
      <3>1. PICK k \in 1..Cardinality(T) : L[k] = b
        BY <2>4
      <3>2. CASE k = 1
        BY <2>2, <2>6, <2>7, <3>1, <3>2, BuilderOrders
      <3>3. CASE 1 < k
        <4>1. <<L[1], b>> \in Builder!InTurn(T)
          BY <2>4, <2>5, <3>1, <3>3
        <4> QED BY <2>2, <2>6, <2>7, <4>1, BuilderOrders
      <3> QED BY <2>4, <3>2, <3>3
    <2>8. L[1] \in F /\ L[1].name = c.name
      BY <1>1, <2>6, <2>7 DEF T
    <2> QED BY <2>8
  <1>5. {a.name : a \in F} = {a.name : a \in C}
    <2> HIDE DEF F
    <2> QED BY <1>2, <1>4
  <1> QED BY <1>2, <1>3, <1>5

\* What is listed of the candidates.
LEMMA BuilderListed ==
    ASSUME NEW C, BuilderCandidates(C),
           NEW h, h = InOrder(Builder!FirstOf(C), Builder!InTurn(Builder!FirstOf(C)))
    PROVE  BuilderInTurn(h) /\ {h[i].name : i \in DOMAIN h} = {a.name : a \in C}
  <1> DEFINE F == Builder!FirstOf(C)
  <1>1. /\ F \subseteq C /\ BuilderCandidates(F)
        /\ {a.name : a \in F} = {a.name : a \in C}
        /\ \A a, b \in F : a.name = b.name => a = b
    BY BuilderFirst
  <1>2. h = InOrder(F, Builder!InTurn(F))
    OBVIOUS
  <1> HIDE DEF F
  <1>3. Orders(Builder!InTurn(F), F) /\ IsFiniteSet(F)
    BY <1>1, BuilderOrders DEF BuilderCandidates
  <1> DEFINE n == Cardinality(F)
  <1>4. /\ n \in Nat /\ h \in [1..n -> F]
        /\ \A x \in F : \E k \in 1..n : h[k] = x
        /\ \A j, k \in 1..n : j < k => <<h[j], h[k]>> \in Builder!InTurn(F) /\ h[j] # h[k]
    BY <1>2, <1>3, Listing
  <1> HIDE DEF n
  <1>5. {h[i].name : i \in DOMAIN h} = {a.name : a \in F}
    BY <1>4
  <1>6. ASSUME NEW i \in DOMAIN h, NEW j \in DOMAIN h, i < j
        PROVE  /\ h[i].name # h[j].name /\ h[i].rank <= h[j].rank
               /\ h[i].rank < h[j].rank \/ h[i].priority <= h[j].priority
    <2>1. h[i] \in F /\ h[j] \in F /\ <<h[i], h[j]>> \in Builder!InTurn(F) /\ h[i] # h[j]
      BY <1>4, <1>6
    <2>2. Builder!Before(h[i], h[j])
      BY <1>1, <2>1, BuilderOrders
    <2>3. /\ h[i].rank \in Int /\ h[j].rank \in Int
          /\ h[i].priority \in Int /\ h[j].priority \in Int
      BY <1>1, <2>1 DEF BuilderCandidates
    <2> QED BY <1>1, <2>1, <2>2, <2>3 DEF Builder!Before
  <1> QED BY <1>1, <1>5, <1>6 DEF BuilderInTurn

\* The hooks of a build.
LEMMA BuilderResolves ==
    ASSUME BuilderParameters, BuilderFields, NEW c \in DOMAIN Configs, builder.kind = "dare",
           NEW h, h = Builder!HooksOf(c)
    PROVE  /\ {h[i].name : i \in DOMAIN h} \ {Transport}
                 = (Builder!Range(Builder!Managed(c)) \union Builder!Range(builder.hooks)) \ {Transport}
           /\ BuilderInTurn(h)
           /\ builder.channel => \E i \in DOMAIN h : h[i].name = Transport
  <1> DEFINE C0 == Builder!Group(0, Builder!System(c), c)
             C1 == Builder!Group(1, Builder!Managed(c), c)
             C2 == Builder!Group(2, builder.hooks, c)
             C == Builder!Candidates(c)
             N0 == {Builder!System(c)[i] : i \in 1..Len(Builder!System(c))}
             N1 == Builder!Range(Builder!Managed(c))
             N2 == Builder!Range(builder.hooks)
  <1>1. Builder!System(c) =
            IF builder.channel /\ Transport \notin N1 \union N2 THEN <<Transport>> ELSE <<>>
    BY DEF Builder!System, Transport
  <1>2. N0 = IF builder.channel /\ Transport \notin N1 \union N2 THEN {Transport} ELSE {}
    <2> HIDE DEF N1, N2
    <2> QED BY <1>1
  <1>3. /\ IsFiniteSet(C0) /\ (\A a \in C0 : a.rank = 0 /\ a.priority \in Int /\ a.at \in Nat)
        /\ (\A a, b \in C0 : a.at = b.at => a = b) /\ {a.name : a \in C0} = N0
    <2> DEFINE s == Builder!System(c)
    <2> HIDE DEF N1, N2
    <2>4. s = <<Transport>> \/ s = <<>>
      BY <1>1, Zenon
    <2> HIDE DEF s
    <2>1. /\ Len(s) \in Nat /\ DOMAIN s = 1..Len(s)
          /\ \A i \in 1..Len(s) : s[i] = Transport
      <3>1. ASSUME s = <<Transport>> PROVE Len(s) = 1 /\ DOMAIN s = 1..1 /\ s[1] = Transport
        BY <3>1
      <3>2. ASSUME s = <<>> PROVE Len(s) = 0 /\ DOMAIN s = 1..0
        BY <3>2
      <3> QED BY <2>4, <3>1, <3>2
    <2>2. 0 \in 0..2
      OBVIOUS
    <2>3. LET G == Builder!Group(0, s, c)
          IN  /\ IsFiniteSet(G)
              /\ \A a \in G : a.rank = 0 /\ a.priority \in Int /\ a.at \in Nat
              /\ \A a, b \in G : a.at = b.at => a = b
              /\ {a.name : a \in G} = {s[i] : i \in 1..Len(s)}
      BY <2>1, <2>2, BuilderGroup
    <2> QED BY <2>3 DEF s
  <1>4. /\ IsFiniteSet(C1) /\ (\A a \in C1 : a.rank = 1 /\ a.priority \in Int /\ a.at \in Nat)
        /\ (\A a, b \in C1 : a.at = b.at => a = b) /\ {a.name : a \in C1} = N1
    <2> DEFINE s == Builder!Managed(c)
    <2>1. s \in Seq({ManagedHooks[i] : i \in DOMAIN ManagedHooks})
      BY BuilderManaged
    <2> HIDE DEF s
    <2>2. /\ Len(s) \in Nat /\ DOMAIN s = 1..Len(s)
          /\ \A i \in 1..Len(s) : s[i] \in {ManagedHooks[j] : j \in DOMAIN ManagedHooks}
      BY <2>1
    <2>3. 1 \in 0..2
      OBVIOUS
    <2>4. LET G == Builder!Group(1, s, c)
          IN  /\ IsFiniteSet(G)
              /\ \A a \in G : a.rank = 1 /\ a.priority \in Int /\ a.at \in Nat
              /\ \A a, b \in G : a.at = b.at => a = b
              /\ {a.name : a \in G} = {s[i] : i \in 1..Len(s)}
      BY <2>2, <2>3, BuilderGroup
    <2>5. Builder!Range(s) = {s[i] : i \in 1..Len(s)}
      BY <2>2 DEF Builder!Range
    <2> QED BY <2>4, <2>5 DEF s
  <1>5. /\ IsFiniteSet(C2) /\ (\A a \in C2 : a.rank = 2 /\ a.priority \in Int /\ a.at \in Nat)
        /\ (\A a, b \in C2 : a.at = b.at => a = b) /\ {a.name : a \in C2} = N2
    <2> DEFINE s == builder.hooks
    <2>1. s \in Seq(OwnHooks)
      BY DEF BuilderFields
    <2> HIDE DEF s
    <2>2. Len(s) \in Nat /\ DOMAIN s = 1..Len(s) /\ \A i \in 1..Len(s) : s[i] \in OwnHooks
      BY <2>1
    <2>3. 2 \in 0..2
      OBVIOUS
    <2>4. LET G == Builder!Group(2, s, c)
          IN  /\ IsFiniteSet(G)
              /\ \A a \in G : a.rank = 2 /\ a.priority \in Int /\ a.at \in Nat
              /\ \A a, b \in G : a.at = b.at => a = b
              /\ {a.name : a \in G} = {s[i] : i \in 1..Len(s)}
      BY <2>2, <2>3, BuilderGroup
    <2>5. Builder!Range(s) = {s[i] : i \in 1..Len(s)}
      BY <2>2 DEF Builder!Range
    <2> QED BY <2>4, <2>5 DEF s
  <1>6. C = C0 \union C1 \union C2
    BY DEF Builder!Candidates
  <1>7. h = InOrder(Builder!FirstOf(C), Builder!InTurn(Builder!FirstOf(C)))
    BY BuilderListings DEF Builder!HooksOf
  <1> HIDE DEF C0, C1, C2, C, N0, N1, N2
  <1>8. BuilderCandidates(C)
    <2>1. IsFiniteSet(C)
      BY <1>3, <1>4, <1>5, <1>6, FS_Union
    <2>2. \A a \in C : a.rank \in 0..2 /\ a.priority \in Int /\ a.at \in Nat
      BY <1>3, <1>4, <1>5, <1>6
    <2>3. \A a, b \in C : a.rank = b.rank /\ a.at = b.at => a = b
      BY <1>3, <1>4, <1>5, <1>6
    <2> QED BY <2>1, <2>2, <2>3 DEF BuilderCandidates
  <1>9. {a.name : a \in C} = N0 \union N1 \union N2
    <2>1. {a.name : a \in C} = {a.name : a \in C0} \union {a.name : a \in C1} \union {a.name : a \in C2}
      BY <1>6
    <2> QED BY <1>3, <1>4, <1>5, <2>1
  <1>10. BuilderInTurn(h) /\ {h[i].name : i \in DOMAIN h} = N0 \union N1 \union N2
    BY <1>7, <1>8, <1>9, BuilderListed
  <1>11. builder.channel => \E i \in DOMAIN h : h[i].name = Transport
    BY <1>2, <1>10
  <1>12. {h[i].name : i \in DOMAIN h} \ {Transport} = (N1 \union N2) \ {Transport}
    BY <1>2, <1>10
  <1> QED BY <1>10, <1>11, <1>12 DEF N1, N2

-----------------------------------------------------------------------------
(* The tools.                                                                *)

\* What may be registered: what the program added under its name, and what is built.
BuilderToolSet ==
    {x \in [name : BuilderNames, object : BuilderObjects] :
        x.object.by = "program" => x.object = Builder!Part("program", 0) /\ BuilderHas(x.name)}

LEMMA BuilderMakes ==
    ASSUME NEW t \in BuilderNames, NEW n \in Nat
    PROVE  Builder!Made(t, n) \in BuilderToolSet /\ Builder!Made(t, n).object.by = "build"
  <1>1. Builder!Made(t, n) = [name |-> t, object |-> [by |-> "build", of |-> n]]
    BY DEF Builder!Made, Builder!Part
  <1> QED BY <1>1 DEF BuilderToolSet, BuilderObjects

LEMMA BuilderServes ==
    ASSUME BuilderParameters, NEW n \in Nat
    PROVE  Builder!Served(n) \in Seq(BuilderToolSet)
  <1>1. Len(ServerTools) \in Nat /\ DOMAIN ServerTools = 1..Len(ServerTools)
    BY DEF BuilderParameters
  <1>2. \A i \in 1..Len(ServerTools) : Builder!Made(ServerTools[i], n) \in BuilderToolSet
    <2> TAKE i \in 1..Len(ServerTools)
    <2>1. ServerTools[i] \in BuilderNames
      BY <1>1 DEF BuilderNames
    <2> QED BY <2>1, BuilderMakes
  <1>3. Builder!Served(n) = [i \in 1..Len(ServerTools) |-> Builder!Made(ServerTools[i], n)]
    BY <1>1 DEF Builder!Served
  <1> QED BY <1>1, <1>2, <1>3

\* The program's tools come first.
LEMMA BuilderBuilds ==
    ASSUME BuilderParameters, BuilderFields, NEW c \in DOMAIN Configs, NEW n \in Nat
    PROVE  /\ Builder!Built(c, n) \in Seq(BuilderToolSet)
           /\ \A i \in 1..Len(builder.tools) : /\ i \in 1..Len(Builder!Built(c, n))
                                               /\ Builder!Built(c, n)[i] = Builder!Own(builder.tools[i])
  <1> DEFINE names == Builder!Range(builder.tools)
             M(t) == IF t \in names THEN <<>> ELSE <<Builder!Made(t, n)>>
             p1 == [i \in DOMAIN builder.tools |-> Builder!Own(builder.tools[i])]
             p2 == IF builder.skills THEN M("search_skill") ELSE <<>>
             p3 == IF Configs[c].knowledge THEN <<Builder!Made("knowledge_get", n)>> ELSE <<>>
             p4 == M("ask_user")
             p5 == IF builder.kind = "smart" THEN M("manage_context") ELSE <<>>
             B == Builder!Built(c, n)
  <1>1. Len(builder.tools) \in Nat /\ DOMAIN builder.tools = 1..Len(builder.tools)
        /\ \A i \in 1..Len(builder.tools) : builder.tools[i] \in OwnTools
    BY DEF BuilderFields
  <1>2. p1 \in Seq(BuilderToolSet) /\ Len(p1) = Len(builder.tools)
        /\ \A i \in 1..Len(builder.tools) : p1[i] = Builder!Own(builder.tools[i])
    <2>1. ASSUME NEW i \in 1..Len(builder.tools) PROVE Builder!Own(builder.tools[i]) \in BuilderToolSet
      <3>1. builder.tools[i] \in BuilderNames /\ BuilderHas(builder.tools[i])
        BY <1>1 DEF BuilderNames, BuilderHas
      <3>2. Builder!Own(builder.tools[i]) = [name |-> builder.tools[i], object |-> Builder!Part("program", 0)]
        BY DEF Builder!Own
      <3>3. Builder!Part("program", 0) \in BuilderObjects
        BY DEF Builder!Part, BuilderObjects
      <3> QED BY <3>1, <3>2, <3>3 DEF BuilderToolSet
    <2> QED BY <1>1, <2>1
  <1>3. \A t \in {"search_skill", "knowledge_get", "ask_user", "manage_context"} :
            Builder!Made(t, n) \in BuilderToolSet
    <2> TAKE t \in {"search_skill", "knowledge_get", "ask_user", "manage_context"}
    <2>1. t \in BuilderNames
      BY DEF BuilderNames
    <2> QED BY <2>1, BuilderMakes
  <1>4. /\ p2 \in Seq(BuilderToolSet) /\ p3 \in Seq(BuilderToolSet)
        /\ p4 \in Seq(BuilderToolSet) /\ p5 \in Seq(BuilderToolSet)
    BY <1>3
  <1>5. B = p1 \o p2 \o p3 \o p4 \o p5
    BY DEF Builder!Built
  <1> HIDE DEF p1, p2, p3, p4, p5, B
  <1> DEFINE q2 == p1 \o p2
             q3 == q2 \o p3
             q4 == q3 \o p4
             q5 == q4 \o p5
  <1>6. q2 \in Seq(BuilderToolSet) /\ Len(q2) = Len(p1) + Len(p2)
        /\ \A i \in 1..Len(p1) : q2[i] = p1[i]
    BY <1>2, <1>4, Joined
  <1> HIDE DEF q2
  <1>7. q3 \in Seq(BuilderToolSet) /\ Len(q3) = Len(q2) + Len(p3)
        /\ \A i \in 1..Len(q2) : q3[i] = q2[i]
    BY <1>6, <1>4, Joined
  <1> HIDE DEF q3
  <1>8. q4 \in Seq(BuilderToolSet) /\ Len(q4) = Len(q3) + Len(p4)
        /\ \A i \in 1..Len(q3) : q4[i] = q3[i]
    BY <1>7, <1>4, Joined
  <1> HIDE DEF q4
  <1>9. q5 \in Seq(BuilderToolSet) /\ Len(q5) = Len(q4) + Len(p5)
        /\ \A i \in 1..Len(q4) : q5[i] = q4[i]
    BY <1>8, <1>4, Joined
  <1> HIDE DEF q5
  <1>10. B = q5
    BY <1>5 DEF q2, q3, q4, q5
  <1>11. /\ Len(p1) \in Nat /\ Len(p2) \in Nat /\ Len(p3) \in Nat /\ Len(p4) \in Nat /\ Len(p5) \in Nat
    BY <1>2, <1>4
  <1>12. ASSUME NEW i \in 1..Len(builder.tools)
         PROVE  i \in 1..Len(B) /\ B[i] = Builder!Own(builder.tools[i])
    <2>1. i \in 1..Len(p1) /\ i \in 1..Len(q2) /\ i \in 1..Len(q3) /\ i \in 1..Len(q4) /\ i \in 1..Len(q5)
      BY <1>1, <1>2, <1>6, <1>7, <1>8, <1>9, <1>11, SMTT(40)
    <2> QED BY <1>2, <1>6, <1>7, <1>8, <1>9, <1>10, <2>1, SMTT(40)
  <1> QED BY <1>9, <1>10, <1>12 DEF B

\* Registering adds names and changes none; without a clash everything is registered.
LEMMA BuilderRegisters ==
    ASSUME NEW b \in BuilderBooks, NEW tools \in Seq(BuilderToolSet)
    PROVE  LET g == Builder!Registered(b, tools)
           IN  /\ g \in BuilderBooks
               /\ \A t \in DOMAIN b : t \in DOMAIN g /\ g[t] = b[t]
               /\ \A t \in DOMAIN g \ DOMAIN b :
                     g[t].enabled = TRUE
                     /\ \E i \in 1..Len(tools) : tools[i].name = t /\ tools[i].object = g[t].object
               /\ Builder!Clashes(b, tools) = {} => \A i \in 1..Len(tools) :
                     tools[i].name \in DOMAIN g /\ g[tools[i].name].object = tools[i].object
  <1> DEFINE K == Builder!Clashes(b, tools)
             until == IF K = {} THEN Len(tools) ELSE Builder!Min(K) - 1
             fresh == {tools[i].name : i \in 1..until} \ DOMAIN b
             U == Builder!Range(SubSeq(tools, 1, until))
             pick(t) == CHOOSE x \in U : x.name = t
             g == Builder!Registered(b, tools)
  <1>1. Len(tools) \in Nat /\ DOMAIN tools = 1..Len(tools)
        /\ \A i \in 1..Len(tools) : tools[i] \in BuilderToolSet
    OBVIOUS
  <1>2. K \subseteq 1..Len(tools)
    BY <1>1 DEF Builder!Clashes
  <1>3. until \in 0..Len(tools) /\ (K = {} => until = Len(tools))
    <2>1. CASE K = {}
      BY <1>1, <2>1
    <2>2. CASE K # {}
      <3> HIDE DEF K
      <3>0. K \subseteq Nat
        BY <1>1, <1>2
      <3>1. \E x \in K : \A y \in K : x <= y
        BY <2>2, <3>0, LeastOf
      <3>2. Builder!Min(K) \in K
        BY <3>1 DEF Builder!Min
      <3>3. Builder!Min(K) \in 1..Len(tools)
        BY <1>2, <3>2
      <3>4. until = Builder!Min(K) - 1
        BY <2>2
      <3> DEFINE m == Builder!Min(K)
      <3> HIDE DEF m, until
      <3>5. m - 1 \in 0..Len(tools)
        BY <1>1, <3>3 DEF m
      <3> QED BY <2>2, <3>4, <3>5 DEF m
    <2> QED BY <2>1, <2>2
  <1>4. g = [t \in DOMAIN b \union fresh |->
                IF t \in DOMAIN b THEN b[t] ELSE [object |-> pick(t).object, enabled |-> TRUE]]
    BY DEF Builder!Registered
  <1> HIDE DEF K, until, g
  <1>5. U = {tools[i] : i \in 1..until}
    <2>1. /\ SubSeq(tools, 1, until) \in Seq(BuilderToolSet) /\ Len(SubSeq(tools, 1, until)) = until
          /\ \A i \in 1..until : SubSeq(tools, 1, until)[i] = tools[i]
      BY <1>3, Halves
    <2> DEFINE s == SubSeq(tools, 1, until)
    <2>2. DOMAIN s = 1..until
      BY <2>1
    <2> HIDE DEF s
    <2>3. Builder!Range(s) = {tools[i] : i \in 1..until}
      BY <2>1, <2>2 DEF Builder!Range, s
    <2> QED BY <2>3 DEF s
  <1>6. \A t \in fresh : pick(t) \in U /\ pick(t).name = t
    BY <1>5
  <1> HIDE DEF U, pick
  <1>7. \A t \in fresh : \E i \in 1..until : tools[i].name = t /\ tools[i] = pick(t)
    BY <1>5, <1>6
  <1>8. \A i \in 1..until : i \in 1..Len(tools) /\ tools[i] \in BuilderToolSet
    <2>1. Len(tools) \in Nat /\ until \in 0..Len(tools)
      BY <1>1, <1>3
    <2>2. \A i \in 1..until : i \in 1..Len(tools)
      BY <2>1
    <2> QED BY <1>1, <2>2, SMTT(40)
  <1>9. fresh \subseteq BuilderNames
    BY <1>8 DEF BuilderToolSet
  <1>10. PICK D \in SUBSET BuilderNames : b \in [D -> [object : BuilderObjects, enabled : BOOLEAN]]
    BY DEF BuilderBooks
  <1>11. \A t \in fresh : pick(t).object \in BuilderObjects
    BY <1>7, <1>8 DEF BuilderToolSet
  <1> HIDE DEF fresh
  <1>12. g \in [D \union fresh -> [object : BuilderObjects, enabled : BOOLEAN]]
    BY <1>4, <1>10, <1>11
  <1>13. g \in BuilderBooks
    BY <1>9, <1>12 DEF BuilderBooks
  <1>14. \A t \in DOMAIN b : t \in DOMAIN g /\ g[t] = b[t]
    BY <1>4
  <1>15. ASSUME NEW t \in DOMAIN g \ DOMAIN b
         PROVE  /\ g[t].enabled = TRUE
                /\ \E i \in 1..Len(tools) : tools[i].name = t /\ tools[i].object = g[t].object
    <2>1. t \in fresh /\ g[t] = [object |-> pick(t).object, enabled |-> TRUE]
      BY <1>4, <1>15
    <2> QED BY <1>7, <1>8, <2>1
  <1>16. ASSUME K = {}, NEW i \in 1..Len(tools)
         PROVE  tools[i].name \in DOMAIN g /\ g[tools[i].name].object = tools[i].object
    <2>1. CASE tools[i].name \in DOMAIN b
      <3>1. b[tools[i].name].object = tools[i].object
        BY <1>1, <1>16, <2>1 DEF K, Builder!Clashes
      <3> QED BY <1>14, <2>1, <3>1
    <2>2. CASE tools[i].name \notin DOMAIN b
      <3>1. tools[i].name \in fresh
        BY <1>3, <1>16, <2>2 DEF fresh
      <3>2. PICK j \in 1..Len(tools) : tools[j].name = tools[i].name /\ tools[j] = pick(tools[i].name)
        BY <1>7, <1>8, <3>1
      <3>3. \A k, m \in 1..Len(tools) : k < m /\ tools[k].name = tools[m].name => tools[k].object = tools[m].object
        <4> SUFFICES ASSUME NEW k \in 1..Len(tools), NEW m \in 1..Len(tools), k < m,
                            tools[k].name = tools[m].name, tools[k].object # tools[m].object
                     PROVE  FALSE
          OBVIOUS
        <4>1. k \in 1..m - 1
          BY <1>1
        <4>2. m \in K
          BY <1>1, <4>1 DEF K, Builder!Clashes
        <4> QED BY <1>16, <4>2
      <3>4. tools[j].object = tools[i].object
        BY <1>1, <3>2, <3>3
      <3>5. g[tools[i].name] = [object |-> pick(tools[i].name).object, enabled |-> TRUE]
            /\ tools[i].name \in DOMAIN g
        BY <1>4, <2>2, <3>1
      <3> QED BY <3>2, <3>4, <3>5
    <2> QED BY <2>1, <2>2
  <1> QED BY <1>13, <1>14, <1>15, <1>16 DEF g, K

LEMMA BuilderTrusts ==
    ASSUME NEW b \in BuilderBooks, BuilderTrusted(b), NEW tools \in Seq(BuilderToolSet)
    PROVE  BuilderTrusted(Builder!Registered(b, tools))
  <1> DEFINE g == Builder!Registered(b, tools)
  <1>1. /\ \A t \in DOMAIN b : t \in DOMAIN g /\ g[t] = b[t]
        /\ \A t \in DOMAIN g \ DOMAIN b :
              g[t].enabled = TRUE
              /\ \E i \in 1..Len(tools) : tools[i].name = t /\ tools[i].object = g[t].object
    BY BuilderRegisters
  <1> HIDE DEF g
  <1>2. SUFFICES ASSUME NEW t \in DOMAIN g, g[t].object.by = "program"
                 PROVE  g[t].object = Builder!Part("program", 0) /\ g[t].enabled = TRUE /\ BuilderHas(t)
    BY DEF BuilderTrusted, g
  <1>3. CASE t \in DOMAIN b
    BY <1>1, <1>2, <1>3 DEF BuilderTrusted
  <1>4. CASE t \notin DOMAIN b
    <2>1. PICK i \in 1..Len(tools) : tools[i].name = t /\ tools[i].object = g[t].object
      BY <1>1, <1>4
    <2>2. tools[i] \in BuilderToolSet
      OBVIOUS
    <2> QED BY <1>1, <1>2, <1>4, <2>1, <2>2 DEF BuilderToolSet
  <1> QED BY <1>3, <1>4

\* Switching off spares what the program added.
LEMMA BuilderSpares ==
    ASSUME BuilderFields, NEW b \in BuilderBooks, BuilderTrusted(b), NEW off,
           NEW tools \in Seq(BuilderToolSet),
           \A i \in 1..Len(builder.tools) : i \in 1..Len(tools) /\ tools[i] = Builder!Own(builder.tools[i])
    PROVE  LET g == Builder!Disabled(b, off, tools)
           IN  /\ g \in BuilderBooks /\ BuilderTrusted(g) /\ DOMAIN g = DOMAIN b
               /\ \A t \in DOMAIN b : g[t].object = b[t].object
  <1> DEFINE g == Builder!Disabled(b, off, tools)
  <1>1. PICK D \in SUBSET BuilderNames : b \in [D -> [object : BuilderObjects, enabled : BOOLEAN]]
    BY DEF BuilderBooks
  <1>2. /\ DOMAIN g = D
        /\ \A t \in D : /\ g[t].object = b[t].object /\ g[t] \in [object : BuilderObjects, enabled : BOOLEAN]
                        /\ t \in Builder!Spared(tools) => g[t] = b[t]
    BY <1>1 DEF Builder!Disabled
  <1>3. g = [t \in D |-> g[t]]
    BY <1>1 DEF Builder!Disabled
  <1> HIDE DEF g
  <1>4. g \in BuilderBooks
    BY <1>2, <1>3 DEF BuilderBooks
  <1>5. \A t : BuilderHas(t) => t \in Builder!Spared(tools)
    <2> SUFFICES ASSUME NEW i \in 1..Len(builder.tools) PROVE builder.tools[i] \in Builder!Spared(tools)
      BY DEF BuilderHas
    <2>1. tools[i].name = builder.tools[i] /\ i \in DOMAIN tools
      <3>1. tools[i] = [name |-> builder.tools[i], object |-> Builder!Part("program", 0)]
        BY DEF Builder!Own
      <3>2. DOMAIN tools = 1..Len(tools)
        OBVIOUS
      <3> QED BY <3>1, <3>2
    <2> QED BY <2>1 DEF Builder!Spared
  <1>6. BuilderTrusted(g)
    BY <1>1, <1>2, <1>5 DEF BuilderTrusted
  <1> QED BY <1>1, <1>2, <1>4, <1>6 DEF g

-----------------------------------------------------------------------------
(* The steps.                                                                *)

\* What stays true of the builds when the registries keep their objects.
BuilderKept ==
    /\ builder'.kind = builder.kind /\ builder'.channel = builder.channel
    /\ \A i \in 1..Len(registries) :
          /\ i \in 1..Len(registries')
          /\ \A t \in DOMAIN registries[i] :
                t \in DOMAIN registries'[i] /\ registries'[i][t].object = registries[i][t].object

LEMMA BuilderStays ==
    ASSUME BuilderKept, NEW i, BuilderMade(i), builds'[i] = builds[i]
    PROVE  BuilderMade(i)'
  <1>1. CASE builds[i] = Builder!NoAgent
    BY <1>1 DEF BuilderMade, Builder!NoAgent
  <1>2. CASE builds[i] # Builder!NoAgent
    <2> DEFINE a == builds[i]
    <2>1. /\ a.built = i /\ a.registry \in 1..Len(registries)
          /\ BuilderParts(a) /\ BuilderTools(a) /\ BuilderHooks(a)
      BY <1>2 DEF BuilderMade
    <2>2. builds'[i] = a
      OBVIOUS
    <2> HIDE DEF a
    <2>3. a.registry \in 1..Len(registries')
      BY <2>1 DEF BuilderKept
    <2>4. BuilderParts(builds[i])'
      BY <2>1, <2>2 DEF BuilderParts
    <2>5. BuilderTools(builds[i])'
      BY <2>1, <2>2 DEF BuilderTools, BuilderKept
    <2>6. BuilderHooks(builds[i])'
      <3>1. (builder.kind = "dare")' <=> builder.kind = "dare"
        BY DEF BuilderKept
      <3>2. (builder.channel)' = builder.channel
        BY DEF BuilderKept
      <3> QED BY <2>1, <2>2, <3>1, <3>2 DEF BuilderHooks, BuilderInTurn, Builder!Managed
    <2> QED BY <2>1, <2>2, <2>3, <2>4, <2>5, <2>6 DEF BuilderMade
  <1> QED BY <1>1, <1>2

\* What the program puts into the builder, and what happens outside it.
LEMMA BuilderCalls ==
    ASSUME BuilderParameters, BuilderInv, UNCHANGED builds, BuilderFields',
           builder'.kind = builder.kind, builder'.channel = builder.channel,
           \A t : BuilderHas(t) => BuilderHas(t)',
           \/ UNCHANGED registries
           \/ registries' = Append(registries, <<>>)
    PROVE  BuilderInv'
  <1>1. /\ registries \in Seq(BuilderBooks) /\ Len(registries) \in Nat
        /\ \A i \in 1..Len(registries) : BuilderTrusted(registries[i])
    BY DEF BuilderInv, BuilderFields
  <1>2. \A i \in 1..Len(registries) : i \in 1..Len(registries') /\ registries'[i] = registries[i]
    BY <1>1
  <1>3. \A i \in 1..Len(registries') : i \in 1..Len(registries) \/ registries'[i] = <<>>
    BY <1>1
  <1>4. ASSUME NEW i \in 1..Len(registries') PROVE BuilderTrusted(registries[i])'
    <2> DEFINE b == registries'[i]
    <2>1. CASE i \in 1..Len(registries)
      <3>1. b = registries[i] /\ BuilderTrusted(b)
        BY <1>1, <1>2, <2>1
      <3>2. \A t \in DOMAIN b : b[t].object.by = "program" =>
                b[t].object = Builder!Part("program", 0) /\ b[t].enabled = TRUE /\ BuilderHas(t)
        BY <3>1 DEF BuilderTrusted
      <3>3. \A t \in DOMAIN b : b[t].object.by = "program" =>
                b[t].object = Builder!Part("program", 0) /\ b[t].enabled = TRUE /\ BuilderHas(t)'
        BY <3>2
      <3> QED BY <3>3 DEF BuilderTrusted, Builder!Part
    <2>2. CASE b = <<>>
      <3>1. DOMAIN b = {}
        BY <2>2
      <3> QED BY <3>1 DEF BuilderTrusted
    <2> QED BY <1>3, <2>1, <2>2
  <1>5. BuilderKept
    BY <1>2 DEF BuilderKept
  <1>6. \A i \in 1..Len(builds) : BuilderMade(i)'
    BY <1>5, BuilderStays DEF BuilderInv
  <1>7. (builds \in Seq({builds[i] : i \in 1..Len(builds)}))'
    BY DEF BuilderInv
  <1> QED BY <1>4, <1>6, <1>7 DEF BuilderInv

LEMMA BuilderWith ==
    ASSUME BuilderParameters, BuilderInv,
           \/ Builder!WithConfig \/ Builder!AddTool \/ Builder!AddHook \/ Builder!WithGateway
           \/ Builder!ProviderReloads \/ \E slot \in Slots : Builder!Given(slot)
    PROVE  BuilderInv'
  <1> DEFINE Fields == [kind : AgentKinds, config : 0..Len(Configs), registry : 0..Len(registries),
                        tools : Seq(OwnTools), hooks : Seq(OwnHooks),
                        slots : [Slots -> [by : {"none", "program", "config"}, of : Nat]],
                        channel : BOOLEAN, skills : BOOLEAN]
  <1>1. /\ builder \in Fields /\ source \in DOMAIN Configs
        /\ registries \in Seq(BuilderBooks) /\ Len(registries) \in Nat
    BY DEF BuilderInv, BuilderFields
  <1>2. Len(Configs) \in Nat \ {0} /\ DOMAIN Configs = 1..Len(Configs)
    BY DEF BuilderParameters
  <1>3. ASSUME builder' \in Fields, UNCHANGED registries, source' \in DOMAIN Configs
        PROVE  BuilderFields'
    BY <1>1, <1>3 DEF BuilderFields
  <1>4. CASE Builder!WithConfig
    <2>1. PICK c \in DOMAIN Configs : builder' = [builder EXCEPT !.config = c]
      BY <1>4 DEF Builder!WithConfig
    <2>2. UNCHANGED <<source, registries, builds>>
      BY <1>4 DEF Builder!WithConfig
    <2>3. builder' \in Fields /\ builder'.kind = builder.kind /\ builder'.channel = builder.channel
          /\ builder'.tools = builder.tools
      <3>1. c \in 0..Len(Configs)
        BY <1>2
      <3> QED BY <1>1, <2>1, <3>1
    <2>4. \A t : BuilderHas(t) => BuilderHas(t)'
      BY <2>3 DEF BuilderHas
    <2> QED BY <1>1, <1>3, <2>2, <2>3, <2>4, BuilderCalls
  <1>5. CASE \E slot \in Slots : Builder!Given(slot)
    <2>1. PICK slot \in Slots : builder' = [builder EXCEPT !.slots[slot] = Builder!Part("program", 0)]
      BY <1>5 DEF Builder!Given
    <2>2. UNCHANGED <<source, registries, builds>>
      BY <1>5 DEF Builder!Given
    <2>3. Builder!Part("program", 0) \in [by : {"none", "program", "config"}, of : Nat]
      BY DEF Builder!Part
    <2>4. builder' \in Fields /\ builder'.kind = builder.kind /\ builder'.channel = builder.channel
          /\ builder'.tools = builder.tools
      BY <1>1, <2>1, <2>3
    <2>5. \A t : BuilderHas(t) => BuilderHas(t)'
      BY <2>4 DEF BuilderHas
    <2> QED BY <1>1, <1>3, <2>2, <2>4, <2>5, BuilderCalls
  <1>6. CASE Builder!AddTool
    <2>1. PICK t \in OwnTools : builder' = [builder EXCEPT !.tools = Append(@, t)]
      BY <1>6 DEF Builder!AddTool
    <2>2. UNCHANGED <<source, registries, builds>>
      BY <1>6 DEF Builder!AddTool
    <2>3. builder.tools \in Seq(OwnTools)
      BY <1>1
    <2>4. /\ Append(builder.tools, t) \in Seq(OwnTools) /\ Len(builder.tools) \in Nat
          /\ Len(Append(builder.tools, t)) = Len(builder.tools) + 1
          /\ \A i \in 1..Len(builder.tools) : Append(builder.tools, t)[i] = builder.tools[i]
      BY <2>3, Added
    <2>5. builder' \in Fields /\ builder'.kind = builder.kind /\ builder'.channel = builder.channel
          /\ builder'.tools = Append(builder.tools, t)
      BY <1>1, <2>1, <2>4
    <2>6. \A i \in 1..Len(builder.tools) : i \in 1..Len(builder'.tools) /\ builder'.tools[i] = builder.tools[i]
      BY <2>4, <2>5
    <2>7. \A u : BuilderHas(u) => BuilderHas(u)'
      BY <2>6 DEF BuilderHas
    <2> QED BY <1>1, <1>3, <2>2, <2>5, <2>7, BuilderCalls
  <1>7. CASE Builder!AddHook
    <2>1. PICK h \in OwnHooks : builder' = [builder EXCEPT !.hooks = Append(@, h)]
      BY <1>7 DEF Builder!AddHook
    <2>2. UNCHANGED <<source, registries, builds>>
      BY <1>7 DEF Builder!AddHook
    <2>3. Append(builder.hooks, h) \in Seq(OwnHooks)
      BY <1>1
    <2>4. builder' \in Fields /\ builder'.kind = builder.kind /\ builder'.channel = builder.channel
          /\ builder'.tools = builder.tools
      BY <1>1, <2>1, <2>3
    <2>5. \A t : BuilderHas(t) => BuilderHas(t)'
      BY <2>4 DEF BuilderHas
    <2> QED BY <1>1, <1>3, <2>2, <2>4, <2>5, BuilderCalls
  <1>8. CASE Builder!WithGateway
    <2>1. /\ registries' = Append(registries, <<>>)
          /\ builder' = [builder EXCEPT !.registry = Len(registries')]
          /\ UNCHANGED <<source, builds>>
      BY <1>8 DEF Builder!WithGateway
    <2>2. <<>> \in BuilderBooks
      <3>1. <<>> \in [{} -> [object : BuilderObjects, enabled : BOOLEAN]]
        OBVIOUS
      <3>2. {} \in SUBSET BuilderNames
        OBVIOUS
      <3> QED BY <3>1, <3>2 DEF BuilderBooks
    <2>3. registries' \in Seq(BuilderBooks) /\ Len(registries') = Len(registries) + 1
      BY <1>1, <2>1, <2>2
    <2>4. /\ builder' \in [kind : AgentKinds, config : 0..Len(Configs), registry : 0..Len(registries'),
                           tools : Seq(OwnTools), hooks : Seq(OwnHooks),
                           slots : [Slots -> [by : {"none", "program", "config"}, of : Nat]],
                           channel : BOOLEAN, skills : BOOLEAN]
          /\ builder'.kind = builder.kind /\ builder'.channel = builder.channel
          /\ builder'.tools = builder.tools
      <3> DEFINE n == Len(registries')
      <3>1. n \in 0..n
        BY <1>1, <2>3
      <3> HIDE DEF n
      <3>2. builder' = [builder EXCEPT !.registry = n]
        BY <2>1 DEF n
      <3>3. /\ builder' \in [kind : AgentKinds, config : 0..Len(Configs), registry : 0..n,
                              tools : Seq(OwnTools), hooks : Seq(OwnHooks),
                              slots : [Slots -> [by : {"none", "program", "config"}, of : Nat]],
                              channel : BOOLEAN, skills : BOOLEAN]
            /\ builder'.kind = builder.kind /\ builder'.channel = builder.channel
            /\ builder'.tools = builder.tools
        BY <1>1, <3>1, <3>2
      <3> QED BY <3>3 DEF n
    <2>5. \A t : BuilderHas(t) => BuilderHas(t)'
      BY <2>4 DEF BuilderHas
    <2>6. BuilderFields'
      BY <1>1, <2>1, <2>3, <2>4 DEF BuilderFields
    <2> QED BY <2>1, <2>4, <2>5, <2>6, BuilderCalls
  <1>9. CASE Builder!ProviderReloads
    <2>1. source' \in DOMAIN Configs /\ UNCHANGED <<builder, registries, builds>>
      BY <1>9 DEF Builder!ProviderReloads
    <2>2. \A t : BuilderHas(t) => BuilderHas(t)'
      BY <2>1 DEF BuilderHas
    <2> QED BY <1>1, <1>3, <2>1, <2>2, BuilderCalls
  <1> QED BY <1>4, <1>5, <1>6, <1>7, <1>8, <1>9

\* A build: what the registry is left with, what the builder keeps, and the agent.
BuilderFilled(c, n, old, theirs, tools, withServed, full, left) ==
    /\ theirs = IF Configs[c].servers THEN Builder!Served(n) ELSE <<>>
    /\ tools = Builder!Built(c, n)
    /\ withServed = Builder!Registered(old, theirs) /\ full = Builder!Registered(withServed, tools)
    /\ left \in {withServed, full, Builder!Disabled(full, Configs[c].off, tools)}

LEMMA BuilderFills ==
    ASSUME BuilderParameters, BuilderFields, NEW c \in DOMAIN Configs, NEW n \in Nat,
           NEW old \in BuilderBooks, BuilderTrusted(old), NEW theirs, NEW tools, NEW withServed,
           NEW full, NEW left, BuilderFilled(c, n, old, theirs, tools, withServed, full, left)
    PROVE  /\ left \in BuilderBooks /\ BuilderTrusted(left)
           /\ \A t \in DOMAIN old : t \in DOMAIN left /\ left[t].object = old[t].object
           /\ /\ Builder!Clashes(withServed, tools) = {}
              /\ left \in {full, Builder!Disabled(full, Configs[c].off, tools)}
              => \A i \in 1..Len(builder.tools) :
                     /\ builder.tools[i] \in DOMAIN left
                     /\ left[builder.tools[i]].object = Builder!Part("program", 0)
  <1> USE DEF BuilderFilled
  <1> DEFINE spared == Builder!Disabled(full, Configs[c].off, tools)
  <1>1. theirs \in Seq(BuilderToolSet)
    <2>1. Builder!Served(n) \in Seq(BuilderToolSet)
      BY BuilderServes
    <2>2. <<>> \in Seq(BuilderToolSet)
      OBVIOUS
    <2> QED BY <2>1, <2>2
  <1>2. /\ tools \in Seq(BuilderToolSet)
        /\ \A i \in 1..Len(builder.tools) : i \in 1..Len(tools) /\ tools[i] = Builder!Own(builder.tools[i])
    BY BuilderBuilds
  <1>3. /\ withServed \in BuilderBooks /\ BuilderTrusted(withServed)
        /\ \A t \in DOMAIN old : t \in DOMAIN withServed /\ withServed[t] = old[t]
    BY <1>1, BuilderRegisters, BuilderTrusts
  <1>4. /\ full \in BuilderBooks /\ BuilderTrusted(full)
        /\ \A t \in DOMAIN withServed : t \in DOMAIN full /\ full[t] = withServed[t]
        /\ Builder!Clashes(withServed, tools) = {} => \A i \in 1..Len(tools) :
              tools[i].name \in DOMAIN full /\ full[tools[i].name].object = tools[i].object
    <2>1. tools \in Seq(BuilderToolSet) /\ withServed \in BuilderBooks /\ BuilderTrusted(withServed)
      BY <1>2, <1>3
    <2>2. BuilderTrusted(Builder!Registered(withServed, tools))
      BY <2>1, BuilderTrusts
    <2>3. LET g == Builder!Registered(withServed, tools)
          IN  /\ g \in BuilderBooks
              /\ \A t \in DOMAIN withServed : t \in DOMAIN g /\ g[t] = withServed[t]
              /\ \A t \in DOMAIN g \ DOMAIN withServed :
                    g[t].enabled = TRUE
                    /\ \E i \in 1..Len(tools) : tools[i].name = t /\ tools[i].object = g[t].object
              /\ Builder!Clashes(withServed, tools) = {} => \A i \in 1..Len(tools) :
                    tools[i].name \in DOMAIN g /\ g[tools[i].name].object = tools[i].object
      BY ONLY <2>1, BuilderRegisters
    <2> QED BY <2>2, <2>3, Zenon
  <1>5. /\ spared \in BuilderBooks /\ BuilderTrusted(spared) /\ DOMAIN spared = DOMAIN full
        /\ \A t \in DOMAIN full : spared[t].object = full[t].object
    <2> DEFINE off == Configs[c].off
    <2> HIDE DEF off
    <2>1. LET g == Builder!Disabled(full, off, tools)
          IN  /\ g \in BuilderBooks /\ BuilderTrusted(g) /\ DOMAIN g = DOMAIN full
              /\ \A t \in DOMAIN full : g[t].object = full[t].object
      BY <1>2, <1>4, BuilderSpares
    <2> QED BY <2>1 DEF off
  <1> HIDE DEF spared
  <1>6. left \in {withServed, full, spared}
    BY DEF spared
  <1>7. left \in BuilderBooks /\ BuilderTrusted(left)
    BY <1>3, <1>4, <1>5, <1>6
  <1>8. \A t \in DOMAIN old : t \in DOMAIN left /\ left[t].object = old[t].object
    BY <1>3, <1>4, <1>5, <1>6
  <1>9. ASSUME Builder!Clashes(withServed, tools) = {}, left \in {full, spared},
               NEW i \in 1..Len(builder.tools)
        PROVE  /\ builder.tools[i] \in DOMAIN left
               /\ left[builder.tools[i]].object = Builder!Part("program", 0)
    <2>1. tools[i].name = builder.tools[i] /\ tools[i].object = Builder!Part("program", 0)
      <3>1. tools[i] = [name |-> builder.tools[i], object |-> Builder!Part("program", 0)]
        BY <1>2 DEF Builder!Own
      <3> HIDE DEF spared
      <3> QED BY <3>1
    <2>2. /\ builder.tools[i] \in DOMAIN full
          /\ full[builder.tools[i]].object = Builder!Part("program", 0)
      BY <1>2, <1>4, <1>9, <2>1
    <2> QED BY <1>5, <1>9, <2>2
  <1> QED BY <1>6, <1>7, <1>8, <1>9 DEF spared

LEMMA BuilderBuild == ASSUME BuilderParameters, BuilderInv, Builder!Build PROVE BuilderInv'
  <1> DEFINE c == Builder!Resolved
             n == Len(builds) + 1
             new == builder.registry = 0
             r == IF new THEN Len(registries) + 1 ELSE builder.registry
             old == IF new THEN <<>> ELSE registries[r]
             theirs == IF Configs[c].servers THEN Builder!Served(n) ELSE <<>>
             tools == Builder!Built(c, n)
             withServed == Builder!Registered(old, theirs)
             full == Builder!Registered(withServed, tools)
             fails == Builder!Clashes(old, theirs) # {} \/ Builder!Clashes(withServed, tools) # {}
             slots == Builder!SlotsOf(c, fails)
             stay == [s \in Slots |-> IF s \in Builder!Cached THEN slots[s] ELSE builder.slots[s]]
             left == CASE Builder!Clashes(old, theirs) # {} -> withServed
                       [] fails -> full
                       [] OTHER -> Builder!Disabled(full, Configs[c].off, tools)
             whole == Builder!Agent(c, r, slots, n)
             made == IF fails THEN Builder!NoAgent ELSE whole
  <1>1. /\ registries' = [i \in DOMAIN registries \union {r} |-> IF i = r THEN left ELSE registries[i]]
        /\ builder' = [builder EXCEPT !.config = c, !.registry = r, !.slots = stay]
        /\ builds' = Append(builds, made) /\ source' = source
    BY DEF Builder!Build
  <1>2. /\ builder \in [kind : AgentKinds, config : 0..Len(Configs), registry : 0..Len(registries),
                        tools : Seq(OwnTools), hooks : Seq(OwnHooks),
                        slots : [Slots -> [by : {"none", "program", "config"}, of : Nat]],
                        channel : BOOLEAN, skills : BOOLEAN]
        /\ source \in DOMAIN Configs /\ registries \in Seq(BuilderBooks)
        /\ Len(registries) \in Nat /\ DOMAIN registries = 1..Len(registries) /\ Len(builds) \in Nat
        /\ BuilderFields
    BY DEF BuilderInv, BuilderFields
  <1>3. Len(Configs) \in Nat \ {0} /\ DOMAIN Configs = 1..Len(Configs)
    BY DEF BuilderParameters
  <1>4. c \in DOMAIN Configs /\ c \in 0..Len(Configs) /\ c \in Nat
    BY <1>2, <1>3 DEF Builder!Resolved
  <1>5. n \in Nat
    BY <1>2
  <1>6. r \in 1..Len(registries) + 1 /\ (r \notin 1..Len(registries) => old = <<>>)
        /\ (r \in 1..Len(registries) => old = registries[r])
    BY <1>2
  <1>7. old \in BuilderBooks /\ BuilderTrusted(old)
    <2>1. CASE new
      <3>1. old = <<>> /\ DOMAIN old = {}
        BY <2>1
      <3>2. <<>> \in [{} -> [object : BuilderObjects, enabled : BOOLEAN]] /\ {} \in SUBSET BuilderNames
        OBVIOUS
      <3>3. <<>> \in BuilderBooks
        BY <3>2 DEF BuilderBooks
      <3> HIDE DEF old
      <3> QED BY <3>1, <3>3 DEF BuilderTrusted
    <2>2. CASE ~new
      <3>1. r \in 1..Len(registries) /\ old = registries[r]
        BY <1>2, <2>2
      <3> HIDE DEF old, r
      <3> QED BY <1>2, <3>1 DEF BuilderInv
    <2> QED BY <2>1, <2>2
  <1>8. /\ left \in {withServed, full, Builder!Disabled(full, Configs[c].off, tools)}
        /\ ~fails => left = Builder!Disabled(full, Configs[c].off, tools)
    OBVIOUS
  <1>9. /\ left \in BuilderBooks /\ BuilderTrusted(left)
        /\ \A t \in DOMAIN old : t \in DOMAIN left /\ left[t].object = old[t].object
        /\ ~fails => \A i \in 1..Len(builder.tools) :
              /\ builder.tools[i] \in DOMAIN left
              /\ left[builder.tools[i]].object = Builder!Part("program", 0)
    <2> DEFINE w == withServed
               f == full
               k == left
               t == tools
               s == theirs
    <2>1. /\ BuilderFilled(c, n, old, s, t, w, f, k)
          /\ ~fails => k = Builder!Disabled(f, Configs[c].off, t) /\ Builder!Clashes(w, t) = {}
      BY <1>8 DEF BuilderFilled
    <2> HIDE DEF w, f, k, t, s, c, n, old, fails
    <2>2. /\ k \in BuilderBooks /\ BuilderTrusted(k)
          /\ \A x \in DOMAIN old : x \in DOMAIN k /\ k[x].object = old[x].object
          /\ /\ Builder!Clashes(w, t) = {}
             /\ k \in {f, Builder!Disabled(f, Configs[c].off, t)}
             => \A i \in 1..Len(builder.tools) :
                    /\ builder.tools[i] \in DOMAIN k
                    /\ k[builder.tools[i]].object = Builder!Part("program", 0)
      BY <1>2, <1>4, <1>5, <1>7, <2>1, BuilderFills
    <2>3. ~fails => \A i \in 1..Len(builder.tools) :
                        /\ builder.tools[i] \in DOMAIN k
                        /\ k[builder.tools[i]].object = Builder!Part("program", 0)
      BY <2>1, <2>2
    <2> QED BY <2>2, <2>3 DEF k
  <1> DEFINE k == left
  <1>10. registries' = [i \in DOMAIN registries \union {r} |-> IF i = r THEN k ELSE registries[i]]
    BY <1>1
  <1> HIDE DEF left, k, withServed, full, tools, theirs, r, old
  <1>11. /\ registries' \in Seq(BuilderBooks) /\ r \in 1..Len(registries')
         /\ registries'[r] = k /\ Len(registries) <= Len(registries')
         /\ \A i \in 1..Len(registries') : i = r \/ (i \in 1..Len(registries) /\ registries'[i] = registries[i])
         /\ \A i \in 1..Len(registries) : i \in 1..Len(registries')
    <2> DEFINE m == IF r = Len(registries) + 1 THEN Len(registries) + 1 ELSE Len(registries)
    <2>1. m \in Nat /\ DOMAIN registries \union {r} = 1..m /\ Len(registries) <= m /\ r \in 1..m
          /\ \A i \in 1..m : i = r \/ i \in 1..Len(registries)
      BY <1>2, <1>6
    <2>2. \A i \in 1..Len(registries) : registries[i] \in BuilderBooks
      BY <1>2
    <2>3. k \in BuilderBooks
      BY <1>9 DEF k
    <2> HIDE DEF m
    <2>4. registries' \in [1..m -> BuilderBooks]
      BY <1>10, <2>1, <2>2, <2>3
    <2>5. registries' \in Seq(BuilderBooks) /\ Len(registries') = m
      BY <2>1, <2>4
    <2> QED BY <1>2, <1>10, <2>1, <2>5
  <1>12. slots \in [Slots -> [by : {"none", "program", "config"}, of : Nat]]
         /\ \A s \in Slots : builder.slots[s].by = "program" => slots[s] = builder.slots[s]
    <2> DEFINE P == [by : {"none", "program", "config"}, of : Nat]
    <2>1. builder.slots \in [Slots -> P]
      BY <1>2
    <2>2. Builder!Part("config", c) \in P /\ Builder!Unset.by = "none"
      BY <1>4 DEF Builder!Part, Builder!Unset
    <2> HIDE DEF c, fails, P
    <2>3. \A s \in Slots : Builder!Resolve(s, c) \in P
                           /\ (builder.slots[s].by = "program" => Builder!Resolve(s, c) = builder.slots[s])
      BY <2>1, <2>2 DEF Builder!Resolve
    <2>4. \A s \in Slots : slots[s] = builder.slots[s] \/ slots[s] = Builder!Resolve(s, c)
      BY DEF Builder!SlotsOf
    <2>5. slots = [s \in Slots |-> slots[s]]
      BY DEF Builder!SlotsOf
    <2> HIDE DEF slots
    <2> QED BY <2>1, <2>3, <2>4, <2>5 DEF P
  <1> HIDE DEF slots, c, n
  <1>13. stay \in [Slots -> [by : {"none", "program", "config"}, of : Nat]]
    BY <1>2, <1>12
  <1> HIDE DEF stay
  <1>14. BuilderFields' /\ builder'.kind = builder.kind /\ builder'.channel = builder.channel
         /\ builder'.tools = builder.tools
    <2> DEFINE l == Len(registries')
    <2>1. r \in 0..l
      BY <1>11
    <2> HIDE DEF l
    <2>2. builder' \in [kind : AgentKinds, config : 0..Len(Configs), registry : 0..l,
                        tools : Seq(OwnTools), hooks : Seq(OwnHooks),
                        slots : [Slots -> [by : {"none", "program", "config"}, of : Nat]],
                        channel : BOOLEAN, skills : BOOLEAN]
      BY <1>1, <1>2, <1>4, <1>13, <2>1
    <2>3. builder'.kind = builder.kind /\ builder'.channel = builder.channel /\ builder'.tools = builder.tools
      BY <1>1, <1>2
    <2> QED BY <1>1, <1>2, <1>11, <2>2, <2>3 DEF BuilderFields, l
  <1>15. \A t : BuilderHas(t)' <=> BuilderHas(t)
    BY <1>14 DEF BuilderHas
  <1>16. BuilderKept
    <2>1. ASSUME NEW i \in 1..Len(registries), NEW t \in DOMAIN registries[i]
          PROVE  t \in DOMAIN registries'[i] /\ registries'[i][t].object = registries[i][t].object
      <3>1. CASE i = r
        <4>1. old = registries[i] /\ registries'[i] = k
          BY <1>6, <1>11, <3>1
        <4> QED BY <1>9, <2>1, <4>1 DEF k
      <3>2. CASE i # r
        BY <1>11, <3>2
      <3> QED BY <3>1, <3>2
    <2> QED BY <1>11, <1>14, <2>1 DEF BuilderKept
  <1>17. ASSUME NEW i \in 1..Len(registries') PROVE BuilderTrusted(registries[i])'
    <2> DEFINE b == registries'[i]
    <2>1. BuilderTrusted(b)
      BY <1>9, <1>11 DEF BuilderInv, k
    <2>2. \A t \in DOMAIN b : b[t].object.by = "program" =>
              b[t].object = Builder!Part("program", 0) /\ b[t].enabled = TRUE /\ BuilderHas(t)'
      BY <1>15, <2>1 DEF BuilderTrusted
    <2> QED BY <2>2 DEF BuilderTrusted, Builder!Part
  <1> DEFINE z == made
  <1>18. builds' = Append(builds, z)
    BY <1>1
  <1> DEFINE B == {builds[i] : i \in 1..Len(builds)}
  <1>19. /\ Len(builds') = n /\ builds'[n] = z
         /\ \A i \in 1..n - 1 : i \in 1..Len(builds) /\ builds'[i] = builds[i]
         /\ builds' \in Seq({builds'[i] : i \in 1..Len(builds')})
    <2>1. builds \in Seq(B \union {z})
      BY DEF BuilderInv
    <2> HIDE DEF z, B
    <2>2. /\ builds' \in Seq(B \union {z}) /\ Len(builds') = Len(builds) + 1
          /\ \A i \in 1..Len(builds) : builds'[i] = builds[i]
          /\ builds'[Len(builds) + 1] = z
      BY <1>18, <2>1, Added
    <2>3. builds' \in Seq({builds'[i] : i \in 1..Len(builds')})
      BY <2>2
    <2> QED BY <1>2, <2>2, <2>3 DEF n
  <1>20. n \in 1..n
    BY <1>2 DEF n
  <1>21. ASSUME ~fails, NEW i \in Nat, i = n PROVE BuilderMade(i)'
    <2> DEFINE a == whole
    <2>1. z = a
      BY <1>21
    <2>2. /\ a.built = i /\ a.config = c /\ a.registry = r /\ a.slots = slots
          /\ a.context.parts = [s \in Slots \ (Builder!Cached \union Builder!DareOnly) |-> slots[s]]
          /\ a.hooks = Builder!HooksOf(c) /\ a.tools = Builder!Range(builder.tools)
          /\ a.asked = builder.slots /\ a.added = Builder!Range(builder.hooks)
      BY <1>21 DEF Builder!Agent, Builder!ContextOf
    <2> HIDE DEF a, z
    <2>3. BuilderParts(a)
      BY <1>12, <2>2 DEF BuilderParts
    <2>4. \A t \in a.tools : t \in DOMAIN k /\ k[t].object = Builder!Part("program", 0)
      <3>1. \A t \in a.tools : \E j \in 1..Len(builder.tools) : t = builder.tools[j]
        BY <1>2, <2>2 DEF Builder!Range
      <3> QED BY <1>9, <1>21, <3>1 DEF k
    <2>5. BuilderHooks(a)
      <3>1. builder.kind = "dare" =>
              /\ {a.hooks[j].name : j \in DOMAIN a.hooks} \ {Transport}
                    = (Builder!Range(Builder!Managed(c)) \union Builder!Range(builder.hooks)) \ {Transport}
              /\ BuilderInTurn(a.hooks)
              /\ builder.channel => \E j \in DOMAIN a.hooks : a.hooks[j].name = Transport
        BY <1>2, <1>4, <2>2, BuilderResolves
      <3> QED BY <2>2, <3>1 DEF BuilderHooks
    <2>6. builds'[i] = a
      BY <1>19, <1>21, <2>1
    <2>7. BuilderParts(builds[i])' /\ BuilderHooks(builds[i])'
      <3>1. BuilderParts(builds[i])'
        BY <2>3, <2>6 DEF BuilderParts
      <3>2. BuilderHooks(builds[i])'
        BY <1>14, <2>5, <2>6 DEF BuilderHooks, BuilderInTurn, Builder!Managed
      <3> QED BY <3>1, <3>2
    <2> QED BY <1>11, <2>2, <2>4, <2>6, <2>7 DEF BuilderMade, BuilderTools, BuilderParts, BuilderHooks
  <1>22. ASSUME fails, NEW i \in Nat, i = n PROVE BuilderMade(i)'
    <2>1. builds'[i] = Builder!NoAgent
      BY <1>19, <1>22
    <2> QED BY <2>1 DEF BuilderMade, Builder!NoAgent
  <1>23. ASSUME NEW i \in 1..n PROVE BuilderMade(i)'
    <2>1. CASE i = n
      <3>1. i \in Nat
        BY <1>5
      <3> QED BY <1>21, <1>22, <2>1, <3>1
    <2>2. CASE i # n
      <3>1. i \in 1..n - 1
        BY <1>5, <2>2
      <3>2. BuilderMade(i) /\ builds'[i] = builds[i]
        BY <1>19, <3>1 DEF BuilderInv
      <3> QED BY <1>16, <3>2, BuilderStays
    <2> QED BY <2>1, <2>2
  <1> QED BY <1>14, <1>17, <1>19, <1>23 DEF BuilderInv

LEMMA BuilderHolds ==
    ASSUME BuilderParameters, BuilderInv
    PROVE  Builder!TypeOK /\ Builder!ExplicitUsed /\ Builder!HooksOrdered
  <1>1. /\ builder.registry \in 0..Len(registries) /\ builder.config \in 0..Len(Configs)
        /\ \A s \in Slots : builder.slots[s].by \in {"none", "program", "config"}
        /\ source \in DOMAIN Configs /\ DOMAIN registries = 1..Len(registries)
        /\ \A i \in 1..Len(registries) : registries[i] \in BuilderBooks /\ BuilderTrusted(registries[i])
        /\ DOMAIN builds = 1..Len(builds)
    BY DEF BuilderInv, BuilderFields
  <1>2. ASSUME NEW i \in 1..Len(registries), NEW t \in DOMAIN registries[i]
        PROVE  /\ registries[i][t] \in [object : BuilderObjects, enabled : BOOLEAN]
               /\ registries[i][t].object = Builder!Part("program", 0) =>
                     registries[i][t] = [object |-> Builder!Part("program", 0), enabled |-> TRUE]
    <2> DEFINE b == registries[i]
    <2>1. b \in BuilderBooks /\ BuilderTrusted(b) /\ t \in DOMAIN b
      BY <1>1, <1>2
    <2> HIDE DEF b
    <2>2. b[t] \in [object : BuilderObjects, enabled : BOOLEAN]
      BY <2>1 DEF BuilderBooks
    <2>3. b[t].object = Builder!Part("program", 0) => b[t].enabled = TRUE
      BY <2>1 DEF BuilderTrusted, Builder!Part
    <2> QED BY <2>2, <2>3 DEF b
  <1>3. ASSUME NEW a \in Builder!Agents
        PROVE  /\ a.registry \in 1..Len(registries)
               /\ BuilderParts(a) /\ BuilderTools(a) /\ BuilderHooks(a)
    <2>1. PICK i \in 1..Len(builds) : a = builds[i] /\ builds[i].built # 0
      BY <1>1 DEF Builder!Agents
    <2>2. BuilderMade(i) /\ a # Builder!NoAgent
      BY <2>1 DEF BuilderInv, Builder!NoAgent
    <2> QED BY <2>1, <2>2 DEF BuilderMade
  <1>4. Builder!TypeOK
    <2>1. \A i \in 1..Len(builds) : builds[i].built \in {0, i}
      BY DEF BuilderInv, BuilderMade, Builder!NoAgent
    <2>2. \A i \in DOMAIN registries : \A t \in DOMAIN registries[i] : registries[i][t].enabled \in BOOLEAN
      BY <1>1, <1>2
    <2> QED BY <1>1, <2>1, <2>2 DEF Builder!TypeOK
  <1>5. Builder!ExplicitUsed
    <2>1. ASSUME NEW a \in Builder!Agents, NEW t \in a.tools
          PROVE  registries[a.registry][t] = [object |-> Builder!Part("program", 0), enabled |-> TRUE]
      BY <1>2, <1>3, <2>1 DEF BuilderTools
    <2>2. \A a \in Builder!Agents : BuilderParts(a)
      BY <1>3
    <2> QED BY <2>1, <2>2 DEF Builder!ExplicitUsed, BuilderParts
  <1>6. Builder!HooksOrdered
    BY <1>3, Zenon DEF Builder!HooksOrdered, BuilderHooks, BuilderInTurn, Transport
  <1> QED BY <1>4, <1>5, <1>6

LEMMA BuilderInit == ASSUME BuilderParameters, Builder!Init PROVE BuilderInv
  <1>1. PICK k \in AgentKinds, channel \in BOOLEAN, skills \in BOOLEAN :
            builder = [kind |-> k, config |-> 0, registry |-> 0, tools |-> <<>>, hooks |-> <<>>,
                       slots |-> [s \in Slots |-> Builder!Unset], channel |-> channel, skills |-> skills]
    BY DEF Builder!Init
  <1>2. source = 1 /\ registries = <<>> /\ builds = <<>>
    BY DEF Builder!Init
  <1>3. Builder!Unset \in [by : {"none", "program", "config"}, of : Nat]
    BY DEF Builder!Unset, Builder!Part
  <1>4. BuilderFields
    BY <1>1, <1>2, <1>3 DEF BuilderFields, BuilderParameters
  <1> QED BY <1>2, <1>4 DEF BuilderInv

LEMMA BuilderStep ==
    ASSUME BuilderParameters, BuilderInv, [Builder!Next]_Builder!vars
    PROVE  BuilderInv'
  <1>1. CASE UNCHANGED Builder!vars
    <2>1. UNCHANGED <<builder, source, registries, builds>>
      BY <1>1 DEF Builder!vars
    <2>2. BuilderFields' /\ \A t : BuilderHas(t) => BuilderHas(t)'
      BY <2>1 DEF BuilderInv, BuilderFields, BuilderHas
    <2> QED BY <2>1, <2>2, BuilderCalls
  <1>2. CASE Builder!Build
    BY <1>2, BuilderBuild
  <1>3. CASE \/ Builder!WithConfig \/ Builder!AddTool \/ Builder!AddHook \/ Builder!WithGateway
             \/ Builder!ProviderReloads \/ \E slot \in Slots : Builder!Given(slot)
    BY <1>3, BuilderWith
  <1> QED BY <1>1, <1>2, <1>3 DEF Builder!Next

\* Every agent has the parts and tools the program handed to its builder, whatever later
\* builds register or switch off, and one hook of each name in the order of source,
\* priority and registration, for any configurations, servers, tools, hooks and number
\* of builds (agent/builder.py).
THEOREM BuiltAsAsked ==
    ASSUME BuilderParameters
    PROVE  Builder!Spec => [](Builder!TypeOK /\ Builder!ExplicitUsed /\ Builder!HooksOrdered)
  <1>1. Builder!Init => BuilderInv
    BY BuilderInit
  <1>2. BuilderInv /\ [Builder!Next]_Builder!vars => BuilderInv'
    BY BuilderStep
  <1>3. BuilderInv => Builder!TypeOK /\ Builder!ExplicitUsed /\ Builder!HooksOrdered
    BY BuilderHolds
  <1> QED BY <1>1, <1>2, <1>3, PTL DEF Builder!Spec

-----------------------------------------------------------------------------
(* ReactLoop: what is compressed and shown.                                  *)

LoopParameters ==
    /\ ForLoop.AgentKinds \subseteq {"chat", "basic", "smart", "managed"}
    /\ ForLoop.MaxRounds \in Nat /\ ForLoop.MaxTasks \in Nat /\ ForLoop.MaxGuidance \in Nat
    /\ ForLoop.Sizes \subseteq Nat /\ ForLoop.Window \in Nat /\ ForLoop.MaxCalls \in Nat

ReactMessages ==
    [is : Loop!MessageKinds, of : Nat \X Nat, no : Nat, size : ForLoop.Sizes \union {1}]

\* The operators of Listings are the same in the instance.
LEMMA ReactListings ==
    /\ \A s, P : Loop!Taken(s, P) = Taken(s, P)
    /\ \A S : Loop!Cardinality(S) = Cardinality(S)
    /\ \A s : Loop!Range(s) = {s[i] : i \in DOMAIN s}
  <1>1. \A S, R : Loop!InOrder(S, R) = InOrder(S, R)
    BY Zenon DEF Loop!InOrder, InOrder, Loop!Cardinality, Cardinality,
       Loop!IsFiniteSet, IsFiniteSet
  <1>2. \A P : Loop!Places(P) = Places(P)
    BY <1>1 DEF Loop!Places, Places
  <1>3. \A S : Loop!Cardinality(S) = Cardinality(S)
    BY Zenon DEF Loop!Cardinality, Cardinality, Loop!IsFiniteSet, IsFiniteSet
  <1> QED BY <1>2, <1>3 DEF Loop!Taken, Taken, Loop!Range

\* The tokens of a conversation: finitely many pairs.
ReactCells(s) == UNION {{i} \X (1..s[i].size) : i \in DOMAIN s}

\* Tokens are counted, and there are finitely many.
LEMMA ReactTokens ==
    ASSUME LoopParameters, NEW s \in Seq(ReactMessages)
    PROVE  /\ Loop!Tokens(s) = Cardinality(ReactCells(s)) /\ IsFiniteSet(ReactCells(s))
           /\ Loop!Tokens(s) \in Nat
           /\ \A i \in 1..Len(s) : s[i].size \in Nat
           /\ \A c : c \in ReactCells(s) <=> /\ c \in (1..Len(s)) \X Nat
                                             /\ c[2] \in 1..s[c[1]].size
  <1>1. Loop!Tokens(s) = Cardinality(ReactCells(s))
    BY ReactListings DEF Loop!Tokens, ReactCells
  <1>2. /\ Len(s) \in Nat /\ DOMAIN s = 1..Len(s)
        /\ \A i \in 1..Len(s) : s[i] \in ReactMessages /\ s[i].size \in Nat
    <2>1. Len(s) \in Nat /\ DOMAIN s = 1..Len(s) /\ \A i \in 1..Len(s) : s[i] \in ReactMessages
      OBVIOUS
    <2> QED BY <2>1 DEF ReactMessages, LoopParameters
  <1> DEFINE Cells(i) == {i} \X (1..s[i].size)
             all == {Cells(i) : i \in 1..Len(s)}
             f == [i \in 1..Len(s) |-> Cells(i)]
  <1>3. IsFiniteSet(all)
    <2>1. f \in Surjection(1..Len(s), all)
      BY DEF Surjection
    <2>2. IsFiniteSet(1..Len(s))
      BY <1>2, FS_Interval, 1 \in Int, Len(s) \in Int
    <2> QED BY <2>1, <2>2, FS_Surjection
  <1>4. ASSUME NEW c \in all PROVE IsFiniteSet(c)
    <2>1. PICK i \in 1..Len(s) : c = Cells(i)
      OBVIOUS
    <2>2. IsFiniteSet({i}) /\ IsFiniteSet(1..s[i].size)
      <3>1. 1 \in Int /\ s[i].size \in Int
        BY <1>2
      <3> QED BY <3>1, FS_Singleton, FS_Interval
    <2> QED BY <2>1, <2>2, FS_Product
  <1>5. ReactCells(s) = UNION all
    BY <1>2 DEF ReactCells
  <1>6. IsFiniteSet(ReactCells(s))
    BY <1>3, <1>4, <1>5, FS_UNION
  <1>7. \A c : c \in ReactCells(s) <=> c \in (1..Len(s)) \X Nat /\ c[2] \in 1..s[c[1]].size
    BY <1>2, <1>5
  <1> QED BY <1>1, <1>2, <1>6, <1>7, FS_CardinalityType

\* A conversation whose messages are those of another one, at other places, has no more
\* tokens and no more messages.
LEMMA ReactFewer ==
    ASSUME LoopParameters, NEW s \in Seq(ReactMessages), NEW t \in Seq(ReactMessages),
           NEW f \in [1..Len(t) -> 1..Len(s)],
           \A j, k \in 1..Len(t) : f[j] = f[k] => j = k,
           \A k \in 1..Len(t) : t[k] = s[f[k]]
    PROVE  Loop!Tokens(t) <= Loop!Tokens(s) /\ Len(t) <= Len(s)
  <1> DEFINE g == [c \in ReactCells(t) |-> <<f[c[1]], c[2]>>]
  <1>1. Len(s) \in Nat /\ Len(t) \in Nat
    OBVIOUS
  <1>2. \A c \in ReactCells(t) : c[1] \in 1..Len(t) /\ c = <<c[1], c[2]>> /\ c[2] \in Nat
    BY ReactTokens
  <1>3. \A c \in ReactCells(t) : g[c] \in ReactCells(s)
    BY <1>2, ReactTokens
  <1>4. \A b, c \in ReactCells(t) : g[b] = g[c] => b = c
    BY <1>2
  <1>5. g \in Injection(ReactCells(t), ReactCells(s))
    <2> HIDE DEF g
    <2>1. g \in [ReactCells(t) -> ReactCells(s)]
      BY <1>3 DEF g
    <2> QED BY <1>4, <2>1 DEF Injection, IsInjective
  <1>6. Cardinality(ReactCells(t)) <= Cardinality(ReactCells(s))
    BY <1>5, ReactTokens, FS_Injection
  <1>7. f \in Injection(1..Len(t), 1..Len(s))
    BY DEF Injection, IsInjective
  <1>8. Len(t) <= Len(s)
    <2>1. \A n \in Nat : IsFiniteSet(1..n) /\ Cardinality(1..n) = n
      <3> TAKE n \in Nat
      <3>1. 1 \in Int /\ n \in Int
        OBVIOUS
      <3>2. IsFiniteSet(1..n) /\ Cardinality(1..n) = IF 1 > n THEN 0 ELSE (n - 1) + 1
        BY <3>1, FS_Interval
      <3> QED BY <3>2
    <2>2. Cardinality(1..Len(t)) <= Cardinality(1..Len(s))
      BY <1>1, <1>7, <2>1, FS_Injection
    <2> QED BY <1>1, <2>1, <2>2
  <1> QED BY <1>6, <1>8, ReactTokens

\* The first chunk is all there is only when it is one message, or nothing is in it.
LEMMA ReactChunk ==
    ASSUME LoopParameters, NEW s \in Seq(ReactMessages), s # <<>>
    PROVE  /\ Loop!FirstChunk(s) \in 1..Len(s)
           /\ Loop!FirstChunk(s) = Len(s) => Loop!Tokens(s) = 0 \/ Len(s) = 1
  <1> DEFINE over == {i \in 2..Len(s) : 2 * Loop!Tokens(SubSeq(s, 1, i)) > Loop!Tokens(s)}
  <1>1. Len(s) \in Nat \ {0}
    OBVIOUS
  <1>2. Loop!FirstChunk(s) = IF over = {} THEN Len(s)
                                  ELSE (CHOOSE i \in over : \A j \in over : i <= j) - 1
    BY DEF Loop!FirstChunk
  <1>3. over \subseteq 2..Len(s)
    OBVIOUS
  <1>4. Len(s) >= 2 /\ Loop!Tokens(s) # 0 => Len(s) \in over
    <2>1. SubSeq(s, 1, Len(s)) = s
      OBVIOUS
    <2>2. Loop!Tokens(s) \in Nat
      BY ReactTokens
    <2>3. PICK all : all = Loop!Tokens(s)
      OBVIOUS
    <2>4. Loop!Tokens(SubSeq(s, 1, Len(s))) = all
      BY <2>1, <2>3, Zenon
    <2>5. all # 0 => 2 * all > all
      BY <2>2, <2>3
    <2>6. Len(s) >= 2 => Len(s) \in 2..Len(s)
      BY <1>1
    <2> QED BY <2>3, <2>4, <2>5, <2>6, Zenon
  <1> HIDE DEF over
  <1>5. CASE over = {}
    BY <1>1, <1>2, <1>4, <1>5
  <1>6. CASE over # {}
    <2>0. over \subseteq Nat
      BY <1>1, <1>3
    <2>1. \E i \in over : \A j \in over : i <= j
      BY <1>6, <2>0, LeastOf
    <2>2. PICK first : first = CHOOSE i \in over : \A j \in over : i <= j
      OBVIOUS
    <2>3. first \in over
      BY <2>1, <2>2
    <2>4. Loop!FirstChunk(s) = first - 1
      BY <1>2, <1>6, <2>2
    <2> QED BY <1>1, <1>3, <2>3, <2>4
  <1> QED BY <1>5, <1>6

\* A walk that always goes on to a higher place, until it may stop, stops.
LEMMA WalkStops ==
    ASSUME NEW L \in Nat, NEW stop \in SUBSET (0..L), L \in stop, NEW next \in [0..L -> 0..L],
           \A n \in (0..L) \ stop : next[n] > n, NEW f,
           f = [n \in 0..L |-> IF n \in stop THEN n ELSE f[next[n]]]
    PROVE  \A n \in 0..L : f[n] \in stop
  <1> DEFINE bad == {k \in 0..L : f[L - k] \notin stop}
  <1>0. \A n \in 0..L : f[n] = IF n \in stop THEN n ELSE f[next[n]]
    OBVIOUS
  <1>1. SUFFICES ASSUME bad # {} PROVE FALSE
    <2> SUFFICES ASSUME NEW n \in 0..L, f[n] \notin stop PROVE FALSE
      OBVIOUS
    <2>1. L - n \in 0..L /\ L - (L - n) = n
      OBVIOUS
    <2>2. L - n \in bad
      BY <2>1
    <2> QED BY <1>1, <2>2
  <1>2. PICK k \in bad : \A j \in bad : k <= j
    BY <1>1, LeastOf, bad \subseteq Nat
  <1>3. k \in 0..L /\ L - k \in 0..L /\ f[L - k] \notin stop
    BY <1>2
  <1>4. L - k \notin stop /\ f[L - k] = f[next[L - k]]
    BY <1>0, <1>3
  <1>5. PICK n \in 0..L : n = next[L - k] /\ n > L - k
    BY <1>3, <1>4
  <1>6. L - n \in 0..L /\ L - n < k /\ L - (L - n) = n
    <2>1. k \in 0..L /\ n \in 0..L /\ n > L - k
      BY <1>3, <1>5
    <2> HIDE DEF bad
    <2> QED BY <2>1
  <1>7. L - n \in bad
    BY <1>3, <1>4, <1>5, <1>6
  <1>8. k <= L - n
    BY <1>2, <1>7
  <1> HIDE DEF bad
  <1> QED BY <1>3, <1>6, <1>8

\* There is such a walk.
LEMMA WalkIs ==
    ASSUME NEW L \in Nat, NEW stop \in SUBSET (0..L), L \in stop, NEW next \in [0..L -> 0..L],
           \A n \in (0..L) \ stop : next[n] > n
    PROVE  \E f : f = [n \in 0..L |-> IF n \in stop THEN n ELSE f[next[n]]]
  <1> DEFINE Walk(f, k) == \A n \in L - k..L : f[n] = IF n \in stop THEN n ELSE f[next[n]]
             bad == {k \in 0..L : ~\E f : Walk(f, k)}
  <1>1. bad = {}
    <2> SUFFICES ASSUME bad # {} PROVE FALSE
      OBVIOUS
    <2>1. PICK k \in bad : \A j \in bad : k <= j
      BY LeastOf, bad \subseteq Nat
    <2>2. k \in 0..L
      BY <2>1
    <2>3. CASE k = 0
      <3> DEFINE f == [n \in 0..L |-> n]
      <3>1. Walk(f, 0)
        OBVIOUS
      <3> QED BY <2>1, <2>3, <3>1
    <2>4. CASE k # 0
      <3>1. k - 1 \in 0..L /\ k - 1 < k
        BY <2>2, <2>4
      <3>2. k - 1 \notin bad
        <4> HIDE DEF bad
        <4> QED BY <2>1, <2>2, <3>1
      <3>3. PICK g : Walk(g, k - 1)
        BY <3>1, <3>2
      <3> DEFINE spot == L - k
                 f == [n \in 0..L |-> IF n = spot THEN IF spot \in stop THEN spot ELSE g[next[spot]] ELSE g[n]]
      <3>4. spot \in 0..L /\ L - (k - 1) = spot + 1 /\ \A n \in spot..L : n = spot \/ n \in spot + 1..L
        BY <2>2
      <3>5. \A n \in (0..L) \ stop : next[n] \in 0..L /\ next[n] > n
        OBVIOUS
      <3>6. \A n \in spot + 1..L : f[n] = g[n] /\ n \in 0..L
        BY <3>4
      <3>7. f[spot] = IF spot \in stop THEN spot ELSE f[next[spot]]
        <4>1. CASE spot \in stop
          BY <3>4, <4>1
        <4>2. CASE spot \notin stop
          <5>1. next[spot] \in spot + 1..L
            BY <3>4, <3>5, <4>2
          <5>2. f[next[spot]] = g[next[spot]]
            BY <3>6, <5>1
          <5> QED BY <3>4, <4>2, <5>2
        <4> QED BY <4>1, <4>2
      <3>8. ASSUME NEW n \in spot + 1..L PROVE f[n] = IF n \in stop THEN n ELSE f[next[n]]
        <4>1. g[n] = IF n \in stop THEN n ELSE g[next[n]]
          BY <3>3, <3>4
        <4>2. CASE n \in stop
          BY <3>6, <4>1, <4>2
        <4>3. CASE n \notin stop
          <5>1. next[n] \in spot + 1..L
            BY <3>4, <3>5, <3>6, <4>3
          <5> QED BY <3>6, <4>1, <4>3, <5>1
        <4> QED BY <4>2, <4>3
      <3>9. \A n \in spot..L : f[n] = IF n \in stop THEN n ELSE f[next[n]]
        <4> HIDE DEF f, spot
        <4> QED BY <3>4, <3>7, <3>8
      <3>10. \E h : Walk(h, k)
        <4> HIDE DEF f
        <4> QED BY <3>9
      <3> QED BY <2>1, <3>10
    <2> QED BY <2>3, <2>4
  <1>2. L \in 0..L /\ L - L = 0
    OBVIOUS
  <1>3. PICK f : Walk(f, L)
    BY <1>1, <1>2
  <1> DEFINE h == [n \in 0..L |-> f[n]]
  <1>4. h = [n \in 0..L |-> IF n \in stop THEN n ELSE h[next[n]]]
    <2>1. \A n \in 0..L : f[n] = IF n \in stop THEN n ELSE f[next[n]]
      BY <1>2, <1>3
    <2>2. \A n \in 0..L : f[n] = IF n \in stop THEN n ELSE h[next[n]]
      BY <2>1
    <2> QED BY <2>2
  <1> HIDE DEF h
  <1> QED BY <1>4

\* Messages are dropped until nothing is left, the rest fits the window, or it is one chunk.
ReactStops(s) ==
    {n \in 0..Len(s) : LET rest == SubSeq(s, n + 1, Len(s))
                       IN  \/ rest = <<>> \/ Loop!Tokens(rest) <= ForLoop.Window
                           \/ Loop!FirstChunk(rest) = Len(rest)}

\* What pruning drops is within the conversation, and leaves the window or one message.
LEMMA ReactDropped ==
    ASSUME LoopParameters, NEW s \in Seq(ReactMessages)
    PROVE  Loop!Dropped(s) \in ReactStops(s)
  <1> DEFINE L == Len(s)
             Left(n) == SubSeq(s, n + 1, Len(s))
             stop == ReactStops(s)
             next == [n \in 0..L |-> IF n \in stop THEN n ELSE n + Loop!FirstChunk(Left(n))]
             Is(f) == f = [n \in 0..L |-> IF n \in stop THEN n ELSE f[next[n]]]
             drop == CHOOSE f : f = [n \in 0..L |-> 
                        IF Left(n) = <<>> \/ Loop!Tokens(Left(n)) <= ForLoop.Window
                           \/ Loop!FirstChunk(Left(n)) = Len(Left(n))
                        THEN n ELSE f[n + Loop!FirstChunk(Left(n))]]
  <1>1. Loop!Dropped(s) = drop[0]
    BY Zenon DEF Loop!Dropped
  <1>2. L \in Nat /\ stop \subseteq 0..L
    BY DEF ReactStops
  <1>3. \A n \in 0..L : Left(n) \in Seq(ReactMessages) /\ Len(Left(n)) = L - n
    BY Halves
  <1>4. \A n \in 0..L : n \in stop <=> \/ Left(n) = <<>>
                                       \/ Loop!Tokens(Left(n)) <= ForLoop.Window
                                       \/ Loop!FirstChunk(Left(n)) = Len(Left(n))
    BY Zenon DEF ReactStops
  <1>5. L \in stop
    <2>1. L \in 0..L
      BY <1>2
    <2>2. Left(L) \in Seq(ReactMessages) /\ Len(Left(L)) = 0
      BY <1>2, <1>3, <2>1
    <2>3. Left(L) = <<>>
      BY <2>2
    <2> QED BY <1>4, <2>1, <2>3, Zenon
  <1>6. ASSUME NEW n \in (0..L) \ stop
        PROVE  n + Loop!FirstChunk(Left(n)) \in n + 1..L
    <2>1. PICK rest : rest = Left(n)
      OBVIOUS
    <2>2. rest \in Seq(ReactMessages) /\ Len(rest) = L - n /\ rest # <<>>
      BY <1>3, <1>4, <2>1
    <2>3. Loop!FirstChunk(rest) \in 1..Len(rest)
      BY <2>2, ReactChunk
    <2>4. PICK k : k = Loop!FirstChunk(rest)
      OBVIOUS
    <2>5. n + k \in n + 1..L
      BY <1>2, <2>2, <2>3, <2>4
    <2> QED BY <2>1, <2>4, <2>5
  <1>7. next \in [0..L -> 0..L] /\ \A n \in (0..L) \ stop : next[n] > n
    <2>1. \A n \in (0..L) \ stop : next[n] \in n + 1..L
      BY <1>6
    <2>2. \A n \in 0..L : next[n] \in 0..L
      <3>1. \A n \in stop : n \in 0..L /\ next[n] = n
        BY <1>2
      <3> HIDE DEF next, stop
      <3> QED BY <1>2, <2>1, <3>1
    <2>3. \A n \in (0..L) \ stop : next[n] > n
      <3> HIDE DEF next, stop
      <3> QED BY <1>2, <2>1
    <2>4. next \in [0..L -> 0..L]
      BY <2>2
    <2> QED BY <2>3, <2>4
  <1>8. ASSUME NEW f
        PROVE  Is(f) <=> f = [n \in 0..L |->
                  IF Left(n) = <<>> \/ Loop!Tokens(Left(n)) <= ForLoop.Window
                     \/ Loop!FirstChunk(Left(n)) = Len(Left(n))
                  THEN n ELSE f[n + Loop!FirstChunk(Left(n))]]
    <2>1. \A n \in 0..L : (IF n \in stop THEN n ELSE f[next[n]]) =
              IF Left(n) = <<>> \/ Loop!Tokens(Left(n)) <= ForLoop.Window
                 \/ Loop!FirstChunk(Left(n)) = Len(Left(n))
              THEN n ELSE f[n + Loop!FirstChunk(Left(n))]
      <3> TAKE n \in 0..L
      <3>1. n \notin stop => next[n] = n + Loop!FirstChunk(Left(n))
        OBVIOUS
      <3> HIDE DEF next, stop
      <3> QED BY <1>4, <3>1, Zenon
    <2> HIDE DEF next, stop
    <2> QED BY <2>1
  <1>9. \E f : Is(f)
    <2> HIDE DEF next, stop
    <2> QED BY <1>2, <1>5, <1>7, WalkIs
  <1>10. Is(drop)
    <2>1. PICK f : Is(f)
      BY <1>9
    <2>2. f = [n \in 0..L |->
                  IF Left(n) = <<>> \/ Loop!Tokens(Left(n)) <= ForLoop.Window
                     \/ Loop!FirstChunk(Left(n)) = Len(Left(n))
                  THEN n ELSE f[n + Loop!FirstChunk(Left(n))]]
      BY <1>8, <2>1, Zenon
    <2>3. drop = [n \in 0..L |->
                  IF Left(n) = <<>> \/ Loop!Tokens(Left(n)) <= ForLoop.Window
                     \/ Loop!FirstChunk(Left(n)) = Len(Left(n))
                  THEN n ELSE drop[n + Loop!FirstChunk(Left(n))]]
      BY <2>2, Zenon
    <2> HIDE DEF drop, next, stop
    <2> QED BY <1>8, <2>3, Zenon
  <1>11. drop[0] \in stop
    <2> HIDE DEF drop, next, stop
    <2>1. \A n \in 0..L : drop[n] \in stop
      BY <1>2, <1>5, <1>7, <1>10, WalkStops
    <2> QED BY <1>2, <2>1
  <1> HIDE DEF drop
  <1> QED BY <1>1, <1>11

\* Every result is behind the call it answers.
ReactPaired(s) ==
    \A i \in 1..Len(s) : s[i].is = "result" =>
       \E j \in 1..i - 1 : s[j].is = "calls" /\ s[j].of = s[i].of /\ s[i].no <= s[j].no

\* The guidance in a conversation.
ReactHeard(s) == {i \in 1..Len(s) : s[i].is = "guidance"}
ReactGuides(s) == Cardinality(ReactHeard(s))

\* The numbers up to n are n.
LEMMA NumbersTo ==
    ASSUME NEW n \in Nat
    PROVE  IsFiniteSet(1..n) /\ Cardinality(1..n) = n
  <1>1. 1 \in Int /\ n \in Int
    OBVIOUS
  <1>2. IsFiniteSet(1..n) /\ Cardinality(1..n) = IF 1 > n THEN 0 ELSE (n - 1) + 1
    BY <1>1, FS_Interval
  <1> QED BY <1>2

\* The guidance of a conversation can be counted.
LEMMA ReactHeardFinite ==
    ASSUME NEW s \in Seq(ReactMessages)
    PROVE  IsFiniteSet(ReactHeard(s)) /\ ReactGuides(s) \in Nat /\ ReactHeard(s) \subseteq 1..Len(s)
  <1>1. Len(s) \in Nat
    OBVIOUS
  <1>2. IsFiniteSet(1..Len(s)) /\ ReactHeard(s) \subseteq 1..Len(s)
    BY <1>1, NumbersTo DEF ReactHeard
  <1> QED BY <1>2, FS_Subset, FS_CardinalityType DEF ReactGuides

\* What is taken of a conversation.
LEMMA ReactTaken ==
    ASSUME LoopParameters, NEW s \in Seq(ReactMessages), NEW P \in SUBSET (1..Len(s))
    PROVE  LET t == Taken(s, P)
           IN  /\ t \in Seq(ReactMessages) /\ Loop!Taken(s, P) = t
               /\ \A k \in 1..Len(t) : \E i \in P : t[k] = s[i]
               /\ \E spot \in [1..Len(t) -> P] : \A k \in 1..Len(t) :
                     t[k] = s[spot[k]] /\ \A j \in 1..Len(t) : spot[j] = spot[k] => j = k
               /\ ReactGuides(t) <= ReactGuides(s)
               /\ ReactPaired(s)
                  /\ (\A i \in P : \A j \in 1..i - 1 :
                        s[i].is = "result" /\ s[j].is = "calls" /\ s[j].of = s[i].of => j \in P)
                  => ReactPaired(t)
  <1> DEFINE t == Taken(s, P)
             spot == Places(P)
  <1>1. /\ t \in Seq(ReactMessages) /\ Len(t) \in Nat
        /\ \A k \in 1..Len(t) : spot[k] \in P /\ t[k] = s[spot[k]]
        /\ \A i \in P : \E k \in 1..Len(t) : spot[k] = i /\ t[k] = s[i]
        /\ \A j, k \in 1..Len(t) : j < k => spot[j] < spot[k]
    BY Taking
  <1> HIDE DEF t, spot
  <1>2. \A i \in P : i \in 1..Len(s) /\ i \in Nat
    OBVIOUS
  <1>3. \A j, k \in 1..Len(t) : spot[j] = spot[k] => j = k
    <2> SUFFICES ASSUME NEW j \in 1..Len(t), NEW k \in 1..Len(t), spot[j] = spot[k], j # k
                 PROVE  FALSE
      OBVIOUS
    <2>1. j < k \/ k < j
      OBVIOUS
    <2>2. spot[j] < spot[k] \/ spot[k] < spot[j]
      BY <1>1, <2>1
    <2>3. spot[j] \in Nat /\ spot[k] \in Nat
      BY <1>1, <1>2
    <2> QED BY <2>2, <2>3
  <1>4. \A j, k \in 1..Len(t) : spot[j] < spot[k] => j < k
    <2> SUFFICES ASSUME NEW j \in 1..Len(t), NEW k \in 1..Len(t), spot[j] < spot[k], ~(j < k)
                 PROVE  FALSE
      OBVIOUS
    <2>1. k < j \/ k = j
      OBVIOUS
    <2>2. spot[k] < spot[j] \/ spot[k] = spot[j]
      BY <1>1, <2>1
    <2>3. spot[j] \in Nat /\ spot[k] \in Nat
      BY <1>1, <1>2
    <2> QED BY <2>2, <2>3
  <1>5. ReactGuides(t) <= ReactGuides(s)
    <2> DEFINE f == [k \in ReactHeard(t) |-> spot[k]]
    <2>1. \A k \in ReactHeard(t) : spot[k] \in ReactHeard(s)
      BY <1>1, <1>2 DEF ReactHeard
    <2>2. f \in Injection(ReactHeard(t), ReactHeard(s))
      BY <1>1, <1>3, <2>1, ReactHeardFinite DEF Injection, IsInjective
    <2> QED BY <1>1, <2>2, ReactHeardFinite, FS_Injection DEF ReactGuides
  <1>6. ASSUME ReactPaired(s),
               \A i \in P : \A j \in 1..i - 1 :
                  s[i].is = "result" /\ s[j].is = "calls" /\ s[j].of = s[i].of => j \in P
        PROVE  ReactPaired(t)
    <2> SUFFICES ASSUME NEW k \in 1..Len(t), t[k].is = "result"
                 PROVE  \E j \in 1..k - 1 : t[j].is = "calls" /\ t[j].of = t[k].of /\ t[k].no <= t[j].no
      BY DEF ReactPaired
    <2>1. PICK i \in P : i = spot[k] /\ t[k] = s[i] /\ i \in 1..Len(s)
      BY <1>1, <1>2
    <2>2. PICK j \in 1..i - 1 : s[j].is = "calls" /\ s[j].of = s[i].of /\ s[i].no <= s[j].no
      BY <1>6, <2>1 DEF ReactPaired
    <2>3. j \in P /\ j < i
      BY <1>2, <1>6, <2>1, <2>2
    <2>4. PICK l \in 1..Len(t) : spot[l] = j /\ t[l] = s[j]
      BY <1>1, <2>3
    <2>5. l < k
      BY <1>4, <2>1, <2>3, <2>4
    <2>6. l \in 1..k - 1
      BY <1>1, <2>5
    <2> QED BY <2>1, <2>2, <2>4, <2>6
  <1>7. \A k \in 1..Len(t) : \E i \in P : t[k] = s[i]
    BY <1>1
  <1>8. Loop!Taken(s, P) = t
    BY ReactListings DEF t
  <1>9. \E f \in [1..Len(t) -> P] : \A k \in 1..Len(t) :
           t[k] = s[f[k]] /\ \A j \in 1..Len(t) : f[j] = f[k] => j = k
    <2> DEFINE f == [k \in 1..Len(t) |-> spot[k]]
    <2>1. f \in [1..Len(t) -> P] /\ \A k \in 1..Len(t) : f[k] = spot[k]
      BY <1>1
    <2> HIDE DEF f
    <2>2. \A k \in 1..Len(t) : t[k] = s[f[k]]
      BY <1>1, <2>1
    <2>3. \A j, k \in 1..Len(t) : f[j] = f[k] => j = k
      BY <1>3, <2>1
    <2> QED BY <2>1, <2>2, <2>3, ZenonT(80)
  <1> QED BY <1>1, <1>5, <1>6, <1>7, <1>8, <1>9 DEF t

\* Two conversations, one behind the other.
LEMMA ReactJoined ==
    ASSUME NEW s \in Seq(ReactMessages), NEW r \in Seq(ReactMessages)
    PROVE  /\ s \o r \in Seq(ReactMessages)
           /\ ReactGuides(s \o r) = ReactGuides(s) + ReactGuides(r)
           /\ ReactPaired(s) /\ ReactPaired(r) => ReactPaired(s \o r)
  <1>1. /\ s \o r \in Seq(ReactMessages) /\ Len(s \o r) = Len(s) + Len(r)
        /\ Len(s) \in Nat /\ Len(r) \in Nat
        /\ \A i \in 1..Len(s) : (s \o r)[i] = s[i]
        /\ \A i \in 1..Len(r) : (s \o r)[Len(s) + i] = r[i]
        /\ \A i \in 1..Len(s) + Len(r) : i \in 1..Len(s) \/ i - Len(s) \in 1..Len(r)
    BY Joined
  <1>2. PICK t, m, n : t = s \o r /\ m = Len(s) /\ n = Len(r)
    OBVIOUS
  <1>3. /\ t \in Seq(ReactMessages) /\ Len(t) = m + n /\ m \in Nat /\ n \in Nat
        /\ \A i \in 1..m : t[i] = s[i]
        /\ \A i \in 1..n : t[m + i] = r[i]
        /\ \A i \in 1..m + n : i \in 1..m \/ i - m \in 1..n
    BY <1>1, <1>2, Zenon
  <1>4. \A i \in 1..n : m + i \in 1..m + n /\ m + i \notin 1..m
    BY <1>3
  <1>5. \A i \in 1..m + n : i - m \in 1..n => m + (i - m) = i
    BY <1>3
  <1>6. ReactGuides(t) = ReactGuides(s) + ReactGuides(r)
    <2> DEFINE back == {m + i : i \in ReactHeard(r)}
               f == [i \in ReactHeard(r) |-> m + i]
    <2>1. ReactHeard(t) = ReactHeard(s) \union back /\ ReactHeard(s) \intersect back = {}
      <3>1. \A i : i \in ReactHeard(t) => i \in ReactHeard(s) \/ i \in back
        <4> SUFFICES ASSUME NEW i \in 1..m + n, t[i].is = "guidance"
                     PROVE  i \in ReactHeard(s) \/ i \in back
          BY <1>3 DEF ReactHeard
        <4>1. CASE i \in 1..m
          BY <1>2, <1>3, <4>1 DEF ReactHeard
        <4>2. CASE i - m \in 1..n
          <5>1. t[i] = r[i - m]
            BY <1>3, <1>5, <4>2
          <5>2. i - m \in ReactHeard(r)
            BY <1>2, <4>2, <5>1 DEF ReactHeard
          <5> QED BY <1>5, <4>2, <5>2
        <4> QED BY <1>3, <4>1, <4>2
      <3>2. \A i \in ReactHeard(s) : i \in 1..m /\ i \in 1..m + n /\ t[i].is = "guidance"
        BY <1>2, <1>3 DEF ReactHeard
      <3>3. \A i \in ReactHeard(r) : i \in 1..n /\ t[m + i].is = "guidance"
        BY <1>2, <1>3 DEF ReactHeard
      <3>4. \A i \in back : i \in 1..m + n /\ i \notin 1..m /\ t[i].is = "guidance"
        BY <1>4, <3>3
      <3>5. \A i : i \in ReactHeard(t) <=> i \in 1..m + n /\ t[i].is = "guidance"
        BY <1>3 DEF ReactHeard
      <3> HIDE DEF back
      <3> QED BY <3>1, <3>2, <3>4, <3>5
    <2>2. /\ IsFiniteSet(ReactHeard(r)) /\ ReactGuides(r) \in Nat
          /\ IsFiniteSet(ReactHeard(s)) /\ ReactGuides(s) \in Nat
          /\ ReactHeard(r) \subseteq 1..n
      BY <1>2, ReactHeardFinite, Zenon
    <2>3. f \in Bijection(ReactHeard(r), back)
      BY <1>3, <2>2 DEF Bijection, Injection, Surjection, IsInjective
    <2>4. IsFiniteSet(back) /\ Cardinality(back) = ReactGuides(r)
      <3> HIDE DEF f, back
      <3> QED BY <2>2, <2>3, FS_Bijection DEF ReactGuides, ExistsBijection
    <2> HIDE DEF back
    <2>5. Cardinality(ReactHeard(s) \union back)
          = Cardinality(ReactHeard(s)) + Cardinality(back) - Cardinality(ReactHeard(s) \intersect back)
      BY <2>2, <2>4, FS_Union
    <2>6. Cardinality(ReactHeard(s) \intersect back) = 0
      BY <2>1, FS_EmptySet
    <2> QED BY <2>1, <2>2, <2>4, <2>5, <2>6 DEF ReactGuides
  <1>7. ASSUME ReactPaired(s), ReactPaired(r) PROVE ReactPaired(t)
    <2> SUFFICES ASSUME NEW i \in 1..m + n, t[i].is = "result"
                 PROVE  \E j \in 1..i - 1 : t[j].is = "calls" /\ t[j].of = t[i].of /\ t[i].no <= t[j].no
      BY <1>3 DEF ReactPaired
    <2>1. CASE i \in 1..m
      <3>1. PICK j \in 1..i - 1 : s[j].is = "calls" /\ s[j].of = s[i].of /\ s[i].no <= s[j].no
        BY <1>2, <1>3, <1>7, <2>1 DEF ReactPaired
      <3>2. t[j] = s[j] /\ t[i] = s[i]
        BY <1>3, <2>1, <3>1
      <3> QED BY <3>1, <3>2
    <2>2. CASE i - m \in 1..n
      <3>1. t[i] = r[i - m]
        BY <1>3, <1>5, <2>2
      <3>2. PICK j \in 1..i - m - 1 : r[j].is = "calls" /\ r[j].of = r[i - m].of /\ r[i - m].no <= r[j].no
        BY <1>2, <1>7, <2>2, <3>1 DEF ReactPaired
      <3>3. m + j \in 1..i - 1 /\ j \in 1..n
        BY <1>3, <2>2, <3>2, SMTT(40)
      <3>4. t[m + j] = r[j]
        BY <1>3, <3>3
      <3> QED BY <3>1, <3>2, <3>3, <3>4
    <2> QED BY <1>3, <2>1, <2>2
  <1> QED BY <1>2, <1>3, <1>6, <1>7

\* What the compressor keeps.
LEMMA ReactKept ==
    ASSUME LoopParameters, NEW s \in Seq(ReactMessages), NEW n \in 0..Len(s)
    PROVE  LET t == Loop!Keep(s, n)
           IN  /\ t \in Seq(ReactMessages) /\ ReactGuides(t) <= ReactGuides(s)
               /\ ReactPaired(s) => ReactPaired(t)
               /\ n \in ReactStops(s) => Loop!Tokens(t) <= ForLoop.Window \/ Len(t) <= 1
  <1> DEFINE gone == {s[i].of : i \in {i \in 1..n : s[i].is = "calls"}}
             P == {i \in n + 1..Len(s) : ~(s[i].is = "result" /\ s[i].of \in gone)}
             t == Taken(s, P)
             rest == SubSeq(s, n + 1, Len(s))
  <1>1. Len(s) \in Nat /\ n \in Nat /\ P \in SUBSET (1..Len(s))
    OBVIOUS
  <1>2. /\ t \in Seq(ReactMessages) /\ Loop!Taken(s, P) = t
        /\ \E spot \in [1..Len(t) -> P] : \A k \in 1..Len(t) :
              t[k] = s[spot[k]] /\ \A j \in 1..Len(t) : spot[j] = spot[k] => j = k
        /\ ReactGuides(t) <= ReactGuides(s)
        /\ ReactPaired(s)
           /\ (\A i \in P : \A j \in 1..i - 1 :
                 s[i].is = "result" /\ s[j].is = "calls" /\ s[j].of = s[i].of => j \in P)
           => ReactPaired(t)
    <2> HIDE DEF P
    <2> QED BY <1>1, ReactTaken
  <1>3. Loop!Keep(s, n) = t
    BY <1>2 DEF Loop!Keep
  <1>4. ASSUME NEW i \in P, NEW j \in 1..i - 1,
               s[i].is = "result", s[j].is = "calls", s[j].of = s[i].of
        PROVE  j \in P
    <2>1. i \in n + 1..Len(s) /\ s[i].of \notin gone
      BY <1>4
    <2>2. j \in 1..n \/ j \in n + 1..Len(s)
      BY <1>1, <2>1
    <2>3. j \notin 1..n
      BY <1>4, <2>1
    <2>4. s[j].is # "result"
      BY <1>4
    <2> QED BY <2>2, <2>3, <2>4
  <1>5. rest \in Seq(ReactMessages) /\ Len(rest) = Len(s) - n
        /\ \A i \in 1..Len(s) - n : rest[i] = s[n + i]
    BY Halves
  <1>6. Loop!Tokens(t) <= Loop!Tokens(rest) /\ Len(t) <= Len(rest)
    <2>1. PICK spot \in [1..Len(t) -> P] : \A k \in 1..Len(t) :
             t[k] = s[spot[k]] /\ \A j \in 1..Len(t) : spot[j] = spot[k] => j = k
      BY <1>2, Zenon
    <2> DEFINE f == [k \in 1..Len(t) |-> spot[k] - n]
    <2>2. \A i \in P : i - n \in 1..Len(s) - n /\ n + (i - n) = i
      BY <1>1
    <2>3. \A k \in 1..Len(t) : spot[k] \in P
      BY <2>1
    <2> HIDE DEF P, t, rest
    <2>4. f \in [1..Len(t) -> 1..Len(rest)]
      BY <1>5, <2>2, <2>3
    <2>5. \A k \in 1..Len(t) : t[k] = rest[f[k]]
      <3>1. \A i \in P : rest[i - n] = s[i]
        <4> TAKE i \in P
        <4>1. i - n \in 1..Len(s) - n
          BY <2>2
        <4>2. rest[i - n] = s[n + (i - n)]
          BY <1>5, <4>1, Zenon
        <4> QED BY <2>2, <4>2
      <3> QED BY <2>1, <2>3, <3>1
    <2>6. \A j, k \in 1..Len(t) : f[j] = f[k] => j = k
      <3> SUFFICES ASSUME NEW j \in 1..Len(t), NEW k \in 1..Len(t), f[j] = f[k] PROVE j = k
        OBVIOUS
      <3>1. spot[j] - n = spot[k] - n
        OBVIOUS
      <3>2. spot[j] = spot[k]
        BY <2>2, <2>3, <3>1
      <3> QED BY <2>1, <3>2
    <2> HIDE DEF f
    <2> QED BY <1>2, <1>5, <2>4, <2>5, <2>6, ReactFewer, ZenonT(60)
  <1>7. ASSUME n \in ReactStops(s) PROVE Loop!Tokens(t) <= ForLoop.Window \/ Len(t) <= 1
    <2>1. rest = <<>> \/ Loop!Tokens(rest) <= ForLoop.Window
          \/ Loop!FirstChunk(rest) = Len(rest)
      BY <1>7, Zenon DEF ReactStops
    <2> HIDE DEF t, rest
    <2>2. /\ Len(t) \in Nat /\ Len(rest) \in Nat /\ ForLoop.Window \in Nat
          /\ Loop!Tokens(t) \in Nat /\ Loop!Tokens(rest) \in Nat
      BY <1>2, <1>5, ReactTokens DEF LoopParameters
    <2>3. CASE rest = <<>>
      BY <1>6, <2>2, <2>3
    <2>4. CASE Loop!Tokens(rest) <= ForLoop.Window
      BY <1>6, <2>2, <2>4
    <2>5. CASE rest # <<>> /\ Loop!FirstChunk(rest) = Len(rest)
      <3>1. Loop!Tokens(rest) = 0 \/ Len(rest) = 1
        BY <1>5, <2>5, ReactChunk
      <3>2. CASE Loop!Tokens(rest) = 0
        <4>1. 0 <= ForLoop.Window
          BY <2>2
        <4>2. Loop!Tokens(t) = 0
          BY <1>6, <2>2, <3>2
        <4> QED BY <4>1, <4>2
      <3> QED BY <1>6, <3>1, <3>2
    <2> QED BY <2>1, <2>3, <2>4, <2>5
  <1> HIDE DEF t, P
  <1> QED BY <1>2, <1>3, <1>4, <1>7

\* A message at the end of a conversation.
LEMMA ReactAdded ==
    ASSUME LoopParameters, NEW s \in Seq(ReactMessages), NEW m \in ReactMessages
    PROVE  /\ Append(s, m) \in Seq(ReactMessages)
           /\ ReactGuides(Append(s, m)) = ReactGuides(s) + (IF m.is = "guidance" THEN 1 ELSE 0)
           /\ ReactPaired(s)
              /\ (m.is = "result" => \E j \in 1..Len(s) :
                     s[j].is = "calls" /\ s[j].of = m.of /\ m.no <= s[j].no)
              => ReactPaired(Append(s, m))
  <1>1. /\ Append(s, m) \in Seq(ReactMessages) /\ Len(Append(s, m)) = Len(s) + 1 /\ Len(s) \in Nat
        /\ \A i \in 1..Len(s) : Append(s, m)[i] = s[i]
        /\ Append(s, m)[Len(s) + 1] = m
    BY Added
  <1>2. PICK t, n : t = Append(s, m) /\ n = Len(s)
    OBVIOUS
  <1>3. /\ t \in Seq(ReactMessages) /\ Len(t) = n + 1 /\ n \in Nat
        /\ \A i \in 1..n : t[i] = s[i]
        /\ t[n + 1] = m
    BY <1>1, <1>2, Zenon
  <1>4. ReactHeard(t) = ReactHeard(s) \union (IF m.is = "guidance" THEN {n + 1} ELSE {})
    <2>1. \A i : i \in 1..n + 1 <=> i \in 1..n \/ i = n + 1
      BY <1>3
    <2> QED BY <1>2, <1>3, <2>1 DEF ReactHeard
  <1>5. ReactGuides(t) = ReactGuides(s) + (IF m.is = "guidance" THEN 1 ELSE 0)
    <2>1. IsFiniteSet(ReactHeard(s)) /\ ReactGuides(s) \in Nat /\ ReactHeard(s) \subseteq 1..n
      BY <1>2, ReactHeardFinite, Zenon
    <2>2. n + 1 \notin ReactHeard(s)
      BY <1>3, <2>1
    <2>3. CASE m.is = "guidance"
      BY <1>4, <2>1, <2>2, <2>3, FS_AddElement DEF ReactGuides
    <2>4. CASE m.is # "guidance"
      BY <1>4, <2>1, <2>4 DEF ReactGuides
    <2> QED BY <2>3, <2>4
  <1>6. ASSUME ReactPaired(s),
               m.is = "result" => \E j \in 1..n : s[j].is = "calls" /\ s[j].of = m.of /\ m.no <= s[j].no
        PROVE  ReactPaired(t)
    <2> SUFFICES ASSUME NEW i \in 1..n + 1, t[i].is = "result"
                 PROVE  \E j \in 1..i - 1 : t[j].is = "calls" /\ t[j].of = t[i].of /\ t[i].no <= t[j].no
      BY <1>3 DEF ReactPaired
    <2>1. CASE i = n + 1
      <3>1. PICK j \in 1..n : s[j].is = "calls" /\ s[j].of = m.of /\ m.no <= s[j].no
        BY <1>3, <1>6, <2>1
      <3>2. j \in 1..i - 1
        BY <1>3, <2>1
      <3> QED BY <1>3, <2>1, <3>1, <3>2
    <2>2. CASE i \in 1..n
      <3>1. PICK j \in 1..i - 1 : s[j].is = "calls" /\ s[j].of = s[i].of /\ s[i].no <= s[j].no
        BY <1>2, <1>3, <1>6, <2>2 DEF ReactPaired
      <3>2. t[j] = s[j] /\ t[i] = s[i]
        BY <1>3, <2>2, <3>1
      <3> QED BY <3>1, <3>2
    <2> QED BY <1>3, <2>1, <2>2
  <1> QED BY <1>2, <1>3, <1>5, <1>6

\* A note, which is no call and no result.
LEMMA ReactNotes ==
    /\ \A is \in Loop!MessageKinds : Loop!Note(is) \in ReactMessages
    /\ \A is : Loop!Note(is).is = is
    /\ {"task", "reply", "calls", "result", "unpaired", "guidance", "summary", "core", "complete",
        "incomplete"} = Loop!MessageKinds
    /\ Loop!Results = {"result", "unpaired"}
  BY DEF Loop!Note, Loop!Message, ReactMessages, Loop!MessageKinds, Loop!Marks, Loop!Results

\* The guidance that waited, at the end of a conversation.
LEMMA ReactDrained ==
    ASSUME LoopParameters, NEW s \in Seq(ReactMessages), NEW n \in Nat
    PROVE  LET t == Loop!Drained(s, n)
           IN  /\ t \in Seq(ReactMessages) /\ ReactGuides(t) = ReactGuides(s) + n
               /\ ReactPaired(s) => ReactPaired(t)
  <1> DEFINE g == [i \in 1..n |-> Loop!Note("guidance")]
  <1>1. g \in Seq(ReactMessages) /\ Len(g) = n /\ \A i \in 1..n : g[i].is = "guidance"
    BY ReactNotes
  <1>2. Loop!Drained(s, n) = s \o g
    BY DEF Loop!Drained
  <1> HIDE DEF g
  <1>3. ReactHeard(g) = 1..n
    BY <1>1 DEF ReactHeard
  <1>4. ReactGuides(g) = n
    BY <1>3, NumbersTo DEF ReactGuides
  <1>5. ReactPaired(g)
    BY <1>1 DEF ReactPaired
  <1> QED BY <1>1, <1>2, <1>4, <1>5, ReactJoined

\* What the model of a smart context is shown.
LEMMA ReactOnly ==
    ASSUME LoopParameters, NEW s \in Seq(ReactMessages), NEW kinds
    PROVE  LET t == Loop!Only(s, kinds)
           IN  /\ t \in Seq(ReactMessages) /\ ReactGuides(t) <= ReactGuides(s)
               /\ "guidance" \notin kinds => ReactGuides(t) = 0
               /\ "result" \notin kinds \/ (ReactPaired(s) /\ "calls" \in kinds) => ReactPaired(t)
  <1> DEFINE P == {i \in 1..Len(s) : s[i].is \in kinds}
             t == Taken(s, P)
  <1>1. DOMAIN s = 1..Len(s) /\ P \in SUBSET (1..Len(s))
    OBVIOUS
  <1>2. /\ t \in Seq(ReactMessages) /\ Loop!Taken(s, P) = t
        /\ \A k \in 1..Len(t) : \E i \in P : t[k] = s[i]
        /\ ReactGuides(t) <= ReactGuides(s)
        /\ ReactPaired(s)
           /\ (\A i \in P : \A j \in 1..i - 1 :
                 s[i].is = "result" /\ s[j].is = "calls" /\ s[j].of = s[i].of => j \in P)
           => ReactPaired(t)
    <2> HIDE DEF P
    <2> QED BY <1>1, ReactTaken
  <1>3. Loop!Only(s, kinds) = t
    BY <1>1, <1>2 DEF Loop!Only
  <1> HIDE DEF t
  <1>4. \A k \in 1..Len(t) : t[k].is \in kinds
    BY <1>2
  <1>5. ASSUME "guidance" \notin kinds PROVE ReactGuides(t) = 0
    <2>1. ReactHeard(t) = {}
      BY <1>4, <1>5 DEF ReactHeard
    <2> QED BY <2>1, FS_EmptySet DEF ReactGuides
  <1>6. ASSUME "result" \notin kinds PROVE ReactPaired(t)
    BY <1>4, <1>6 DEF ReactPaired
  <1>7. ASSUME ReactPaired(s), "calls" \in kinds PROVE ReactPaired(t)
    <2>1. ASSUME NEW i \in P, NEW j \in 1..i - 1, s[j].is = "calls" PROVE j \in P
      <3>1. Len(s) \in Nat /\ i \in 1..Len(s)
        OBVIOUS
      <3>2. j \in 1..Len(s)
        BY <3>1
      <3> QED BY <1>7, <2>1, <3>2
    <2> HIDE DEF P
    <2> QED BY <1>2, <1>7, <2>1
  <1> QED BY <1>2, <1>3, <1>5, <1>6, <1>7

\* Ordering for the model keeps messages, pairs and guidance.
LEMMA ReactOrdered ==
    ASSUME LoopParameters, NEW s \in Seq(ReactMessages)
    PROVE  LET t == Loop!Ordered(s)
           IN  /\ t \in Seq(ReactMessages) /\ ReactGuides(t) <= ReactGuides(s)
               /\ ReactPaired(s) => ReactPaired(t)
  <1> DEFINE rest == Loop!MessageKinds \ (Loop!Marks \union {"task"})
  <1>1. "calls" \in rest
    BY DEF Loop!MessageKinds, Loop!Marks
  <1> HIDE DEF rest
  <1>2. PICK a, b, c, d : /\ a = Loop!Only(s, {"core"})
                          /\ b = Loop!Only(s, {"complete", "incomplete"})
                          /\ c = Loop!Only(s, {"task"}) /\ d = Loop!Only(s, rest)
    OBVIOUS
  <1>3. /\ "guidance" \notin {"core"} /\ "guidance" \notin {"complete", "incomplete"}
        /\ "guidance" \notin {"task"} /\ "result" \notin {"core"}
        /\ "result" \notin {"complete", "incomplete"} /\ "result" \notin {"task"}
    OBVIOUS
  <1>4. /\ a \in Seq(ReactMessages) /\ ReactGuides(a) = 0 /\ ReactPaired(a)
        /\ b \in Seq(ReactMessages) /\ ReactGuides(b) = 0 /\ ReactPaired(b)
        /\ c \in Seq(ReactMessages) /\ ReactGuides(c) = 0 /\ ReactPaired(c)
    BY <1>2, <1>3, ReactOnly
  <1>5. /\ d \in Seq(ReactMessages) /\ ReactGuides(d) <= ReactGuides(s)
        /\ ReactPaired(s) => ReactPaired(d)
    BY <1>1, <1>2, ReactOnly
  <1>6. PICK e, f : e = a \o b /\ f = e \o c
    OBVIOUS
  <1>7. e \in Seq(ReactMessages) /\ ReactGuides(e) = 0 /\ ReactPaired(e)
    BY <1>4, <1>6, ReactJoined
  <1>8. f \in Seq(ReactMessages) /\ ReactGuides(f) = 0 /\ ReactPaired(f)
    <2>1. /\ e \o c \in Seq(ReactMessages) /\ ReactGuides(e \o c) = 0 + 0
          /\ ReactPaired(e \o c)
      BY <1>4, <1>7, ReactJoined
    <2> QED BY <1>6, <2>1
  <1>9. Loop!Ordered(s) = f \o d
    BY <1>2, <1>6 DEF Loop!Ordered, rest
  <1>10. /\ f \o d \in Seq(ReactMessages) /\ ReactGuides(f \o d) = 0 + ReactGuides(d)
         /\ ReactPaired(d) => ReactPaired(f \o d)
    BY <1>5, <1>8, ReactJoined
  <1>11. ReactGuides(d) \in Nat
    BY <1>5, ReactHeardFinite
  <1> QED BY <1>5, <1>9, <1>10, <1>11

\* The messages that manage_context keeps up to date.
LEMMA ReactMarked ==
    ASSUME LoopParameters, NEW s \in Seq(ReactMessages), NEW value \in BOOLEAN
    PROVE  LET t == Loop!WithComplete(Loop!WithCore(s), value)
           IN  /\ t \in Seq(ReactMessages) /\ ReactGuides(t) = ReactGuides(s)
               /\ ReactPaired(s) => ReactPaired(t)
  <1>1. PICK r : r = Loop!WithCore(s)
    OBVIOUS
  <1>2. ReactGuides(s) \in Nat
    BY ReactHeardFinite
  <1>3. r \in Seq(ReactMessages) /\ ReactGuides(r) = ReactGuides(s) /\ (ReactPaired(s) => ReactPaired(r))
    <2>1. PICK core : core = Loop!Note("core")
      OBVIOUS
    <2>2. core \in ReactMessages /\ core.is = "core"
      BY <2>1, ReactNotes
    <2>3. CASE r = Append(s, core)
      <3>1. /\ Append(s, core) \in Seq(ReactMessages)
            /\ ReactGuides(Append(s, core)) = ReactGuides(s) + 0
            /\ ReactPaired(s) => ReactPaired(Append(s, core))
        BY <2>2, ReactAdded
      <3> QED BY <1>2, <2>3, <3>1
    <2>4. r = s \/ r = Append(s, core)
      BY <1>1, <2>1 DEF Loop!WithCore
    <2> QED BY <2>3, <2>4
  <1>4. PICK mark : mark = Loop!Note(IF value THEN "complete" ELSE "incomplete")
    OBVIOUS
  <1>5. mark \in ReactMessages /\ mark.is \in {"complete", "incomplete"}
    BY <1>4, ReactNotes
  <1> DEFINE over == [i \in DOMAIN r |-> IF r[i].is \in {"complete", "incomplete"} THEN mark ELSE r[i]]
  <1>6. Loop!WithComplete(r, value) \in {over, Append(r, mark)}
    BY <1>4 DEF Loop!WithComplete
  <1>7. /\ over \in Seq(ReactMessages) /\ ReactGuides(over) = ReactGuides(r)
        /\ ReactPaired(r) => ReactPaired(over)
    <2>1. Len(r) \in Nat /\ DOMAIN r = 1..Len(r) /\ \A i \in 1..Len(r) : r[i] \in ReactMessages
      BY <1>3
    <2>2. /\ over = [i \in 1..Len(r) |-> over[i]]
          /\ \A i \in 1..Len(r) : over[i] \in ReactMessages
          /\ \A i \in 1..Len(r) : over[i] = r[i]
                \/ (r[i].is \in {"complete", "incomplete"} /\ over[i].is \in {"complete", "incomplete"})
      BY <1>5, <2>1
    <2> HIDE DEF over
    <2>3. over \in Seq(ReactMessages) /\ Len(over) = Len(r)
      BY <2>1, <2>2
    <2>4. \A i \in 1..Len(r) : /\ over[i].is = "guidance" <=> r[i].is = "guidance"
                               /\ over[i].is = "result" => over[i] = r[i]
                               /\ r[i].is = "calls" => over[i] = r[i]
      BY <2>2
    <2>5. ReactHeard(over) = ReactHeard(r)
      BY <2>3, <2>4 DEF ReactHeard
    <2>6. ASSUME ReactPaired(r) PROVE ReactPaired(over)
      <3> SUFFICES ASSUME NEW i \in 1..Len(r), over[i].is = "result"
                   PROVE  \E j \in 1..i - 1 : /\ over[j].is = "calls" /\ over[j].of = over[i].of
                                              /\ over[i].no <= over[j].no
        BY <2>3 DEF ReactPaired
      <3>1. over[i] = r[i]
        BY <2>4
      <3>2. PICK j \in 1..i - 1 : r[j].is = "calls" /\ r[j].of = r[i].of /\ r[i].no <= r[j].no
        BY <2>6, <3>1 DEF ReactPaired
      <3>3. j \in 1..Len(r)
        BY <2>1
      <3>4. over[j] = r[j]
        BY <2>4, <3>2, <3>3
      <3> QED BY <3>1, <3>2, <3>4
    <2> QED BY <2>3, <2>5, <2>6 DEF ReactGuides
  <1>8. /\ Append(r, mark) \in Seq(ReactMessages) /\ ReactGuides(Append(r, mark)) = ReactGuides(r)
        /\ ReactPaired(r) => ReactPaired(Append(r, mark))
    BY <1>2, <1>3, <1>5, ReactAdded
  <1> HIDE DEF over
  <1> QED BY <1>1, <1>3, <1>6, <1>7, <1>8

\* The m-th call of the message at j has its result behind it.
ReactAnswered(s, j, m) ==
    \E i \in j + 1..Len(s) : s[i].is \in Loop!Results /\ s[i].of = s[j].of /\ s[i].no = m

\* Of each round there is one message of calls.  Those of execution t were made before
\* round r, and each call is answered, but for the first l ones of the round before r.
ReactBooks(s, t, r, l) ==
    /\ \A i \in 1..Len(s) : \A j \in 1..Len(s) :
          s[i].is = "calls" /\ s[j].is = "calls" /\ s[i].of = s[j].of => i = j
    /\ \A j \in 1..Len(s) : s[j].is = "calls" =>
          \/ s[j].of[1] < t
          \/ /\ s[j].of[1] = t /\ s[j].of[2] < r
             /\ \A m \in 1..s[j].no :
                   (s[j].of[2] + 1 = r /\ m <= l) \/ ReactAnswered(s, j, m)

\* The messages of calls of u are those of s, each at the place f says, and what stands
\* behind them in s as their results does so in u.
ReactCarried(s, u, f) ==
    /\ \A k \in 1..Len(u) : u[k].is = "calls" => f[k] \in 1..Len(s) /\ s[f[k]] = u[k]
    /\ \A h \in 1..Len(u) : \A k \in 1..Len(u) :
          u[h].is = "calls" /\ u[k].is = "calls" /\ f[h] = f[k] => h = k
    /\ \A k \in 1..Len(u) : u[k].is = "calls" =>
          \A i \in f[k] + 1..Len(s) : s[i].is \in Loop!Results /\ s[i].of = u[k].of =>
             \E h \in k + 1..Len(u) : u[h] = s[i]

\* A conversation with the calls and the results of another is as well answered.
LEMMA ReactBooksMoved ==
    ASSUME NEW s, NEW u, NEW t, NEW r, NEW l, ReactBooks(s, t, r, l),
           NEW f, ReactCarried(s, u, f)
    PROVE  ReactBooks(u, t, r, l)
  <1> USE DEF ReactCarried
  <1>1. ASSUME NEW h \in 1..Len(u), NEW k \in 1..Len(u),
               u[h].is = "calls", u[k].is = "calls", u[h].of = u[k].of
        PROVE  h = k
    <2>1. /\ f[h] \in 1..Len(s) /\ s[f[h]] = u[h] /\ f[k] \in 1..Len(s) /\ s[f[k]] = u[k]
      BY <1>1
    <2>2. f[h] = f[k]
      BY <1>1, <2>1, Zenon DEF ReactBooks
    <2> QED BY <1>1, <2>2
  <1>2. ASSUME NEW k \in 1..Len(u), u[k].is = "calls"
        PROVE  \/ u[k].of[1] < t
               \/ /\ u[k].of[1] = t /\ u[k].of[2] < r
                  /\ \A m \in 1..u[k].no :
                        (u[k].of[2] + 1 = r /\ m <= l) \/ ReactAnswered(u, k, m)
    <2>1. f[k] \in 1..Len(s) /\ s[f[k]] = u[k]
      BY <1>2
    <2>2. ASSUME NEW m, ReactAnswered(s, f[k], m) PROVE ReactAnswered(u, k, m)
      <3>1. PICK i \in f[k] + 1..Len(s) :
               s[i].is \in Loop!Results /\ s[i].of = u[k].of /\ s[i].no = m
        BY <2>1, <2>2, Zenon DEF ReactAnswered
      <3>2. PICK h \in k + 1..Len(u) : u[h] = s[i]
        BY <1>2, <3>1, Zenon
      <3> QED BY <3>1, <3>2, Zenon DEF ReactAnswered
    <2>3. \/ s[f[k]].of[1] < t
          \/ /\ s[f[k]].of[1] = t /\ s[f[k]].of[2] < r
             /\ \A m \in 1..s[f[k]].no :
                   (s[f[k]].of[2] + 1 = r /\ m <= l) \/ ReactAnswered(s, f[k], m)
      BY <1>2, <2>1, Zenon DEF ReactBooks
    <2> QED BY <2>1, <2>2, <2>3, Zenon
  <1> QED BY <1>1, <1>2, Zenon DEF ReactBooks

\* What is taken of a conversation, with each call the results behind it.
LEMMA ReactTakenBooks ==
    ASSUME NEW s \in Seq(ReactMessages), NEW P \in SUBSET (1..Len(s)), NEW t, NEW r, NEW l,
           ReactBooks(s, t, r, l),
           \A i \in P : s[i].is = "calls" =>
              \A j \in i + 1..Len(s) : s[j].is \in Loop!Results /\ s[j].of = s[i].of => j \in P
    PROVE  ReactBooks(Taken(s, P), t, r, l)
  <1>1. PICK u, at : u = Taken(s, P) /\ at = Places(P)
    OBVIOUS
  <1>2. /\ u \in Seq(ReactMessages) /\ Len(u) \in Nat
        /\ \A k \in 1..Len(u) : at[k] \in P /\ u[k] = s[at[k]]
        /\ \A i \in P : \E k \in 1..Len(u) : at[k] = i /\ u[k] = s[i]
        /\ \A j, k \in 1..Len(u) : j < k => at[j] < at[k]
    BY <1>1, Taking, Zenon
  <1>3. \A i \in P : i \in 1..Len(s) /\ i \in Nat
    OBVIOUS
  <1>4. \A j, k \in 1..Len(u) : at[j] < at[k] => j < k
    <2> SUFFICES ASSUME NEW j \in 1..Len(u), NEW k \in 1..Len(u), at[j] < at[k], ~(j < k)
                 PROVE  FALSE
      OBVIOUS
    <2>1. k < j \/ k = j
      OBVIOUS
    <2>2. at[k] < at[j] \/ at[k] = at[j]
      BY <1>2, <2>1
    <2>3. at[j] \in Nat /\ at[k] \in Nat
      BY <1>2, <1>3
    <2> QED BY <2>2, <2>3
  <1>5. \A h \in 1..Len(u) : \A k \in 1..Len(u) : at[h] = at[k] => h = k
    <2> SUFFICES ASSUME NEW h \in 1..Len(u), NEW k \in 1..Len(u), at[h] = at[k], h # k
                 PROVE  FALSE
      OBVIOUS
    <2>1. h < k \/ k < h
      OBVIOUS
    <2>2. at[h] < at[k] \/ at[k] < at[h]
      BY <1>2, <2>1
    <2>3. at[h] \in Nat /\ at[k] \in Nat
      BY <1>2, <1>3
    <2> QED BY <2>2, <2>3
  <1>6. \A k \in 1..Len(u) : at[k] \in 1..Len(s) /\ s[at[k]] = u[k]
    BY <1>2, <1>3
  <1>7. ASSUME NEW k \in 1..Len(u), u[k].is = "calls", NEW i \in at[k] + 1..Len(s),
               s[i].is \in Loop!Results, s[i].of = u[k].of
        PROVE  \E h \in k + 1..Len(u) : u[h] = s[i]
    <2>1. at[k] \in P /\ at[k] \in Nat /\ s[at[k]] = u[k]
      BY <1>2, <1>3
    <2>2. i \in P
      BY <1>7, <2>1, Zenon
    <2>3. PICK h \in 1..Len(u) : at[h] = i /\ u[h] = s[i]
      BY <1>2, <2>2
    <2>4. at[k] < at[h]
      BY <1>3, <2>1, <2>2, <2>3
    <2>5. k < h
      BY <1>4, <2>4
    <2>6. h \in k + 1..Len(u)
      BY <1>2, <2>5
    <2> QED BY <2>3, <2>6
  <1>8. ReactBooks(u, t, r, l)
    <2>1. ReactCarried(s, u, at)
      BY <1>5, <1>6, <1>7, Zenon DEF ReactCarried
    <2> QED BY <2>1, ReactBooksMoved
  <1> QED BY <1>1, <1>8

\* Two conversations, one behind the other, when only one of them has calls.
LEMMA ReactJoinedBooks ==
    ASSUME NEW s \in Seq(ReactMessages), NEW q \in Seq(ReactMessages), NEW t, NEW r, NEW l
    PROVE  /\ ReactBooks(s, t, r, l) /\ (\A i \in 1..Len(q) : q[i].is # "calls")
              => ReactBooks(s \o q, t, r, l)
           /\ ReactBooks(q, t, r, l) /\ (\A i \in 1..Len(s) : s[i].is # "calls")
              => ReactBooks(s \o q, t, r, l)
  <1>1. PICK u, m, n : u = s \o q /\ m = Len(s) /\ n = Len(q)
    OBVIOUS
  <1>2. /\ u \in Seq(ReactMessages) /\ Len(u) = m + n /\ m \in Nat /\ n \in Nat
        /\ \A i \in 1..m : u[i] = s[i]
        /\ \A i \in 1..n : u[m + i] = q[i]
        /\ \A i \in 1..m + n : i \in 1..m \/ i - m \in 1..n
    <2>1. /\ s \o q \in Seq(ReactMessages) /\ Len(s \o q) = Len(s) + Len(q)
          /\ \A i \in 1..Len(s) : (s \o q)[i] = s[i]
          /\ \A i \in 1..Len(q) : (s \o q)[Len(s) + i] = q[i]
          /\ \A i \in 1..Len(s) + Len(q) : i \in 1..Len(s) \/ i - Len(s) \in 1..Len(q)
      BY Joined
    <2>2. Len(s) \in Nat /\ Len(q) \in Nat
      OBVIOUS
    <2> QED BY <1>1, <2>1, <2>2, Zenon
  <1>3. \A i \in 1..m + n : i \notin 1..m => i - m \in 1..n /\ u[i] = q[i - m]
    <2> SUFFICES ASSUME NEW i \in 1..m + n, i \notin 1..m PROVE i - m \in 1..n /\ u[i] = q[i - m]
      OBVIOUS
    <2>1. i - m \in 1..n
      BY <1>2
    <2>2. m + (i - m) = i
      BY <1>2
    <2>3. u[m + (i - m)] = q[i - m]
      BY <1>2, <2>1, Zenon
    <2> QED BY <2>1, <2>2, <2>3
  <1>4. ASSUME ReactBooks(s, t, r, l), \A i \in 1..n : q[i].is # "calls"
        PROVE  ReactBooks(u, t, r, l)
    <2> DEFINE f == [k \in 1..m + n |-> k]
    <2>1. \A k \in 1..m + n : f[k] = k
      OBVIOUS
    <2> HIDE DEF f
    <2>2. \A k \in 1..m + n : u[k].is = "calls" => k \in 1..m /\ s[k] = u[k]
      BY <1>2, <1>3, <1>4
    <2>3. \A k \in 1..m + n : \A i \in k + 1..m : i \in k + 1..m + n /\ u[i] = s[i]
      BY <1>2
    <2>4. ReactBooks(s, t, r, l)
      BY <1>4
    <2>5. \A k \in 1..Len(u) : u[k].is = "calls" => f[k] \in 1..Len(s) /\ s[f[k]] = u[k]
      BY <1>1, <1>2, <2>1, <2>2
    <2>6. \A h \in 1..Len(u) : \A k \in 1..Len(u) :
             u[h].is = "calls" /\ u[k].is = "calls" /\ f[h] = f[k] => h = k
      BY <1>2, <2>1
    <2>7. \A k \in 1..Len(u) : u[k].is = "calls" =>
             \A i \in f[k] + 1..Len(s) : s[i].is \in Loop!Results /\ s[i].of = u[k].of =>
                \E h \in k + 1..Len(u) : u[h] = s[i]
      BY <1>1, <1>2, <2>1, <2>3
    <2>8. ReactCarried(s, u, f)
      BY <2>5, <2>6, <2>7, Zenon DEF ReactCarried
    <2> QED BY <2>4, <2>8, ReactBooksMoved
  <1>5. ASSUME ReactBooks(q, t, r, l), \A i \in 1..m : s[i].is # "calls"
        PROVE  ReactBooks(u, t, r, l)
    <2> DEFINE f == [k \in 1..m + n |-> k - m]
    <2>1. \A k \in 1..m + n : f[k] = k - m
      OBVIOUS
    <2> HIDE DEF f
    <2>2. \A k \in 1..m + n : u[k].is = "calls" => k - m \in 1..n /\ q[k - m] = u[k]
      BY <1>2, <1>3, <1>5
    <2>3. \A k \in 1..m + n : \A i \in (k - m) + 1..n :
             k - m \in 1..n => m + i \in k + 1..m + n /\ u[m + i] = q[i]
      BY <1>2
    <2>4. ReactBooks(q, t, r, l)
      BY <1>5
    <2>5. \A k \in 1..Len(u) : u[k].is = "calls" => f[k] \in 1..Len(q) /\ q[f[k]] = u[k]
      BY <1>1, <1>2, <2>1, <2>2
    <2>6. \A h \in 1..Len(u) : \A k \in 1..Len(u) :
             u[h].is = "calls" /\ u[k].is = "calls" /\ f[h] = f[k] => h = k
      <3>1. \A h \in 1..m + n : \A k \in 1..m + n : h - m = k - m => h = k
        BY <1>2
      <3>2. \A h \in 1..m + n : \A k \in 1..m + n : f[h] = f[k] => h = k
        BY <2>1, <3>1
      <3> QED BY <1>2, <3>2, Zenon
    <2>7. \A k \in 1..Len(u) : u[k].is = "calls" =>
             \A i \in f[k] + 1..Len(q) : q[i].is \in Loop!Results /\ q[i].of = u[k].of =>
                \E h \in k + 1..Len(u) : u[h] = q[i]
      <3>1. ASSUME NEW k \in 1..m + n, u[k].is = "calls", NEW i \in (k - m) + 1..n
            PROVE  \E h \in k + 1..m + n : u[h] = q[i]
        <4>1. m + i \in k + 1..m + n /\ u[m + i] = q[i]
          BY <2>2, <2>3, <3>1
        <4> QED BY <4>1
      <3>2. \A k \in 1..m + n : u[k].is = "calls" =>
               \A i \in f[k] + 1..n : \E h \in k + 1..m + n : u[h] = q[i]
        BY <2>1, <3>1
      <3>3. Len(u) = m + n /\ Len(q) = n
        BY <1>1, <1>2
      <3> QED BY <3>2, <3>3
    <2>8. ReactCarried(q, u, f)
      BY <2>5, <2>6, <2>7, Zenon DEF ReactCarried
    <2> QED BY <2>4, <2>8, ReactBooksMoved
  <1> QED BY <1>1, <1>4, <1>5

\* A message that calls for nothing, at the end of a conversation.
LEMMA ReactAddedBooks ==
    ASSUME NEW s \in Seq(ReactMessages), NEW e \in ReactMessages, e.is # "calls",
           NEW t, NEW r, NEW l, ReactBooks(s, t, r, l)
    PROVE  ReactBooks(Append(s, e), t, r, l)
  <1>1. /\ <<e>> \in Seq(ReactMessages) /\ Append(s, e) = s \o <<e>>
        /\ \A i \in 1..Len(<<e>>) : <<e>>[i] = e
    OBVIOUS
  <1> QED BY <1>1, ReactJoinedBooks

\* What the compressor keeps: a call that is kept keeps its results, since no other
\* message of calls is of its round.
LEMMA ReactKeptBooks ==
    ASSUME LoopParameters, NEW s \in Seq(ReactMessages), NEW n \in 0..Len(s),
           NEW t, NEW r, NEW l, ReactBooks(s, t, r, l)
    PROVE  ReactBooks(Loop!Keep(s, n), t, r, l)
  <1> DEFINE gone == {s[i].of : i \in {i \in 1..n : s[i].is = "calls"}}
             P == {i \in n + 1..Len(s) : ~(s[i].is = "result" /\ s[i].of \in gone)}
  <1>1. Len(s) \in Nat /\ n \in Nat /\ P \in SUBSET (1..Len(s))
    OBVIOUS
  <1>2. Loop!Keep(s, n) = Taken(s, P)
    BY ReactListings DEF Loop!Keep
  <1>3. ASSUME NEW i \in P, s[i].is = "calls", NEW j \in i + 1..Len(s), s[j].of = s[i].of
        PROVE  j \in P
    <2>1. i \in n + 1..Len(s) /\ i \in 1..Len(s) /\ i \notin 1..n /\ j \in n + 1..Len(s)
      BY <1>1
    <2>2. s[j].of \notin gone
      <3> SUFFICES ASSUME s[j].of \in gone PROVE FALSE
        OBVIOUS
      <3>1. PICK k \in 1..n : s[k].is = "calls" /\ s[k].of = s[j].of
        OBVIOUS
      <3>2. k \in 1..Len(s)
        BY <1>1
      <3>3. k = i
        BY <1>3, <2>1, <3>1, <3>2, Zenon DEF ReactBooks
      <3> QED BY <2>1, <3>3
    <2> QED BY <2>1, <2>2
  <1>4. \A i \in P : s[i].is = "calls" =>
           \A j \in i + 1..Len(s) : s[j].is \in Loop!Results /\ s[j].of = s[i].of => j \in P
    <2> HIDE DEF P
    <2> QED BY <1>3
  <1> HIDE DEF P
  <1> QED BY <1>1, <1>2, <1>4, ReactTakenBooks

\* The guidance that waited calls for nothing.
LEMMA ReactDrainedBooks ==
    ASSUME LoopParameters, NEW s \in Seq(ReactMessages), NEW n \in Nat,
           NEW t, NEW r, NEW l, ReactBooks(s, t, r, l)
    PROVE  ReactBooks(Loop!Drained(s, n), t, r, l)
  <1> DEFINE g == [i \in 1..n |-> Loop!Note("guidance")]
  <1>1. g \in Seq(ReactMessages) /\ Len(g) = n /\ \A i \in 1..n : g[i].is = "guidance"
    BY ReactNotes
  <1>2. Loop!Drained(s, n) = s \o g
    BY DEF Loop!Drained
  <1> HIDE DEF g
  <1>3. \A i \in 1..Len(g) : g[i].is # "calls"
    BY <1>1
  <1> QED BY <1>1, <1>2, <1>3, ReactJoinedBooks

\* What is shown of some kinds of messages.
LEMMA ReactOnlyBooks ==
    ASSUME LoopParameters, NEW s \in Seq(ReactMessages), NEW kinds, NEW t, NEW r, NEW l
    PROVE  /\ \A k \in 1..Len(Loop!Only(s, kinds)) : Loop!Only(s, kinds)[k].is \in kinds
           /\ ReactBooks(s, t, r, l) /\ Loop!Results \subseteq kinds
              => ReactBooks(Loop!Only(s, kinds), t, r, l)
  <1> DEFINE P == {i \in 1..Len(s) : s[i].is \in kinds}
  <1>1. DOMAIN s = 1..Len(s) /\ Len(s) \in Nat /\ P \in SUBSET (1..Len(s))
    OBVIOUS
  <1>2. Loop!Only(s, kinds) = Taken(s, P)
    BY <1>1, ReactListings DEF Loop!Only
  <1>3. \A k \in 1..Len(Taken(s, P)) : \E i \in P : Taken(s, P)[k] = s[i]
    <2> HIDE DEF P
    <2> QED BY <1>1, ReactTaken
  <1>4. \A k \in 1..Len(Taken(s, P)) : Taken(s, P)[k].is \in kinds
    BY <1>3
  <1>5. ASSUME ReactBooks(s, t, r, l), Loop!Results \subseteq kinds
        PROVE  ReactBooks(Taken(s, P), t, r, l)
    <2>1. \A i \in P : s[i].is = "calls" =>
             \A j \in i + 1..Len(s) : s[j].is \in Loop!Results /\ s[j].of = s[i].of => j \in P
      BY <1>1, <1>5
    <2> HIDE DEF P
    <2> QED BY <1>1, <1>5, <2>1, ReactTakenBooks
  <1> HIDE DEF P
  <1> QED BY <1>2, <1>4, <1>5

\* Ordering for the model keeps the results behind their calls.
LEMMA ReactOrderedBooks ==
    ASSUME LoopParameters, NEW s \in Seq(ReactMessages), NEW t, NEW r, NEW l,
           ReactBooks(s, t, r, l)
    PROVE  ReactBooks(Loop!Ordered(s), t, r, l)
  <1> DEFINE rest == Loop!MessageKinds \ (Loop!Marks \union {"task"})
  <1>1. Loop!Results \subseteq rest
    BY DEF Loop!MessageKinds, Loop!Marks, Loop!Results
  <1> HIDE DEF rest
  <1>2. PICK a, b, c, d : /\ a = Loop!Only(s, {"core"})
                          /\ b = Loop!Only(s, {"complete", "incomplete"})
                          /\ c = Loop!Only(s, {"task"}) /\ d = Loop!Only(s, rest)
    OBVIOUS
  <1>3. /\ a \in Seq(ReactMessages) /\ b \in Seq(ReactMessages) /\ c \in Seq(ReactMessages)
        /\ d \in Seq(ReactMessages)
    BY <1>2, ReactOnly
  <1>4. ReactBooks(d, t, r, l)
    BY <1>1, <1>2, ReactOnlyBooks
  <1>5. /\ \A k \in 1..Len(a) : a[k].is \in {"core"}
        /\ \A k \in 1..Len(b) : b[k].is \in {"complete", "incomplete"}
        /\ \A k \in 1..Len(c) : c[k].is \in {"task"}
    BY <1>2, ReactOnlyBooks, Zenon
  <1>6. ASSUME NEW x \in Seq(ReactMessages), NEW y \in Seq(ReactMessages),
               \A i \in 1..Len(x) : x[i].is # "calls", \A i \in 1..Len(y) : y[i].is # "calls"
        PROVE  x \o y \in Seq(ReactMessages) /\ \A i \in 1..Len(x \o y) : (x \o y)[i].is # "calls"
    <2>1. /\ x \o y \in Seq(ReactMessages) /\ Len(x \o y) = Len(x) + Len(y)
          /\ Len(x) \in Nat /\ Len(y) \in Nat
          /\ \A i \in 1..Len(x) : (x \o y)[i] = x[i]
          /\ \A i \in 1..Len(y) : (x \o y)[Len(x) + i] = y[i]
          /\ \A i \in 1..Len(x) + Len(y) : i \in 1..Len(x) \/ i - Len(x) \in 1..Len(y)
      BY Joined
    <2>2. PICK z, m, n : z = x \o y /\ m = Len(x) /\ n = Len(y)
      OBVIOUS
    <2>3. ASSUME NEW i \in 1..m + n PROVE z[i].is # "calls"
      <3>1. CASE i \in 1..m
        BY <1>6, <2>1, <2>2, <3>1
      <3>2. CASE i - m \in 1..n
        <4>1. m + (i - m) = i
          BY <2>1, <2>2
        <4>2. z[m + (i - m)] = y[i - m]
          BY <2>1, <2>2, <3>2, Zenon
        <4> QED BY <1>6, <2>2, <3>2, <4>1, <4>2
      <3> QED BY <2>1, <2>2, <3>1, <3>2
    <2> QED BY <2>1, <2>2, <2>3
  <1>7. PICK e, f : e = a \o b /\ f = e \o c
    OBVIOUS
  <1>8. e \in Seq(ReactMessages) /\ \A i \in 1..Len(e) : e[i].is # "calls"
    BY <1>3, <1>5, <1>6, <1>7
  <1>9. f \in Seq(ReactMessages) /\ \A i \in 1..Len(f) : f[i].is # "calls"
    BY <1>3, <1>5, <1>6, <1>7, <1>8
  <1>10. Loop!Ordered(s) = f \o d
    BY <1>2, <1>7 DEF Loop!Ordered, rest
  <1> QED BY <1>3, <1>4, <1>9, <1>10, ReactJoinedBooks

\* What manage_context writes calls for nothing.
LEMMA ReactMarkedBooks ==
    ASSUME LoopParameters, NEW s \in Seq(ReactMessages), NEW value \in BOOLEAN,
           NEW t, NEW r, NEW l, ReactBooks(s, t, r, l)
    PROVE  ReactBooks(Loop!WithComplete(Loop!WithCore(s), value), t, r, l)
  <1>1. PICK q : q = Loop!WithCore(s)
    OBVIOUS
  <1>2. q \in Seq(ReactMessages) /\ ReactBooks(q, t, r, l)
    <2>1. PICK core : core = Loop!Note("core")
      OBVIOUS
    <2>2. core \in ReactMessages /\ core.is = "core"
      BY <2>1, ReactNotes
    <2>3. q = s \/ q = Append(s, core)
      BY <1>1, <2>1 DEF Loop!WithCore
    <2>4. Append(s, core) \in Seq(ReactMessages) /\ ReactBooks(Append(s, core), t, r, l)
      BY <2>2, ReactAddedBooks
    <2> QED BY <2>3, <2>4
  <1>3. PICK mark : mark = Loop!Note(IF value THEN "complete" ELSE "incomplete")
    OBVIOUS
  <1>4. mark \in ReactMessages /\ mark.is \in {"complete", "incomplete"}
    BY <1>3, ReactNotes
  <1> DEFINE over == [i \in DOMAIN q |-> IF q[i].is \in {"complete", "incomplete"} THEN mark ELSE q[i]]
  <1>5. Loop!WithComplete(q, value) \in {over, Append(q, mark)}
    BY <1>3 DEF Loop!WithComplete
  <1>6. ReactBooks(over, t, r, l)
    <2>1. Len(q) \in Nat /\ DOMAIN q = 1..Len(q)
      BY <1>2
    <2>2. /\ over = [i \in 1..Len(q) |-> over[i]]
          /\ \A i \in 1..Len(q) : \/ over[i] = q[i]
                                  \/ /\ q[i].is \in {"complete", "incomplete"}
                                     /\ over[i].is \in {"complete", "incomplete"}
      BY <1>4, <2>1
    <2> HIDE DEF over
    <2>3. Len(over) = Len(q)
      BY <2>1, <2>2
    <2>4. \A k \in 1..Len(q) : over[k].is = "calls" => q[k] = over[k]
      BY <2>2
    <2>5. \A k \in 1..Len(q) : q[k].is \in Loop!Results => over[k] = q[k]
      BY <2>2 DEF Loop!Results
    <2> DEFINE f == [k \in 1..Len(q) |-> k]
    <2>6. \A k \in 1..Len(q) : f[k] = k
      OBVIOUS
    <2> HIDE DEF f
    <2>7. \A k \in 1..Len(over) : over[k].is = "calls" => f[k] \in 1..Len(q) /\ q[f[k]] = over[k]
      BY <2>3, <2>4, <2>6
    <2>8. \A h \in 1..Len(over) : \A k \in 1..Len(over) :
             over[h].is = "calls" /\ over[k].is = "calls" /\ f[h] = f[k] => h = k
      BY <2>3, <2>6
    <2>9. \A k \in 1..Len(over) : over[k].is = "calls" =>
             \A i \in f[k] + 1..Len(q) : q[i].is \in Loop!Results /\ q[i].of = over[k].of =>
                \E h \in k + 1..Len(over) : over[h] = q[i]
      <3> SUFFICES ASSUME NEW k \in 1..Len(q), NEW i \in k + 1..Len(q), q[i].is \in Loop!Results
                   PROVE  \E h \in k + 1..Len(q) : over[h] = q[i]
        BY <2>3, <2>6
      <3>1. i \in 1..Len(q)
        BY <2>1
      <3> QED BY <2>5, <3>1
    <2>10. ReactCarried(q, over, f)
      BY <2>7, <2>8, <2>9, Zenon DEF ReactCarried
    <2> QED BY <1>2, <2>10, ReactBooksMoved
  <1>7. ReactBooks(Append(q, mark), t, r, l)
    BY <1>2, <1>4, ReactAddedBooks
  <1> HIDE DEF over
  <1> QED BY <1>1, <1>5, <1>6, <1>7

\* A message of calls of the present round, with none of its calls answered.
LEMMA ReactAskedBooks ==
    ASSUME NEW s \in Seq(ReactMessages), NEW t \in Nat, NEW r \in Nat, NEW e \in ReactMessages,
           e.is = "calls", e.of = <<t, r>>, ReactBooks(s, t, r, 0)
    PROVE  ReactBooks(Append(s, e), t, r + 1, e.no)
  <1>1. PICK u, n : u = Append(s, e) /\ n = Len(s)
    OBVIOUS
  <1>2. /\ Len(u) = n + 1 /\ n \in Nat /\ u[n + 1] = e
        /\ \A i \in 1..n : u[i] = s[i] /\ s[i] \in ReactMessages
    <2>1. \A i \in 1..Len(s) : s[i] \in ReactMessages
      OBVIOUS
    <2> QED BY <1>1, <2>1, Added
  <1>3. \A i \in 1..n + 1 : i \in 1..n \/ i = n + 1
    BY <1>2
  <1>4. e.of[1] = t /\ e.of[2] = r /\ e.no \in Nat
    BY DEF ReactMessages
  <1>5. \A j \in 1..n : s[j].is = "calls" =>
           /\ s[j].of[1] \in Nat /\ s[j].of[2] \in Nat /\ s[j].no \in Nat
           /\ s[j].of[1] < t \/ (s[j].of[1] = t /\ s[j].of[2] < r)
    <2>1. \A j \in 1..n : s[j].of[1] \in Nat /\ s[j].of[2] \in Nat /\ s[j].no \in Nat
      BY <1>2 DEF ReactMessages
    <2> QED BY <1>1, <2>1, Zenon DEF ReactBooks
  <1>6. \A j \in 1..n : s[j].is = "calls" => s[j].of # e.of
    BY <1>4, <1>5
  <1>7. ASSUME NEW i \in 1..n + 1, NEW j \in 1..n + 1,
               u[i].is = "calls", u[j].is = "calls", u[i].of = u[j].of
        PROVE  i = j
    <2>1. CASE i \in 1..n /\ j \in 1..n
      BY <1>1, <1>2, <1>7, <2>1, Zenon DEF ReactBooks
    <2>2. CASE i = n + 1 \/ j = n + 1
      BY <1>2, <1>3, <1>6, <1>7, <2>2
    <2> QED BY <1>3, <2>1, <2>2
  <1>8. ASSUME NEW j \in 1..n + 1, u[j].is = "calls"
        PROVE  \/ u[j].of[1] < t
               \/ /\ u[j].of[1] = t /\ u[j].of[2] < r + 1
                  /\ \A m \in 1..u[j].no :
                        (u[j].of[2] + 1 = r + 1 /\ m <= e.no) \/ ReactAnswered(u, j, m)
    <2>1. CASE j = n + 1
      BY <1>2, <1>4, <2>1
    <2>2. CASE j \in 1..n /\ ~(s[j].of[1] < t)
      <3>1. s[j].is = "calls" /\ u[j] = s[j]
        BY <1>2, <1>8, <2>2
      <3>2. /\ s[j].of[1] = t /\ s[j].of[2] < r
            /\ \A m \in 1..s[j].no : (s[j].of[2] + 1 = r /\ m <= 0) \/ ReactAnswered(s, j, m)
        BY <1>1, <2>2, <3>1, Zenon DEF ReactBooks
      <3>3. ASSUME NEW m \in 1..s[j].no PROVE ReactAnswered(u, j, m)
        <4>1. ~(m <= 0)
          BY <1>5, <2>2, <3>1
        <4>2. PICK i \in j + 1..n : s[i].is \in Loop!Results /\ s[i].of = s[j].of /\ s[i].no = m
          BY <1>1, <3>2, <4>1, Zenon DEF ReactAnswered
        <4>3. i \in j + 1..Len(u) /\ i \in 1..n
          BY <1>2, <2>2
        <4> QED BY <1>2, <3>1, <4>2, <4>3 DEF ReactAnswered
      <3>4. s[j].of[2] < r + 1
        BY <1>5, <2>2, <3>1, <3>2
      <3> QED BY <3>1, <3>2, <3>3, <3>4, Zenon
    <2>3. CASE j \in 1..n /\ s[j].of[1] < t
      BY <1>2, <2>3
    <2> QED BY <1>3, <2>1, <2>2, <2>3
  <1>9. ReactBooks(u, t, r + 1, e.no)
    BY <1>2, <1>7, <1>8, Zenon DEF ReactBooks
  <1> QED BY <1>1, <1>9

\* The result of the last call that waits for one.
LEMMA ReactRepliedBooks ==
    ASSUME NEW s \in Seq(ReactMessages), NEW t \in Nat, NEW r \in Nat, NEW l \in Nat \ {0},
           NEW e \in ReactMessages, e.is \in Loop!Results, e.of = <<t, r>>, e.no = l,
           ReactBooks(s, t, r + 1, l)
    PROVE  ReactBooks(Append(s, e), t, r + 1, l - 1)
  <1>1. PICK u, n : u = Append(s, e) /\ n = Len(s)
    OBVIOUS
  <1>2. /\ Len(u) = n + 1 /\ n \in Nat /\ u[n + 1] = e
        /\ \A i \in 1..n : u[i] = s[i] /\ s[i] \in ReactMessages
    <2>1. \A i \in 1..Len(s) : s[i] \in ReactMessages
      OBVIOUS
    <2> QED BY <1>1, <2>1, Added
  <1>3. \A i \in 1..n + 1 : u[i].is = "calls" => i \in 1..n /\ u[i] = s[i]
    <2>1. \A i \in 1..n + 1 : i \in 1..n \/ i = n + 1
      BY <1>2
    <2>2. e.is # "calls"
      BY DEF Loop!Results
    <2> QED BY <1>2, <2>1, <2>2
  <1>4. ASSUME NEW i \in 1..n + 1, NEW j \in 1..n + 1,
               u[i].is = "calls", u[j].is = "calls", u[i].of = u[j].of
        PROVE  i = j
    <2>1. i \in 1..n /\ j \in 1..n /\ u[i] = s[i] /\ u[j] = s[j]
      BY <1>3, <1>4
    <2> QED BY <1>1, <1>4, <2>1, Zenon DEF ReactBooks
  <1>5. ASSUME NEW j \in 1..n + 1, u[j].is = "calls"
        PROVE  \/ u[j].of[1] < t
               \/ /\ u[j].of[1] = t /\ u[j].of[2] < r + 1
                  /\ \A m \in 1..u[j].no :
                        (u[j].of[2] + 1 = r + 1 /\ m <= l - 1) \/ ReactAnswered(u, j, m)
    <2>1. j \in 1..n /\ u[j] = s[j]
      BY <1>3, <1>5
    <2>2. CASE s[j].of[1] < t
      BY <2>1, <2>2
    <2>3. CASE ~(s[j].of[1] < t)
      <3>1. /\ s[j].of[1] = t /\ s[j].of[2] < r + 1
            /\ \A m \in 1..s[j].no : (s[j].of[2] + 1 = r + 1 /\ m <= l) \/ ReactAnswered(s, j, m)
        BY <1>1, <1>5, <2>1, <2>3, Zenon DEF ReactBooks
      <3>2. ASSUME NEW m \in 1..s[j].no
            PROVE  (s[j].of[2] + 1 = r + 1 /\ m <= l - 1) \/ ReactAnswered(u, j, m)
        <4>1. CASE ReactAnswered(s, j, m)
          <5>1. PICK i \in j + 1..n : s[i].is \in Loop!Results /\ s[i].of = s[j].of /\ s[i].no = m
            BY <1>1, <4>1, Zenon DEF ReactAnswered
          <5>2. i \in j + 1..Len(u) /\ i \in 1..n
            BY <1>2, <2>1
          <5> QED BY <1>2, <2>1, <5>1, <5>2 DEF ReactAnswered
        <4>2. CASE s[j].of[2] + 1 = r + 1 /\ m <= l
          <5>1. s[j].of \in Nat \X Nat /\ s[j].no \in Nat
            BY <1>2, <2>1 DEF ReactMessages
          <5>2. m \in Nat /\ (m <= l - 1 \/ m = l)
            BY <4>2, <5>1
          <5>3. CASE m = l
            <6>1. s[j].of = <<t, r>>
              BY <3>1, <4>2, <5>1
            <6>2. n + 1 \in j + 1..Len(u)
              BY <1>2, <2>1
            <6> QED BY <1>2, <2>1, <5>3, <6>1, <6>2 DEF ReactAnswered
          <5> QED BY <4>2, <5>2, <5>3
        <4> QED BY <3>1, <4>1, <4>2
      <3> QED BY <2>1, <3>1, <3>2, Zenon
    <2> QED BY <2>2, <2>3
  <1>6. ReactBooks(u, t, r + 1, l - 1)
    BY <1>2, <1>4, <1>5, Zenon DEF ReactBooks
  <1> QED BY <1>1, <1>6

\* Rounds go on, and another execution has made no calls yet.
LEMMA ReactLaterBooks ==
    ASSUME NEW s \in Seq(ReactMessages), NEW t \in Nat, NEW r \in Nat, NEW l
    PROVE  /\ \A n \in Nat : ReactBooks(s, t, r, 0) /\ r <= n => ReactBooks(s, t, n, 0)
           /\ ReactBooks(s, t, r, l) => \A n, m \in Nat : ReactBooks(s, t + 1, n, m)
  <1>1. \A j \in 1..Len(s) : s[j].of[1] \in Nat /\ s[j].of[2] \in Nat /\ s[j].no \in Nat
    <2>1. \A j \in 1..Len(s) : s[j] \in ReactMessages
      OBVIOUS
    <2> QED BY <2>1 DEF ReactMessages
  <1>2. ASSUME NEW n \in Nat, ReactBooks(s, t, r, 0), r <= n PROVE ReactBooks(s, t, n, 0)
    <2>1. ASSUME NEW j \in 1..Len(s), s[j].is = "calls"
          PROVE  \/ s[j].of[1] < t
                 \/ /\ s[j].of[1] = t /\ s[j].of[2] < n
                    /\ \A m \in 1..s[j].no : ReactAnswered(s, j, m)
      <3>1. \/ s[j].of[1] < t
            \/ /\ s[j].of[1] = t /\ s[j].of[2] < r
               /\ \A m \in 1..s[j].no : m <= 0 \/ ReactAnswered(s, j, m)
        BY <1>2, <2>1, Zenon DEF ReactBooks
      <3>2. \A m \in 1..s[j].no : ~(m <= 0)
        BY <1>1
      <3>3. s[j].of[2] < r => s[j].of[2] < n
        BY <1>1, <1>2
      <3> QED BY <3>1, <3>2, <3>3, Zenon
    <2> QED BY <1>2, <2>1, Zenon DEF ReactBooks
  <1>3. ASSUME ReactBooks(s, t, r, l), NEW n \in Nat, NEW m \in Nat PROVE ReactBooks(s, t + 1, n, m)
    <2>1. ASSUME NEW j \in 1..Len(s), s[j].is = "calls" PROVE s[j].of[1] < t + 1
      <3>1. s[j].of[1] < t \/ s[j].of[1] = t
        BY <1>3, <2>1, Zenon DEF ReactBooks
      <3> QED BY <1>1, <3>1
    <2> QED BY <1>3, <2>1, Zenon DEF ReactBooks
  <1> QED BY <1>2, <1>3

ReactRuns ==
    [task : 0..ForLoop.MaxTasks, round : 0..ForLoop.MaxRounds + 1,
     last : {"none", "same", "other"}, repeated : 0..2, left : 0..ForLoop.MaxCalls,
     managed : BOOLEAN]

ReactTypes ==
    /\ kind \in ForLoop.AgentKinds
    /\ stm \in Seq(ReactMessages) /\ retained \in Seq(ReactMessages)
    /\ queue \in Nat /\ advised \in 0..ForLoop.MaxGuidance
    /\ moment \in {"idle", "round", "summarising", "model", "tools", "managing"}
    /\ run \in ReactRuns /\ allowed \in BOOLEAN

\* Only a round that is left is begun.
ReactRounds ==
    /\ moment \in {"summarising", "managing", "tools"} => run.round <= ForLoop.MaxRounds
    /\ moment = "model" /\ kind # "chat" => run.round <= ForLoop.MaxRounds

\* In the memory and in what the compressor keeps, results are behind their calls, and
\* what is there of guidance and what still waits is no more than was given.
ReactSound ==
    /\ ReactPaired(stm) /\ ReactPaired(retained)
    /\ queue + ReactGuides(stm) <= advised
    /\ moment = "summarising" => queue + ReactGuides(retained) <= advised
    /\ Loop!Tokens(retained) <= ForLoop.Window \/ Len(retained) <= 1

\* While tools run the message of their calls is in the memory.
ReactCalls ==
    moment = "tools" =>
      /\ run.left # 0
      /\ \E j \in 1..Len(stm) : /\ stm[j].is = "calls" /\ stm[j].of = <<run.task, run.round>>
                                 /\ run.left <= stm[j].no

\* manage_context runs in the agents that have it only, and lets tools run once.
ReactManaged ==
    /\ run.managed => kind = "managed" /\ allowed
    /\ moment = "managing" => kind = "managed"
    /\ moment = "tools" => ~run.managed /\ (kind = "managed" => allowed)

ReactBase == ReactTypes /\ ReactRounds /\ ReactSound /\ ReactCalls /\ ReactManaged

\* Counters stay in their bounds.
LEMMA ReactNumbers ==
    ASSUME LoopParameters
    PROVE  /\ 0 \in 0..ForLoop.MaxTasks /\ 0 \in 0..ForLoop.MaxRounds + 1
           /\ 1 \in 0..ForLoop.MaxRounds + 1 /\ 0 \in 0..ForLoop.MaxCalls
           /\ 0 \in 0..ForLoop.MaxGuidance /\ 0 \in 0..2 /\ 1 \in 0..2 /\ 2 \in 0..2
           /\ \A n \in 0..ForLoop.MaxRounds + 1 : n <= ForLoop.MaxRounds => n + 1 \in 0..ForLoop.MaxRounds + 1
           /\ \A n \in 0..ForLoop.MaxTasks : n < ForLoop.MaxTasks => n + 1 \in 0..ForLoop.MaxTasks
           /\ \A n \in 1..ForLoop.MaxCalls : n \in 0..ForLoop.MaxCalls /\ n \in Nat /\ n # 0
           /\ \A n \in 0..ForLoop.MaxCalls : n # 0 => n - 1 \in 0..ForLoop.MaxCalls
           /\ \A n \in 0..ForLoop.MaxTasks : n \in Nat
           /\ \A n \in 0..ForLoop.MaxRounds + 1 : n \in Nat
  <1>1. ForLoop.MaxRounds \in Nat /\ ForLoop.MaxTasks \in Nat /\ ForLoop.MaxCalls \in Nat
        /\ ForLoop.MaxGuidance \in Nat
    BY DEF LoopParameters
  <1> QED BY <1>1

\* A new agent, with nothing said.
LEMMA ReactNew ==
    ASSUME LoopParameters, Loop!Init
    PROVE  ReactBase
  <1>1. /\ kind \in ForLoop.AgentKinds /\ stm = <<>> /\ queue = 0 /\ advised = 0 /\ retained = <<>>
        /\ moment = "idle" /\ allowed = FALSE
        /\ run = [task |-> 0, round |-> 0, last |-> "none", repeated |-> 0, left |-> 0, managed |-> FALSE]
    BY DEF Loop!Init, Loop!IdleRun
  <1>2. <<>> \in Seq(ReactMessages) /\ Len(<<>>) = 0
    OBVIOUS
  <1>3. ReactPaired(<<>>) /\ ReactHeard(<<>>) = {}
    BY DEF ReactPaired, ReactHeard
  <1>4. ReactGuides(<<>>) = 0
    BY <1>3, FS_EmptySet DEF ReactGuides
  <1>5. run \in ReactRuns
    BY <1>1, ReactNumbers DEF ReactRuns
  <1>6. ReactTypes
    BY <1>1, <1>2, <1>5, ReactNumbers DEF ReactTypes
  <1> QED BY <1>1, <1>2, <1>3, <1>4, <1>6 DEF ReactBase, ReactRounds, ReactSound, ReactCalls, ReactManaged

\* A run that has ended.
LEMMA ReactEnds ==
    ASSUME LoopParameters, ReactTypes, Loop!Ends
    PROVE  /\ moment' = "idle" /\ run'.managed = FALSE
           /\ run' \in ReactRuns
  <1>1. run.task \in 0..ForLoop.MaxTasks
    BY DEF ReactTypes, ReactRuns
  <1>2. run' = [task |-> run.task, round |-> 0, last |-> "none", repeated |-> 0, left |-> 0,
                managed |-> FALSE] /\ moment' = "idle"
    BY DEF Loop!Ends, Loop!IdleRun
  <1> QED BY <1>1, <1>2, ReactNumbers DEF ReactRuns

\* What is left to show of a step at whose end no call is under way.
LEMMA ReactRest ==
    ASSUME LoopParameters, ReactBase, ReactTypes',
           kind' = kind, moment' \in {"idle", "round", "model"}, retained' = retained, advised' = advised,
           ReactPaired(stm'), queue' + ReactGuides(stm') <= advised,
           run'.managed => kind = "managed" /\ allowed',
           moment' = "model" /\ kind # "chat" => run'.round <= ForLoop.MaxRounds
    PROVE  ReactBase'
  <1>1. ReactRounds'
    BY DEF ReactRounds
  <1>2. ReactSound'
    BY DEF ReactBase, ReactSound, ReactGuides, ReactHeard, ReactPaired
  <1>3. ReactCalls' /\ ReactManaged'
    BY DEF ReactCalls, ReactManaged
  <1> QED BY <1>1, <1>2, <1>3 DEF ReactBase

\* A task is added to what was said.
LEMMA ReactExecute ==
    ASSUME LoopParameters, ReactBase, Loop!Execute
    PROVE  ReactBase'
  <1>1. PICK n : n = IF kind # "basic" THEN queue ELSE 0
    OBVIOUS
  <1>2. /\ moment = "idle" /\ run.task < ForLoop.MaxTasks
        /\ stm' = Loop!Drained(Append(stm, Loop!Note("task")), n)
        /\ queue' = IF kind # "basic" THEN 0 ELSE queue
        /\ moment' = IF kind = "chat" THEN "model" ELSE "round"
        /\ run' = [task |-> run.task + 1, round |-> 1, last |-> "none", repeated |-> 0, left |-> 0,
                   managed |-> FALSE]
        /\ allowed' = FALSE /\ kind' = kind /\ advised' = advised /\ retained' = retained
    BY <1>1 DEF Loop!Execute, Loop!IdleRun
  <1>3. ReactTypes /\ queue \in Nat /\ n \in Nat /\ stm \in Seq(ReactMessages) /\ run.task \in 0..ForLoop.MaxTasks
    BY <1>1 DEF ReactBase, ReactTypes, ReactRuns
  <1>4. PICK task : task = Loop!Note("task")
    OBVIOUS
  <1>5. task \in ReactMessages /\ task.is = "task"
    BY <1>4, ReactNotes
  <1>6. PICK all : all = Append(stm, task)
    OBVIOUS
  <1>7. /\ all \in Seq(ReactMessages) /\ ReactGuides(all) = ReactGuides(stm) + 0
        /\ ReactPaired(stm) => ReactPaired(all)
    BY <1>3, <1>5, <1>6, ReactAdded
  <1>8. /\ stm' \in Seq(ReactMessages) /\ ReactGuides(stm') = ReactGuides(all) + n
        /\ ReactPaired(all) => ReactPaired(stm')
    BY <1>2, <1>3, <1>4, <1>6, <1>7, ReactDrained
  <1>9. ReactGuides(stm) \in Nat
    BY <1>3, ReactHeardFinite
  <1>10. ReactPaired(stm) /\ queue + ReactGuides(stm) <= advised /\ advised \in Nat
    BY DEF ReactBase, ReactSound, ReactTypes, LoopParameters
  <1>11. queue' \in Nat /\ queue' + ReactGuides(stm') <= advised
    BY <1>1, <1>2, <1>3, <1>7, <1>8, <1>9, <1>10
  <1>12. run' \in ReactRuns
    BY <1>2, <1>3, ReactNumbers DEF ReactRuns
  <1>13. ReactTypes'
    BY <1>2, <1>3, <1>8, <1>11, <1>12 DEF ReactTypes
  <1>14. run'.managed = FALSE
    BY <1>2
  <1> QED BY <1>2, <1>7, <1>8, <1>10, <1>11, <1>13, <1>14, ReactRest

\* Guidance is drained into the memory and the compressor keeps what the window holds.
LEMMA ReactCompress ==
    ASSUME LoopParameters, ReactBase, Loop!Compress
    PROVE  ReactBase'
  <1>1. PICK n : /\ n = Loop!Dropped(Loop!Drained(stm, queue))
                 /\ retained' = Loop!Keep(Loop!Drained(stm, queue), n)
                 /\ moment' = IF n > 0 THEN "summarising" ELSE "model"
    BY DEF Loop!Compress, Loop!Assembling
  <1>2. /\ moment = "round" /\ run.round <= ForLoop.MaxRounds
        /\ stm' = Loop!Drained(stm, queue)
        /\ queue' = 0 /\ kind' = kind /\ advised' = advised /\ run' = run /\ allowed' = allowed
    BY DEF Loop!Compress, Loop!Assembling
  <1>3. /\ ReactTypes /\ queue \in Nat /\ stm \in Seq(ReactMessages) /\ advised \in Nat
        /\ ReactPaired(stm) /\ queue + ReactGuides(stm) <= advised
        /\ run.managed => kind = "managed" /\ allowed
    BY DEF ReactBase, ReactTypes, ReactSound, ReactManaged
  <1>4. /\ stm' \in Seq(ReactMessages) /\ ReactGuides(stm') = ReactGuides(stm) + queue
        /\ ReactPaired(stm')
    BY <1>2, <1>3, ReactDrained
  <1>5. n \in ReactStops(stm')
    BY <1>1, <1>2, <1>4, ReactDropped
  <1>6. n \in 0..Len(stm') /\ n \in Nat
    BY <1>4, <1>5 DEF ReactStops
  <1>7. retained' = Loop!Keep(stm', n)
    BY <1>1, <1>2
  <1>8. /\ retained' \in Seq(ReactMessages) /\ ReactGuides(retained') <= ReactGuides(stm')
        /\ ReactPaired(retained')
        /\ Loop!Tokens(retained') <= ForLoop.Window \/ Len(retained') <= 1
    BY <1>4, <1>5, <1>6, <1>7, ReactKept
  <1>9. ReactGuides(stm) \in Nat /\ ReactGuides(retained') \in Nat /\ ReactGuides(stm') \in Nat
    BY <1>3, <1>4, <1>8, ReactHeardFinite
  <1>10. queue' + ReactGuides(stm') <= advised /\ queue' + ReactGuides(retained') <= advised
    BY <1>2, <1>3, <1>4, <1>8, <1>9
  <1>11. moment' \in {"summarising", "model"}
    BY <1>1
  <1>12. ReactTypes'
    BY <1>2, <1>3, <1>4, <1>8, <1>11 DEF ReactTypes
  <1>13. ReactRounds'
    BY <1>2 DEF ReactRounds
  <1>14. ReactSound'
    BY <1>2, <1>4, <1>8, <1>10 DEF ReactSound, ReactPaired, ReactGuides, ReactHeard,
       Loop!Tokens, Loop!Cardinality, Loop!IsFiniteSet
  <1>15. ReactCalls' /\ ReactManaged'
    BY <1>2, <1>3, <1>11 DEF ReactCalls, ReactManaged
  <1> QED BY <1>12, <1>13, <1>14, <1>15 DEF ReactBase

\* The summary takes the place of what was dropped.
LEMMA ReactSummarised ==
    ASSUME LoopParameters, ReactBase, Loop!Summarised
    PROVE  ReactBase'
  <1>1. PICK summary \in {<<>>, <<Loop!Note("summary")>>} :
           stm' = Loop!Drained(summary \o retained, queue)
    BY DEF Loop!Summarised
  <1>2. /\ moment = "summarising" /\ queue' = 0 /\ moment' = "model"
        /\ kind' = kind /\ advised' = advised /\ run' = run /\ allowed' = allowed /\ retained' = retained
    BY DEF Loop!Summarised
  <1>3. /\ ReactTypes /\ queue \in Nat /\ retained \in Seq(ReactMessages) /\ advised \in Nat
        /\ ReactPaired(retained) /\ queue + ReactGuides(retained) <= advised
        /\ run.managed => kind = "managed" /\ allowed
        /\ run.round <= ForLoop.MaxRounds
    BY <1>2 DEF ReactBase, ReactTypes, ReactSound, ReactManaged, ReactRounds
  <1>4. summary \in Seq(ReactMessages) /\ ReactGuides(summary) = 0 /\ ReactPaired(summary)
    <2>1. PICK m : m = Loop!Note("summary")
      OBVIOUS
    <2>2. m \in ReactMessages /\ m.is = "summary"
      BY <2>1, ReactNotes
    <2>3. /\ summary \in Seq(ReactMessages)
          /\ \A i \in 1..Len(summary) : summary[i].is = "summary"
      <3>1. CASE summary = <<>>
        BY <3>1
      <3>2. CASE summary = <<m>>
        <4>1. <<m>> \in Seq(ReactMessages) /\ Len(<<m>>) = 1 /\ <<m>>[1] = m
          BY <2>2
        <4>2. \A i \in 1..1 : i = 1
          OBVIOUS
        <4> QED BY <2>2, <3>2, <4>1, <4>2
      <3> QED BY <1>1, <2>1, <3>1, <3>2
    <2>4. ReactHeard(summary) = {} /\ ReactPaired(summary)
      BY <2>3 DEF ReactHeard, ReactPaired
    <2> QED BY <2>3, <2>4, FS_EmptySet DEF ReactGuides
  <1>5. PICK all : all = summary \o retained
    OBVIOUS
  <1>6. all \in Seq(ReactMessages) /\ ReactGuides(all) = 0 + ReactGuides(retained) /\ ReactPaired(all)
    BY <1>3, <1>4, <1>5, ReactJoined
  <1>7. /\ stm' \in Seq(ReactMessages) /\ ReactGuides(stm') = ReactGuides(all) + queue
        /\ ReactPaired(stm')
    BY <1>1, <1>3, <1>5, <1>6, ReactDrained
  <1>8. ReactGuides(retained) \in Nat
    BY <1>3, ReactHeardFinite
  <1>9. queue' + ReactGuides(stm') <= advised
    BY <1>2, <1>3, <1>6, <1>7, <1>8
  <1>10. ReactTypes'
    BY <1>2, <1>3, <1>7 DEF ReactTypes
  <1> QED BY <1>2, <1>3, <1>7, <1>9, <1>10, ReactRest

\* A message that is no result and no guidance, at the end of the memory.
LEMMA ReactSays ==
    ASSUME LoopParameters, ReactBase, NEW m \in ReactMessages, m.is \notin {"result", "guidance"},
           stm' = Append(stm, m), queue' = queue
    PROVE  stm' \in Seq(ReactMessages) /\ ReactPaired(stm') /\ queue' + ReactGuides(stm') <= advised
  <1>1. /\ stm \in Seq(ReactMessages) /\ ReactPaired(stm) /\ queue + ReactGuides(stm) <= advised
    BY DEF ReactBase, ReactTypes, ReactSound
  <1>2. /\ Append(stm, m) \in Seq(ReactMessages) /\ ReactPaired(Append(stm, m))
        /\ ReactGuides(Append(stm, m)) = ReactGuides(stm) + 0
    BY <1>1, ReactAdded
  <1>3. ReactGuides(stm) \in Nat
    BY <1>1, ReactHeardFinite
  <1> QED BY <1>1, <1>2, <1>3

\* A step that says nothing.
LEMMA ReactSilent ==
    ASSUME LoopParameters, ReactBase, stm' = stm, queue' = queue
    PROVE  stm' \in Seq(ReactMessages) /\ ReactPaired(stm') /\ queue' + ReactGuides(stm') <= advised
  BY DEF ReactBase, ReactTypes, ReactSound

\* The end of a run.
LEMMA ReactOver ==
    ASSUME LoopParameters, ReactBase, Loop!Ends, UNCHANGED <<kind, queue, advised, retained, allowed>>,
           stm' \in {stm, Append(stm, Loop!Note("reply"))}
    PROVE  ReactBase'
  <1>1. moment' = "idle" /\ run'.managed = FALSE /\ run' \in ReactRuns
    BY ReactEnds DEF ReactBase
  <1>2. stm' \in Seq(ReactMessages) /\ ReactPaired(stm') /\ queue' + ReactGuides(stm') <= advised
    <2>1. CASE stm' = stm
      BY <2>1, ReactSilent
    <2>2. CASE stm' = Append(stm, Loop!Note("reply"))
      <3>1. PICK m : m = Loop!Note("reply")
        OBVIOUS
      <3>2. m \in ReactMessages /\ m.is \notin {"result", "guidance"}
        BY <3>1, ReactNotes
      <3> QED BY <2>2, <3>1, <3>2, ReactSays
    <2> QED BY <2>1, <2>2
  <1>3. ReactTypes'
    BY <1>1, <1>2 DEF ReactBase, ReactTypes
  <1> QED BY <1>1, <1>2, <1>3, ReactRest

\* A round that begins anew, the count of rounds one higher.
LEMMA ReactAgain ==
    ASSUME LoopParameters, ReactBase, run.round <= ForLoop.MaxRounds, NEW managed \in BOOLEAN,
           run' = [task |-> run.task, round |-> run.round + 1, last |-> run.last,
                   repeated |-> run.repeated, left |-> run.left, managed |-> managed],
           moment' = "round",
           UNCHANGED <<kind, queue, advised, retained>>, allowed' \in BOOLEAN,
           managed => kind = "managed" /\ allowed',
           stm' \in Seq(ReactMessages), ReactPaired(stm'), queue' + ReactGuides(stm') <= advised
    PROVE  ReactBase'
  <1>1. run \in ReactRuns
    BY DEF ReactBase, ReactTypes
  <1>3. run.round \in 0..ForLoop.MaxRounds + 1 /\ run.round + 1 \in 0..ForLoop.MaxRounds + 1
    BY <1>1, ReactNumbers DEF ReactRuns
  <1>4. run' \in ReactRuns /\ run'.managed = managed
    BY <1>1, <1>3 DEF ReactRuns
  <1>5. ReactTypes'
    BY <1>4 DEF ReactBase, ReactTypes
  <1> QED BY <1>4, <1>5, ReactRest

\* An answer that calls tools.
LEMMA ReactAsks ==
    ASSUME LoopParameters, ReactBase, run.round <= ForLoop.MaxRounds,
           NEW n \in 1..ForLoop.MaxCalls, NEW last \in {"none", "same", "other"},
           NEW repeated \in 0..2, kind = "managed" => allowed, run.managed \in BOOLEAN,
           stm' = Append(stm, Loop!Message("calls", <<run.task, run.round>>, n, 1)),
           run' = [task |-> run.task, round |-> run.round, last |-> last,
                   repeated |-> repeated, left |-> n, managed |-> FALSE],
           moment' = "tools", UNCHANGED <<kind, queue, advised, retained, allowed>>
    PROVE  ReactBase'
  <1>1. run \in ReactRuns /\ stm \in Seq(ReactMessages)
    BY DEF ReactBase, ReactTypes
  <1>2. /\ run'.task = run.task /\ run'.round = run.round /\ run'.left = n
        /\ run'.managed = FALSE
    OBVIOUS
  <1>3. /\ n \in 0..ForLoop.MaxCalls /\ n \in Nat /\ n # 0
        /\ run.task \in Nat /\ run.round \in Nat
    BY <1>1, ReactNumbers DEF ReactRuns
  <1>4. run' \in ReactRuns
    BY <1>1, <1>3 DEF ReactRuns
  <1>5. PICK m : m = Loop!Message("calls", <<run.task, run.round>>, n, 1)
    OBVIOUS
  <1>6. m \in ReactMessages /\ m.is = "calls" /\ m.of = <<run.task, run.round>> /\ m.no = n
    BY <1>3, <1>5, ReactNotes DEF Loop!Message, ReactMessages
  <1>7. stm' = Append(stm, m)
    BY <1>5
  <1>8. stm' \in Seq(ReactMessages) /\ ReactPaired(stm') /\ queue' + ReactGuides(stm') <= advised
    BY <1>6, <1>7, ReactSays
  <1>9. Len(stm') \in Nat \ {0} /\ stm'[Len(stm')] = m
    BY <1>1, <1>6, <1>7
  <1>10. ReactTypes'
    BY <1>4, <1>8 DEF ReactBase, ReactTypes
  <1>11. ReactRounds'
    BY <1>2 DEF ReactRounds
  <1>12. ReactSound'
    BY <1>8 DEF ReactBase, ReactSound, ReactGuides, ReactHeard, ReactPaired
  <1>13. ReactCalls'
    <2>1. Len(stm') \in 1..Len(stm')
      BY <1>9
    <2>2. /\ stm'[Len(stm')].is = "calls" /\ run'.left <= stm'[Len(stm')].no
          /\ stm'[Len(stm')].of = <<run'.task, run'.round>>
      <3>1. n <= n
        BY <1>3
      <3>2. <<run'.task, run'.round>> = <<run.task, run.round>> /\ run'.left = n
        BY <1>2, Zenon
      <3> QED BY <1>6, <1>9, <3>1, <3>2, Zenon
    <2>3. run'.left # 0
      BY <1>2, <1>3
    <2> QED BY <2>1, <2>2, <2>3, Zenon DEF ReactCalls
  <1>14. ReactManaged'
    BY <1>2 DEF ReactManaged
  <1> QED BY <1>10, <1>11, <1>12, <1>13, <1>14 DEF ReactBase

\* An answer in words ends the execution or asks for another round.
LEMMA ReactText ==
    ASSUME LoopParameters, ReactBase, Loop!AnswersText
    PROVE  ReactBase'
  <1>1. moment = "model" /\ kind # "chat" /\ UNCHANGED <<kind, queue, advised, retained, allowed>>
    BY DEF Loop!AnswersText
  <1>2. CASE /\ moment' = "round" /\ run' = [run EXCEPT !.round = @ + 1] /\ stm' = stm
    <2>1. run.round <= ForLoop.MaxRounds
      BY <1>1 DEF ReactBase, ReactRounds
    <2>2. run \in ReactRuns
      BY DEF ReactBase, ReactTypes
    <2>3. /\ run.managed \in BOOLEAN
          /\ run' = [task |-> run.task, round |-> run.round + 1, last |-> run.last,
                      repeated |-> run.repeated, left |-> run.left, managed |-> run.managed]
      BY <1>2, <2>2 DEF ReactRuns
    <2>4. run.managed => kind = "managed" /\ allowed'
      BY <1>1 DEF ReactBase, ReactManaged
    <2>5. allowed' \in BOOLEAN
      BY <1>1 DEF ReactBase, ReactTypes
    <2>6. stm' \in Seq(ReactMessages) /\ ReactPaired(stm') /\ queue' + ReactGuides(stm') <= advised
      BY <1>1, <1>2, ReactSilent
    <2> QED BY <1>1, <1>2, <2>1, <2>3, <2>4, <2>5, <2>6, ReactAgain
  <1>3. CASE stm' = Append(stm, Loop!Note("reply")) /\ Loop!Ends
    BY <1>1, <1>3, ReactOver
  <1> QED BY <1>2, <1>3, Zenon DEF Loop!AnswersText

\* An answer with calls begins a round of tools.
LEMMA ReactAnswers ==
    ASSUME LoopParameters, ReactBase, Loop!AnswersCalls
    PROVE  ReactBase'
  <1>1. /\ moment = "model" /\ kind \in {"basic", "smart"}
        /\ UNCHANGED <<kind, queue, advised, retained, allowed>>
    BY DEF Loop!AnswersCalls
  <1> DEFINE Reacts(signature, n, again) ==
               /\ again = IF signature = "same" /\ run.last = "same" THEN run.repeated + 1 ELSE 1
               /\ \/ stm' = Append(stm, Loop!Note("reply")) /\ Loop!Ends
                  \/ /\ kind = "basic" => ~(again >= 3)
                     /\ stm' = Append(stm, Loop!Message("calls", <<run.task, run.round>>, n, 1))
                     /\ moment' = "tools"
                     /\ run' = [run EXCEPT !.left = n, !.last = signature,
                                           !.repeated = IF kind = "basic" THEN again ELSE 0]
  <1>2. PICK signature \in {"same", "other"}, n \in 1..ForLoop.MaxCalls :
          \E again : Reacts(signature, n, again)
    BY Zenon DEF Loop!AnswersCalls
  <1>5. PICK again : Reacts(signature, n, again)
    BY <1>2
  <1>3. CASE stm' = Append(stm, Loop!Note("reply")) /\ Loop!Ends
    BY <1>1, <1>3, ReactOver
  <1>4. CASE /\ kind = "basic" => ~(again >= 3)
             /\ stm' = Append(stm, Loop!Message("calls", <<run.task, run.round>>, n, 1))
             /\ moment' = "tools"
             /\ run' = [run EXCEPT !.left = n, !.last = signature,
                                   !.repeated = IF kind = "basic" THEN again ELSE 0]
    <2>1. PICK times : times = IF kind = "basic" THEN again ELSE 0
      OBVIOUS
    <2>2. run \in ReactRuns /\ run.round <= ForLoop.MaxRounds /\ ~run.managed
      BY <1>1 DEF ReactBase, ReactTypes, ReactRounds, ReactManaged
    <2>3. run.repeated \in 0..2 /\ run.managed = FALSE
      BY <2>2 DEF ReactRuns
    <2>4. times \in 0..2
      BY <1>4, <1>5, <2>1, <2>3
    <2>5. run' = [task |-> run.task, round |-> run.round, last |-> signature,
                  repeated |-> times, left |-> n, managed |-> FALSE]
      BY <1>4, <2>1, <2>2, <2>3 DEF ReactRuns
    <2>6. kind = "managed" => allowed
      BY <1>1
    <2>7. signature \in {"none", "same", "other"} /\ run.managed \in BOOLEAN
      BY <2>3
    <2> QED BY <1>1, <1>4, <2>2, <2>4, <2>5, <2>6, <2>7, ReactAsks
  <1> QED BY <1>3, <1>4, <1>5

\* An answer of a managed agent asks for manage_context or for other tools.
LEMMA ReactManages ==
    ASSUME LoopParameters, ReactBase, Loop!AnswersManaged
    PROVE  ReactBase'
  <1>1. moment = "model" /\ kind = "managed" /\ UNCHANGED <<kind, queue, advised, retained, allowed>>
    BY Zenon DEF Loop!AnswersManaged
  <1>2. run \in ReactRuns /\ run.managed \in BOOLEAN /\ run.round <= ForLoop.MaxRounds /\ allowed \in BOOLEAN
        /\ (run.managed => allowed) /\ run.last \in {"none", "same", "other"} /\ run.repeated \in 0..2
    BY <1>1 DEF ReactBase, ReactTypes, ReactRounds, ReactManaged, ReactRuns
  <1>3. CASE moment' = "managing" /\ UNCHANGED <<stm, run>>
    <2>1. ReactTypes' /\ ReactSound'
      BY <1>1, <1>3 DEF ReactBase, ReactTypes, ReactSound, ReactGuides, ReactHeard, ReactPaired
    <2>2. ReactRounds' /\ ReactCalls' /\ ReactManaged'
      BY <1>1, <1>2, <1>3 DEF ReactRounds, ReactCalls, ReactManaged
    <2> QED BY <2>1, <2>2 DEF ReactBase
  <1>4. CASE /\ moment' = "round" /\ run' = [run EXCEPT !.round = @ + 1, !.managed = FALSE] /\ stm' = stm
    <2>1. stm' \in Seq(ReactMessages) /\ ReactPaired(stm') /\ queue' + ReactGuides(stm') <= advised
      BY <1>1, <1>4, ReactSilent
    <2>2. run' = [task |-> run.task, round |-> run.round + 1, last |-> run.last,
                  repeated |-> run.repeated, left |-> run.left, managed |-> FALSE]
      BY <1>2, <1>4 DEF ReactRuns
    <2> QED BY <1>1, <1>2, <1>4, <2>1, <2>2, ReactAgain
  <1>5. CASE /\ run.managed
             /\ \E n \in 1..ForLoop.MaxCalls :
                  /\ stm' = Append(stm, Loop!Message("calls", <<run.task, run.round>>, n, 1))
                  /\ run' = [run EXCEPT !.left = n, !.managed = FALSE]
             /\ moment' = "tools"
    <2>1. PICK n \in 1..ForLoop.MaxCalls :
                  /\ stm' = Append(stm, Loop!Message("calls", <<run.task, run.round>>, n, 1))
                  /\ run' = [run EXCEPT !.left = n, !.managed = FALSE]
      BY <1>5, Zenon
    <2>2. run' = [task |-> run.task, round |-> run.round, last |-> run.last,
                  repeated |-> run.repeated, left |-> n, managed |-> FALSE]
      BY <1>2, <2>1 DEF ReactRuns
    <2>3. allowed /\ moment' = "tools"
      BY <1>2, <1>5, Zenon
    <2> QED BY <1>1, <1>2, <2>1, <2>2, <2>3, ReactAsks
  <1> QED BY <1>3, <1>4, <1>5, Zenon DEF Loop!AnswersManaged, Loop!MayRunTools

\* manage_context writes the memory and lets tools run.
LEMMA ReactManagedCall ==
    ASSUME LoopParameters, ReactBase, Loop!Managed
    PROVE  ReactBase'
  <1>1. moment = "managing" /\ moment' = "round" /\ UNCHANGED <<kind, queue, advised, retained>>
    BY DEF Loop!Managed
  <1>2. /\ run.round <= ForLoop.MaxRounds /\ kind = "managed" /\ allowed \in BOOLEAN
        /\ stm \in Seq(ReactMessages) /\ ReactPaired(stm) /\ queue + ReactGuides(stm) <= advised
        /\ run \in ReactRuns
    BY <1>1 DEF ReactBase, ReactTypes, ReactRounds, ReactSound, ReactManaged
  <1>3. CASE /\ \E complete \in BOOLEAN :
                  stm' = Loop!WithComplete(Loop!WithCore(stm), complete)
             /\ run' = [run EXCEPT !.round = @ + 1, !.managed = TRUE] /\ allowed' = TRUE
    <2>1. PICK complete \in BOOLEAN :
            stm' = Loop!WithComplete(Loop!WithCore(stm), complete)
      BY <1>3
    <2>2. stm' \in Seq(ReactMessages) /\ ReactGuides(stm') = ReactGuides(stm) /\ ReactPaired(stm')
      BY <1>2, <2>1, ReactMarked
    <2>3. queue' + ReactGuides(stm') <= advised
      BY <1>1, <1>2, <2>2
    <2>4. run' = [task |-> run.task, round |-> run.round + 1, last |-> run.last,
                  repeated |-> run.repeated, left |-> run.left, managed |-> TRUE]
      BY <1>2, <1>3 DEF ReactRuns
    <2>5. allowed' = TRUE
      BY <1>3
    <2> QED BY <1>1, <1>2, <2>2, <2>3, <2>4, <2>5, ReactAgain
  <1>4. CASE /\ run' = [run EXCEPT !.round = @ + 1, !.managed = FALSE] /\ UNCHANGED <<stm, allowed>>
    <2>1. stm' \in Seq(ReactMessages) /\ ReactPaired(stm') /\ queue' + ReactGuides(stm') <= advised
      BY <1>1, <1>4, ReactSilent
    <2>2. run' = [task |-> run.task, round |-> run.round + 1, last |-> run.last,
                  repeated |-> run.repeated, left |-> run.left, managed |-> FALSE]
      BY <1>2, <1>4 DEF ReactRuns
    <2> QED BY <1>1, <1>2, <1>4, <2>1, <2>2, ReactAgain
  <1> QED BY <1>3, <1>4, Zenon DEF Loop!Managed

\* A result is put behind the message that called for it.
LEMMA ReactToolAnswers ==
    ASSUME LoopParameters, ReactBase, Loop!ToolAnswers
    PROVE  ReactBase'
  <1>1. /\ moment = "tools" /\ UNCHANGED <<kind, queue, advised, retained>>
        /\ moment' = IF run.left = 1 THEN "round" ELSE "tools"
        /\ run' = [run EXCEPT !.left = @ - 1, !.round = IF run.left = 1 THEN @ + 1 ELSE @]
        /\ allowed' = (allowed /\ run.left > 1)
    BY DEF Loop!ToolAnswers
  <1>2. PICK is \in Loop!Results, size \in ForLoop.Sizes :
          stm' = Append(stm, Loop!Message(is, <<run.task, run.round>>, run.left, size))
    BY DEF Loop!ToolAnswers, Loop!Result
  <1>3. /\ ReactTypes /\ run \in ReactRuns /\ stm \in Seq(ReactMessages) /\ ReactPaired(stm)
        /\ queue + ReactGuides(stm) <= advised /\ run.round <= ForLoop.MaxRounds
        /\ run.left # 0 /\ ~run.managed /\ (kind = "managed" => allowed)
    BY <1>1 DEF ReactBase, ReactTypes, ReactRounds, ReactSound, ReactManaged, ReactCalls
  <1>4. /\ run.left \in 0..ForLoop.MaxCalls /\ run.left \in Nat /\ run.left - 1 \in 0..ForLoop.MaxCalls
        /\ run.round \in 0..ForLoop.MaxRounds + 1 /\ run.round + 1 \in 0..ForLoop.MaxRounds + 1
        /\ run.task \in Nat /\ run.round \in Nat /\ run.managed = FALSE
    BY <1>3, ReactNumbers DEF ReactRuns
  <1>5. PICK j \in 1..Len(stm) : /\ stm[j].is = "calls" /\ stm[j].of = <<run.task, run.round>>
                                  /\ run.left <= stm[j].no
    BY <1>1 DEF ReactBase, ReactCalls
  <1>6. PICK m : m = Loop!Message(is, <<run.task, run.round>>, run.left, size)
    OBVIOUS
  <1>7. /\ m \in ReactMessages /\ m.is \in {"result", "unpaired"}
        /\ m.of = <<run.task, run.round>> /\ m.no = run.left
    BY <1>4, <1>6, ReactNotes DEF Loop!Message, ReactMessages
  <1>8. stm' = Append(stm, m)
    BY <1>2, <1>6
  <1>9. /\ Append(stm, m) \in Seq(ReactMessages) /\ ReactPaired(Append(stm, m))
        /\ ReactGuides(Append(stm, m)) = ReactGuides(stm) + 0
    BY <1>3, <1>5, <1>7, ReactAdded
  <1>10. ReactGuides(stm) \in Nat
    BY <1>3, ReactHeardFinite
  <1>11. stm' \in Seq(ReactMessages) /\ ReactPaired(stm') /\ queue' + ReactGuides(stm') <= advised
    BY <1>1, <1>3, <1>8, <1>9, <1>10
  <1>12. run' = [task |-> run.task, round |-> IF run.left = 1 THEN run.round + 1 ELSE run.round,
                 last |-> run.last, repeated |-> run.repeated, left |-> run.left - 1, managed |-> FALSE]
    BY <1>1, <1>3, <1>4 DEF ReactRuns
  <1>13. run' \in ReactRuns /\ allowed' \in BOOLEAN
    BY <1>1, <1>3, <1>4, <1>12 DEF ReactRuns
  <1>14. ReactTypes'
    BY <1>1, <1>3, <1>11, <1>13 DEF ReactTypes
  <1>15. CASE run.left = 1
    <2>1. moment' = "round"
      BY <1>1, <1>15, Zenon
    <2>2. run'.managed = FALSE
      BY <1>12
    <2> QED BY <1>1, <1>11, <1>14, <2>1, <2>2, ReactRest
  <1>16. CASE run.left # 1
    <2>1. /\ moment' = "tools" /\ run'.managed = FALSE /\ run'.round = run.round /\ run'.task = run.task
          /\ run'.left = run.left - 1 /\ run.left > 1
      BY <1>1, <1>3, <1>4, <1>12, <1>16
    <2>2. ReactRounds' /\ ReactManaged'
      BY <1>1, <1>3, <2>1 DEF ReactRounds, ReactManaged
    <2>3. ReactSound'
      BY <1>1, <1>11, <2>1 DEF ReactBase, ReactSound, ReactGuides, ReactHeard, ReactPaired
    <2>4. ReactCalls'
      <3>1. j \in 1..Len(stm') /\ stm'[j] = stm[j]
        BY <1>3, <1>7, <1>8
      <3>2. stm[j] \in ReactMessages
        BY <1>3
      <3>3. run'.left <= stm'[j].no /\ run'.left # 0
        BY <1>4, <1>5, <2>1, <3>1, <3>2 DEF ReactMessages
      <3> QED BY <1>5, <2>1, <3>1, <3>3 DEF ReactCalls
    <2> QED BY <1>14, <2>2, <2>3, <2>4 DEF ReactBase
  <1> QED BY <1>15, <1>16

\* Guidance waits in the queue.
LEMMA ReactGuided ==
    ASSUME LoopParameters, ReactBase, Loop!Guide
    PROVE  ReactBase'
  <1>1. /\ advised < ForLoop.MaxGuidance /\ advised' = advised + 1 /\ queue' = queue + 1
        /\ UNCHANGED <<kind, stm, moment, run, retained, allowed>>
    BY DEF Loop!Guide
  <1>2. /\ queue \in Nat /\ advised \in 0..ForLoop.MaxGuidance /\ ForLoop.MaxGuidance \in Nat
        /\ stm \in Seq(ReactMessages) /\ retained \in Seq(ReactMessages)
    BY DEF ReactBase, ReactTypes, LoopParameters
  <1>3. ReactGuides(stm) \in Nat /\ ReactGuides(retained) \in Nat
    BY <1>2, ReactHeardFinite
  <1>4. advised' \in 0..ForLoop.MaxGuidance /\ queue' \in Nat
    BY <1>1, <1>2
  <1>5. ReactTypes'
    BY <1>1, <1>4 DEF ReactBase, ReactTypes
  <1>6. ReactGuides(stm') = ReactGuides(stm) /\ ReactGuides(retained') = ReactGuides(retained)
    BY <1>1
  <1>7. /\ queue' + ReactGuides(stm') <= advised'
        /\ moment' = "summarising" => queue' + ReactGuides(retained') <= advised'
    <2>1. queue + ReactGuides(stm) <= advised
      BY DEF ReactBase, ReactSound
    <2>2. moment = "summarising" => queue + ReactGuides(retained) <= advised
      BY DEF ReactBase, ReactSound
    <2>3. \A h, g, a \in Nat : h + g <= a => (h + 1) + g <= a + 1
      OBVIOUS
    <2>4. advised \in Nat /\ moment' = moment /\ advised' = advised + 1 /\ queue' = queue + 1
      BY <1>1, <1>2
    <2>5. queue' + ReactGuides(stm') <= advised'
      BY <1>2, <1>3, <1>6, <2>1, <2>3, <2>4
    <2>6. ASSUME moment' = "summarising" PROVE queue' + ReactGuides(retained') <= advised'
      <3>1. queue + ReactGuides(retained) <= advised
        BY <2>2, <2>4, <2>6
      <3>2. (queue + 1) + ReactGuides(retained) <= advised + 1
        BY <1>2, <1>3, <2>3, <2>4, <3>1
      <3> QED BY <1>6, <2>4, <3>2, Zenon
    <2> QED BY <2>5, <2>6
  <1>8. ReactSound'
    BY <1>1, <1>7 DEF ReactBase, ReactSound, ReactPaired
  <1>9. ReactRounds' /\ ReactCalls' /\ ReactManaged'
    BY <1>1 DEF ReactBase, ReactRounds, ReactCalls, ReactManaged
  <1> QED BY <1>5, <1>8, <1>9 DEF ReactBase

\* Which calls of the memory, and of what the compressor keeps, have their results.
ReactBooked ==
    /\ moment = "idle" => ReactBooks(stm, run.task + 1, 0, 0)
    /\ moment = "tools" => ReactBooks(stm, run.task, run.round + 1, run.left)
    /\ moment \notin {"idle", "tools"} => ReactBooks(stm, run.task, run.round, 0)
    /\ moment = "summarising" => ReactBooks(retained, run.task, run.round, 0)

ReactInv == ReactBase /\ ReactBooked

\* The parts of the invariant the proofs below begin with.
LEMMA ReactCounts ==
    ASSUME LoopParameters, ReactBase
    PROVE  /\ run \in ReactRuns /\ run.task \in Nat /\ run.round \in Nat /\ run.left \in Nat
           /\ stm \in Seq(ReactMessages) /\ retained \in Seq(ReactMessages) /\ queue \in Nat
           /\ moment = "tools" => run.left # 0
  <1>1. run \in ReactRuns /\ (moment = "tools" => run.left # 0)
    BY DEF ReactBase, ReactTypes, ReactCalls
  <1> QED BY <1>1, ReactNumbers DEF ReactBase, ReactTypes, ReactRuns

\* A reply, a task or a mark at the end of the memory calls for nothing.
LEMMA ReactSaidBooks ==
    ASSUME LoopParameters, ReactBase, NEW is \in Loop!MessageKinds \ {"calls"},
           NEW t, NEW r, NEW l, ReactBooks(stm, t, r, l)
    PROVE  ReactBooks(Append(stm, Loop!Note(is)), t, r, l)
  <1>1. PICK m : m = Loop!Note(is)
    OBVIOUS
  <1>2. m \in ReactMessages /\ m.is # "calls"
    BY <1>1, ReactNotes
  <1> QED BY <1>1, <1>2, ReactAddedBooks, ReactCounts

\* At the end of an execution nothing more is asked of its calls.
LEMMA ReactEndsBooked ==
    ASSUME LoopParameters, ReactInv, moment # "idle", Loop!Ends,
           stm' \in {stm, Append(stm, Loop!Note("reply"))}
    PROVE  ReactBooked'
  <1>1. moment' = "idle" /\ run'.task = run.task
    BY DEF Loop!Ends, Loop!IdleRun
  <1>2. run.task \in Nat /\ run.round \in Nat /\ stm \in Seq(ReactMessages)
    BY ReactCounts DEF ReactInv
  <1>3. \E r \in Nat : \E l : ReactBooks(stm, run.task, r, l)
    BY <1>2, run.round + 1 \in Nat DEF ReactInv, ReactBooked
  <1>4. ReactBooks(stm, run.task + 1, 0, 0)
    BY <1>2, <1>3, ReactLaterBooks
  <1>5. "reply" \in Loop!MessageKinds \ {"calls"}
    BY ReactNotes
  <1>6. ReactBooks(Append(stm, Loop!Note("reply")), run.task + 1, 0, 0)
    BY <1>4, <1>5, ReactSaidBooks DEF ReactInv
  <1>7. ReactBooks(stm', run.task + 1, 0, 0)
    BY <1>4, <1>6
  <1> QED BY <1>1, <1>7 DEF ReactBooked

\* Another execution begins.
LEMMA ReactExecuteBooked ==
    ASSUME LoopParameters, ReactInv, Loop!Execute
    PROVE  ReactBooked'
  <1>1. PICK n : n = IF kind # "basic" THEN queue ELSE 0
    OBVIOUS
  <1>2. /\ moment = "idle" /\ stm' = Loop!Drained(Append(stm, Loop!Note("task")), n)
        /\ moment' = IF kind = "chat" THEN "model" ELSE "round"
        /\ run'.task = run.task + 1 /\ run'.round = 1
    BY <1>1 DEF Loop!Execute, Loop!IdleRun
  <1>3. ReactBase /\ run.task \in Nat /\ stm \in Seq(ReactMessages) /\ n \in Nat
    BY <1>1, ReactCounts DEF ReactInv
  <1>4. ReactBooks(stm, run.task + 1, 0, 0)
    BY <1>2 DEF ReactInv, ReactBooked
  <1>5. PICK all : all = Append(stm, Loop!Note("task"))
    OBVIOUS
  <1>6. all \in Seq(ReactMessages) /\ ReactBooks(all, run.task + 1, 0, 0)
    <2>1. "task" \in Loop!MessageKinds \ {"calls"} /\ Loop!Note("task") \in ReactMessages
      BY ReactNotes
    <2>2. Append(stm, Loop!Note("task")) \in Seq(ReactMessages)
      BY <1>3, <2>1, Added
    <2> QED BY <1>3, <1>4, <1>5, <2>1, <2>2, ReactSaidBooks
  <1>7. ReactBooks(all, run.task + 1, 1, 0)
    <2>1. 1 \in Nat /\ 0 \in Nat /\ 0 <= 1 /\ run.task + 1 \in Nat
      BY <1>3
    <2> QED BY <1>6, <2>1, ReactLaterBooks
  <1>8. ReactBooks(stm', run.task + 1, 1, 0)
    BY <1>2, <1>3, <1>5, <1>6, <1>7, ReactDrainedBooks
  <1>9. moment' \in {"model", "round"}
    BY <1>2
  <1> QED BY <1>2, <1>8, <1>9 DEF ReactBooked

\* What is compressed keeps results with their calls.
LEMMA ReactCompressBooked ==
    ASSUME LoopParameters, ReactInv, Loop!Compress
    PROVE  ReactBooked'
  <1>1. PICK n : /\ n = Loop!Dropped(Loop!Drained(stm, queue))
                 /\ retained' = Loop!Keep(Loop!Drained(stm, queue), n)
                 /\ moment' = IF n > 0 THEN "summarising" ELSE "model"
    BY DEF Loop!Compress, Loop!Assembling
  <1>2. moment = "round" /\ stm' = Loop!Drained(stm, queue) /\ run' = run
    BY DEF Loop!Compress, Loop!Assembling
  <1>3. ReactBooks(stm, run.task, run.round, 0) /\ stm \in Seq(ReactMessages) /\ queue \in Nat
    BY <1>2, ReactCounts DEF ReactInv, ReactBooked
  <1>4. stm' \in Seq(ReactMessages) /\ ReactBooks(stm', run.task, run.round, 0)
    BY <1>2, <1>3, ReactDrained, ReactDrainedBooks
  <1>5. n \in 0..Len(stm')
    BY <1>1, <1>2, <1>4, ReactDropped DEF ReactStops
  <1>6. ReactBooks(retained', run.task, run.round, 0)
    BY <1>1, <1>2, <1>4, <1>5, ReactKeptBooks
  <1>7. moment' \in {"summarising", "model"}
    BY <1>1
  <1> QED BY <1>2, <1>4, <1>6, <1>7 DEF ReactBooked

\* What was kept takes the place of the memory.
LEMMA ReactSummarisedBooked ==
    ASSUME LoopParameters, ReactInv, Loop!Summarised
    PROVE  ReactBooked'
  <1>1. PICK summary \in {<<>>, <<Loop!Note("summary")>>} :
           stm' = Loop!Drained(summary \o retained, queue)
    BY DEF Loop!Summarised
  <1>2. moment = "summarising" /\ moment' = "model" /\ run' = run
    BY DEF Loop!Summarised
  <1>3. /\ ReactBooks(retained, run.task, run.round, 0) /\ retained \in Seq(ReactMessages)
        /\ queue \in Nat
    BY <1>2, ReactCounts DEF ReactInv, ReactBooked
  <1>4. summary \in Seq(ReactMessages) /\ \A i \in 1..Len(summary) : summary[i].is # "calls"
    <2>1. PICK m : m = Loop!Note("summary")
      OBVIOUS
    <2>2. m \in ReactMessages /\ m.is # "calls"
      BY <2>1, ReactNotes
    <2>3. CASE summary = <<>>
      BY <2>3
    <2>4. CASE summary = <<m>>
      <3>1. /\ <<m>> \in Seq(ReactMessages) /\ \A i \in 1..Len(<<m>>) : <<m>>[i] = m
        BY <2>2
      <3> QED BY <2>2, <2>4, <3>1
    <2> QED BY <1>1, <2>1, <2>3, <2>4
  <1>5. PICK all : all = summary \o retained
    OBVIOUS
  <1>6. all \in Seq(ReactMessages) /\ ReactBooks(all, run.task, run.round, 0)
    BY <1>3, <1>4, <1>5, ReactJoined, ReactJoinedBooks
  <1>7. ReactBooks(stm', run.task, run.round, 0)
    BY <1>1, <1>3, <1>5, <1>6, ReactDrainedBooks
  <1> QED BY <1>2, <1>7 DEF ReactBooked

\* The same memory, in a round that is under way or in the next one.
LEMMA ReactGoesOn ==
    ASSUME LoopParameters, ReactInv, moment \notin {"idle", "tools"},
           moment' \in {"round", "managing"}, stm' = stm, run'.task = run.task,
           run'.round \in {run.round, run.round + 1}
    PROVE  ReactBooked'
  <1>1. /\ run.task \in Nat /\ run.round \in Nat /\ stm \in Seq(ReactMessages)
        /\ ReactBooks(stm, run.task, run.round, 0)
    BY ReactCounts DEF ReactInv, ReactBooked
  <1>2. run.round + 1 \in Nat /\ run.round <= run.round + 1
    BY <1>1
  <1>3. ReactBooks(stm, run.task, run.round + 1, 0)
    BY <1>1, <1>2, ReactLaterBooks
  <1>4. ReactBooks(stm', run'.task, run'.round, 0)
    BY <1>1, <1>3
  <1> QED BY <1>4 DEF ReactBooked

\* An answer that calls tools.
LEMMA ReactAsksBooked ==
    ASSUME LoopParameters, ReactInv, moment = "model", moment' = "tools",
           NEW n \in 1..ForLoop.MaxCalls,
           stm' = Append(stm, Loop!Message("calls", <<run.task, run.round>>, n, 1)),
           run'.task = run.task, run'.round = run.round, run'.left = n
    PROVE  ReactBooked'
  <1>1. /\ run.task \in Nat /\ run.round \in Nat /\ stm \in Seq(ReactMessages)
        /\ ReactBooks(stm, run.task, run.round, 0)
    BY ReactCounts DEF ReactInv, ReactBooked
  <1>2. n \in Nat
    BY ReactNumbers
  <1>3. PICK m : m = Loop!Message("calls", <<run.task, run.round>>, n, 1)
    OBVIOUS
  <1>4. m \in ReactMessages /\ m.is = "calls" /\ m.of = <<run.task, run.round>> /\ m.no = n
    BY <1>1, <1>2, <1>3, ReactNotes DEF Loop!Message, ReactMessages
  <1>5. ReactBooks(Append(stm, m), run.task, run.round + 1, m.no)
    BY <1>1, <1>4, ReactAskedBooks
  <1>6. ReactBooks(stm', run'.task, run'.round + 1, run'.left)
    BY <1>3, <1>4, <1>5
  <1> QED BY <1>6 DEF ReactBooked

\* A tool has answered.
LEMMA ReactToolAnswersBooked ==
    ASSUME LoopParameters, ReactInv, Loop!ToolAnswers
    PROVE  ReactBooked'
  <1>1. /\ moment = "tools" /\ moment' = IF run.left = 1 THEN "round" ELSE "tools"
        /\ run' = [run EXCEPT !.left = @ - 1, !.round = IF run.left = 1 THEN @ + 1 ELSE @]
    BY DEF Loop!ToolAnswers
  <1>2. PICK is \in Loop!Results, size \in ForLoop.Sizes :
          stm' = Append(stm, Loop!Message(is, <<run.task, run.round>>, run.left, size))
    BY DEF Loop!ToolAnswers, Loop!Result
  <1>3. /\ run \in ReactRuns /\ run.task \in Nat /\ run.round \in Nat /\ run.left \in Nat \ {0}
        /\ stm \in Seq(ReactMessages) /\ ReactBooks(stm, run.task, run.round + 1, run.left)
    BY <1>1, ReactCounts DEF ReactInv, ReactBooked
  <1>4. PICK m : m = Loop!Message(is, <<run.task, run.round>>, run.left, size)
    OBVIOUS
  <1>5. /\ m \in ReactMessages /\ m.is \in Loop!Results /\ m.of = <<run.task, run.round>>
        /\ m.no = run.left
    BY <1>3, <1>4, ReactNotes DEF Loop!Message, ReactMessages
  <1>6. ReactBooks(stm', run.task, run.round + 1, run.left - 1)
    BY <1>2, <1>3, <1>4, <1>5, ReactRepliedBooks
  <1>7. /\ run'.task = run.task /\ run'.left = run.left - 1
        /\ run'.round = IF run.left = 1 THEN run.round + 1 ELSE run.round
    BY <1>1, <1>3 DEF ReactRuns
  <1>8. CASE run.left = 1
    <2>1. moment' = "round" /\ run.left - 1 = 0 /\ run'.round = run.round + 1
      BY <1>1, <1>7, <1>8
    <2> QED BY <1>6, <1>7, <2>1 DEF ReactBooked
  <1>9. CASE run.left # 1
    BY <1>1, <1>6, <1>7, <1>9 DEF ReactBooked
  <1> QED BY <1>8, <1>9

\* manage_context writes the memory, or refuses.
LEMMA ReactManagedBooked ==
    ASSUME LoopParameters, ReactInv, Loop!Managed
    PROVE  ReactBooked'
  <1>1. moment = "managing" /\ moment' = "round"
    BY DEF Loop!Managed
  <1>2. /\ run \in ReactRuns /\ run.task \in Nat /\ run.round \in Nat /\ stm \in Seq(ReactMessages)
        /\ ReactBooks(stm, run.task, run.round, 0)
    BY <1>1, ReactCounts DEF ReactInv, ReactBooked
  <1>3. run'.task = run.task /\ run'.round = run.round + 1
    BY <1>2 DEF Loop!Managed, ReactRuns
  <1>4. CASE stm' = stm
    BY <1>1, <1>3, <1>4, ReactGoesOn
  <1>5. CASE \E complete \in BOOLEAN : stm' = Loop!WithComplete(Loop!WithCore(stm), complete)
    <2>1. PICK complete \in BOOLEAN : stm' = Loop!WithComplete(Loop!WithCore(stm), complete)
      BY <1>5
    <2>2. stm' \in Seq(ReactMessages) /\ ReactBooks(stm', run.task, run.round, 0)
      BY <1>2, <2>1, ReactMarked, ReactMarkedBooks
    <2>3. run.round + 1 \in Nat /\ run.round <= run.round + 1
      BY <1>2
    <2>4. ReactBooks(stm', run.task, run.round + 1, 0)
      BY <1>2, <2>2, <2>3, ReactLaterBooks
    <2> QED BY <1>1, <1>3, <2>4 DEF ReactBooked
  <1> QED BY <1>4, <1>5, Zenon DEF Loop!Managed

\* An answer in words.
LEMMA ReactTextBooked ==
    ASSUME LoopParameters, ReactInv, Loop!AnswersText
    PROVE  ReactBooked'
  <1>1. moment = "model" /\ run \in ReactRuns
    BY ReactCounts DEF Loop!AnswersText, ReactInv
  <1>2. CASE moment' = "round" /\ run' = [run EXCEPT !.round = @ + 1] /\ stm' = stm
    <2>1. run'.task = run.task /\ run'.round = run.round + 1
      BY <1>1, <1>2 DEF ReactRuns
    <2> QED BY <1>1, <1>2, <2>1, ReactGoesOn
  <1>3. CASE stm' = Append(stm, Loop!Note("reply")) /\ Loop!Ends
    BY <1>1, <1>3, ReactEndsBooked
  <1> QED BY <1>2, <1>3, Zenon DEF Loop!AnswersText

\* An answer with calls, of an agent without manage_context.
LEMMA ReactAnswersBooked ==
    ASSUME LoopParameters, ReactInv, Loop!AnswersCalls
    PROVE  ReactBooked'
  <1>1. moment = "model" /\ run \in ReactRuns
    BY ReactCounts DEF Loop!AnswersCalls, ReactInv
  <1> DEFINE Asks(n, signature, times) ==
               /\ stm' = Append(stm, Loop!Message("calls", <<run.task, run.round>>, n, 1))
               /\ moment' = "tools"
               /\ run' = [run EXCEPT !.left = n, !.last = signature, !.repeated = times]
  <1>2. \/ stm' = Append(stm, Loop!Note("reply")) /\ Loop!Ends
        \/ \E n \in 1..ForLoop.MaxCalls : \E signature, times : Asks(n, signature, times)
    BY Zenon DEF Loop!AnswersCalls
  <1>3. CASE stm' = Append(stm, Loop!Note("reply")) /\ Loop!Ends
    BY <1>1, <1>3, ReactEndsBooked
  <1>4. CASE \E n \in 1..ForLoop.MaxCalls : \E signature, times : Asks(n, signature, times)
    <2>1. PICK n \in 1..ForLoop.MaxCalls : \E signature, times : Asks(n, signature, times)
      BY <1>4
    <2>2. PICK signature, times : Asks(n, signature, times)
      BY <2>1
    <2>3. run'.task = run.task /\ run'.round = run.round /\ run'.left = n
      BY <1>1, <2>2 DEF ReactRuns
    <2> QED BY <1>1, <2>2, <2>3, ReactAsksBooked
  <1> QED BY <1>2, <1>3, <1>4

\* An answer of an agent with manage_context.
LEMMA ReactManagesBooked ==
    ASSUME LoopParameters, ReactInv, Loop!AnswersManaged
    PROVE  ReactBooked'
  <1>1. moment = "model" /\ run \in ReactRuns
    BY ReactCounts DEF Loop!AnswersManaged, ReactInv
  <1>2. CASE moment' = "managing" /\ UNCHANGED <<stm, run>>
    BY <1>1, <1>2, ReactGoesOn
  <1>3. CASE /\ moment' = "round" /\ run' = [run EXCEPT !.round = @ + 1, !.managed = FALSE]
             /\ UNCHANGED stm
    <2>1. run'.task = run.task /\ run'.round = run.round + 1
      BY <1>1, <1>3 DEF ReactRuns
    <2> QED BY <1>1, <1>3, <2>1, ReactGoesOn
  <1>4. CASE /\ moment' = "tools"
             /\ \E n \in 1..ForLoop.MaxCalls :
                  /\ stm' = Append(stm, Loop!Message("calls", <<run.task, run.round>>, n, 1))
                  /\ run' = [run EXCEPT !.left = n, !.managed = FALSE]
    <2>1. PICK n \in 1..ForLoop.MaxCalls :
                  /\ stm' = Append(stm, Loop!Message("calls", <<run.task, run.round>>, n, 1))
                  /\ run' = [run EXCEPT !.left = n, !.managed = FALSE]
      BY <1>4
    <2>2. run'.task = run.task /\ run'.round = run.round /\ run'.left = n
      BY <1>1, <2>1 DEF ReactRuns
    <2>3. moment' = "tools"
      BY <1>4
    <2> QED BY <1>1, <2>1, <2>2, <2>3, ReactAsksBooked
  <1> QED BY <1>2, <1>3, <1>4, Zenon DEF Loop!AnswersManaged

\* Guidance waits, and the memory is as it was.
LEMMA ReactGuidedBooked ==
    ASSUME ReactBooked, UNCHANGED <<stm, retained, moment, run>>
    PROVE  ReactBooked'
  BY DEF ReactBooked, ReactBooks, ReactAnswered

\* Every step of the agent keeps the invariant.
LEMMA ReactStep ==
    ASSUME LoopParameters, ReactInv, Loop!Next
    PROVE  ReactInv'
  <1>0. ReactBase
    BY DEF ReactInv
  <1>1. CASE Loop!Execute
    BY <1>0, <1>1, ReactExecute, ReactExecuteBooked DEF ReactInv
  <1>2. CASE Loop!Guide
    <2>1. ReactBooked'
      BY <1>2, ReactGuidedBooked DEF ReactInv, Loop!Guide
    <2> QED BY <1>0, <1>2, <2>1, ReactGuided DEF ReactInv
  <1>3. CASE Loop!Step
    <2>1. CASE Loop!Compress \/ Loop!Summarised
      BY <1>0, <2>1, ReactCompress, ReactSummarised, ReactCompressBooked, ReactSummarisedBooked
         DEF ReactInv
    <2>2. CASE Loop!GivesUp \/ Loop!Chats \/ Loop!Breaks
      <3>1. /\ Loop!Ends /\ UNCHANGED <<kind, queue, advised, retained, allowed>>
            /\ stm' \in {stm, Append(stm, Loop!Note("reply"))} /\ moment # "idle"
        BY <2>2 DEF Loop!GivesUp, Loop!Chats, Loop!Breaks
      <3> QED BY <1>0, <3>1, ReactOver, ReactEndsBooked DEF ReactInv
    <2>3. CASE Loop!AnswersText \/ Loop!AnswersCalls \/ Loop!AnswersManaged
      BY <1>0, <2>3, ReactText, ReactAnswers, ReactManages, ReactTextBooked, ReactAnswersBooked,
         ReactManagesBooked DEF ReactInv
    <2>4. CASE Loop!Managed \/ Loop!ToolAnswers
      BY <1>0, <2>4, ReactManagedCall, ReactToolAnswers, ReactManagedBooked,
         ReactToolAnswersBooked DEF ReactInv
    <2> QED BY <1>3, <2>1, <2>2, <2>3, <2>4, Zenon DEF Loop!Step
  <1> QED BY <1>1, <1>2, <1>3, Zenon DEF Loop!Next

\* So does a step that leaves its variables alone.
LEMMA ReactUnchanged ==
    ASSUME ReactInv, UNCHANGED Loop!vars
    PROVE  ReactInv'
  <1>1. ReactBase'
    BY DEF Loop!vars, ReactInv, ReactBase, ReactTypes, ReactRounds, ReactSound, ReactCalls,
       ReactManaged, ReactPaired, ReactGuides, ReactHeard
  <1>2. ReactBooked'
    BY ReactGuidedBooked DEF ReactInv, Loop!vars
  <1> QED BY <1>1, <1>2 DEF ReactInv

\* The invariant of a new agent.
LEMMA ReactStart ==
    ASSUME LoopParameters, Loop!Init
    PROVE  ReactInv
  <1>1. moment = "idle" /\ stm = <<>> /\ Len(<<>>) = 0
    BY DEF Loop!Init
  <1>2. ReactBooks(<<>>, run.task + 1, 0, 0)
    BY DEF ReactBooks
  <1> QED BY <1>1, <1>2, ReactNew DEF ReactInv, ReactBooked

\* Every step of the agent, and one that leaves it alone, keeps the invariant.
LEMMA ReactMoves ==
    ASSUME LoopParameters, ReactInv, [Loop!Next]_Loop!vars
    PROVE  ReactInv'
  BY ReactStep, ReactUnchanged

\* What the invariant says of the model's view.
LEMMA ReactSees ==
    ASSUME LoopParameters, ReactInv
    PROVE  Loop!ModelSeesPairs /\ Loop!ToolsAfterManage
  <1>1. Loop!ToolsAfterManage
    BY DEF ReactInv, ReactBase, ReactManaged, Loop!ToolsAfterManage
  <1>2. PICK shown1 : shown1 = Loop!Shown
    OBVIOUS
  <1>3. /\ stm \in Seq(ReactMessages) /\ ReactPaired(stm) /\ queue \in Nat /\ advised \in Nat
        /\ queue + ReactGuides(stm) <= advised
        /\ Loop!Tokens(retained) <= ForLoop.Window \/ Len(retained) <= 1
    BY DEF ReactInv, ReactBase, ReactTypes, ReactSound
  <1>4. shown1 \in Seq(ReactMessages) /\ ReactPaired(shown1) /\ ReactGuides(shown1) <= ReactGuides(stm)
    <2>1. ReactGuides(stm) \in Nat
      BY <1>3, ReactHeardFinite
    <2>2. CASE shown1 = stm
      BY <1>3, <2>1, <2>2
    <2>3. CASE shown1 = Loop!Ordered(stm)
      BY <1>3, <2>3, ReactOrdered
    <2> QED BY <1>2, <2>2, <2>3 DEF Loop!Shown
  <1>5. ReactGuides(shown1) \in Nat /\ ReactGuides(stm) \in Nat
    BY <1>3, <1>4, ReactHeardFinite
  <1>6. queue + ReactGuides(shown1) <= advised
    BY <1>3, <1>4, <1>5
  <1>7. DOMAIN shown1 = 1..Len(shown1)
    BY <1>4
  <1>8. Loop!Cardinality({i \in DOMAIN shown1 : shown1[i].is = "guidance"}) = ReactGuides(shown1)
    BY <1>7, ReactListings DEF ReactGuides, ReactHeard
  <1>9. \A i \in DOMAIN shown1 : shown1[i].is = "result" =>
           \E j \in 1..i - 1 : /\ shown1[j].is = "calls" /\ shown1[j].of = shown1[i].of
                               /\ shown1[i].no <= shown1[j].no
    BY <1>4, <1>7 DEF ReactPaired
  <1>10. queue + Loop!Cardinality({i \in DOMAIN shown1 : shown1[i].is = "guidance"}) <= advised
    BY <1>6, <1>8
  <1>11. ASSUME moment = "model", NEW j \in DOMAIN shown1, shown1[j].is = "calls",
                shown1[j].of[1] = run.task, NEW m \in 1..shown1[j].no
         PROVE  \E i \in j + 1..Len(shown1) :
                   shown1[i].is \in Loop!Results /\ shown1[i].of = shown1[j].of /\ shown1[i].no = m
    <2>1. ReactBooks(stm, run.task, run.round, 0) /\ run.task \in Nat
      BY <1>11, ReactCounts DEF ReactInv, ReactBooked
    <2>2. ReactBooks(shown1, run.task, run.round, 0)
      <3>1. ReactBooks(Loop!Ordered(stm), run.task, run.round, 0)
        BY <1>3, <2>1, ReactOrderedBooks
      <3> QED BY <1>2, <2>1, <3>1 DEF Loop!Shown
    <2>3. ~(run.task < run.task) /\ ~(m <= 0)
      <3>1. shown1[j] \in ReactMessages
        BY <1>4
      <3>2. shown1[j].no \in Nat
        BY <3>1 DEF ReactMessages
      <3> QED BY <2>1, <3>2
    <2>4. ReactAnswered(shown1, j, m)
      BY <1>7, <1>11, <2>2, <2>3, Zenon DEF ReactBooks
    <2> QED BY <2>4 DEF ReactAnswered
  <1>12. Loop!ModelSeesPairs
    BY <1>2, <1>3, <1>9, <1>10, <1>11, Zenon DEF Loop!ModelSeesPairs
  <1> QED BY <1>1, <1>12

\* What it says of types.
LEMMA ReactTyped ==
    ASSUME LoopParameters, ReactInv
    PROVE  Loop!TypeOK
  <1>1. /\ ReactTypes /\ stm \in Seq(ReactMessages) /\ retained \in Seq(ReactMessages) /\ queue \in Nat
        /\ queue + ReactGuides(stm) <= advised /\ advised \in 0..ForLoop.MaxGuidance /\ run \in ReactRuns
    BY DEF ReactInv, ReactBase, ReactTypes, ReactSound
  <1>2. ReactGuides(stm) \in Nat /\ ForLoop.MaxGuidance \in Nat
    BY <1>1, ReactHeardFinite DEF LoopParameters
  <1>3. queue \in 0..ForLoop.MaxGuidance
    BY <1>1, <1>2
  <1>4. ASSUME NEW m \in Loop!Range(stm \o retained)
        PROVE  m.is \in Loop!MessageKinds /\ m.size \in ForLoop.Sizes \union {1}
    <2>1. PICK both : both = stm \o retained
      OBVIOUS
    <2>2. both \in Seq(ReactMessages)
      BY <1>1, <2>1, Joined
    <2>3. PICK i \in DOMAIN both : m = both[i]
      BY <1>4, <2>1, ReactListings
    <2>4. m \in ReactMessages
      BY <2>2, <2>3
    <2> QED BY <2>4 DEF ReactMessages
  <1>5. /\ run.task \in 0..ForLoop.MaxTasks /\ run.round \in 0..ForLoop.MaxRounds + 1
        /\ run.repeated \in 0..2 /\ run.left \in 0..ForLoop.MaxCalls /\ run.managed \in BOOLEAN
    BY <1>1 DEF ReactRuns
  <1> QED BY <1>1, <1>3, <1>4, <1>5, Zenon DEF Loop!TypeOK, ReactTypes

----------------------------------------------------------------------------
(* RunApprovals: a run nobody sits at.                                       *)

WaitParameters == ForApprovals.MaxTasks \in Nat /\ ForApprovals.MaxRequests \in Nat

WaitRequests == 1..ForApprovals.MaxRequests
WaitEvents == [is : {"ask", "answered"}, id : WaitRequests]

\* A task that has begun has ended or is under way, and what waits is a request.
WaitInv ==
    /\ limits \in Approvals!Setups
    /\ started \in 0..ForApprovals.MaxTasks /\ stage \in {"idle", "working", "waiting"}
    /\ requested \in 0..ForApprovals.MaxRequests /\ safe \in BOOLEAN /\ open \subseteq WaitRequests
    /\ mail \in Seq(WaitEvents)
    /\ frames \in Seq(WaitRequests) /\ Len(frames) <= ForApprovals.MaxRequests
    /\ granting \in [id : 0..ForApprovals.MaxRequests, answer : {"none", "ok", "error"}]
    /\ attempted \subseteq WaitRequests /\ shown \subseteq WaitRequests
    /\ watched \in [id : 0..ForApprovals.MaxRequests, long : BOOLEAN]
    /\ ended \in Seq({"ok", "timeout"})
    /\ Len(ended) + (IF stage = "idle" THEN 0 ELSE 1) = started
    /\ stage = "waiting" => requested # 0

\* A client that has started nothing.
LEMMA WaitStart ==
    ASSUME WaitParameters, Approvals!Init
    PROVE  WaitInv
  <1>1. 0 \in 0..ForApprovals.MaxTasks /\ 0 \in 0..ForApprovals.MaxRequests
        /\ 0 <= ForApprovals.MaxRequests
    BY DEF WaitParameters
  <1>2. /\ limits \in Approvals!Setups /\ started = 0 /\ stage = "idle" /\ requested = 0
        /\ safe = FALSE /\ open = {} /\ mail = <<>> /\ frames = <<>>
        /\ granting = [id |-> 0, answer |-> "none"] /\ attempted = {}
        /\ watched = [id |-> 0, long |-> FALSE] /\ shown = {} /\ ended = <<>>
    BY DEF Approvals!Init, Approvals!NoGrant, Approvals!Off
  <1>3. /\ mail \in Seq(WaitEvents) /\ frames \in Seq(WaitRequests) /\ ended \in Seq({"ok", "timeout"})
        /\ Len(frames) = 0 /\ Len(ended) = 0
    BY <1>2
  <1>4. /\ granting \in [id : 0..ForApprovals.MaxRequests, answer : {"none", "ok", "error"}]
        /\ watched \in [id : 0..ForApprovals.MaxRequests, long : BOOLEAN]
    BY <1>1, <1>2
  <1>5. Len(ended) + (IF stage = "idle" THEN 0 ELSE 1) = started /\ (stage = "waiting" => requested # 0)
        /\ Len(frames) <= ForApprovals.MaxRequests
    BY <1>1, <1>2, <1>3
  <1>6. /\ started \in 0..ForApprovals.MaxTasks /\ stage \in {"idle", "working", "waiting"}
        /\ requested \in 0..ForApprovals.MaxRequests /\ safe \in BOOLEAN
    BY <1>1, <1>2
  <1>7. open \subseteq WaitRequests /\ attempted \subseteq WaitRequests /\ shown \subseteq WaitRequests
    BY <1>2
  <1> QED BY <1>2, <1>3, <1>4, <1>5, <1>6, <1>7, Zenon DEF WaitInv

\* The invariant of a waiting run has its types.
LEMMA WaitTyped ==
    ASSUME WaitParameters, WaitInv
    PROVE  Approvals!TypeOK
  <1>1. limits.path \in {"gateway", "agent"} /\ limits.auto \in {"none", "some", "all"}
    <2>1. PICK c \in Approvals!Commands, p \in {"gateway", "agent"} : limits = Approvals!Setup(c, p)
      BY DEF WaitInv, Approvals!Setups
    <2>2. c.with.auto \in {"none", "some", "all"}
      <3>1. CASE \E o \in Approvals!Common : c = Approvals!Script(o)
        BY <3>1 DEF Approvals!Script, Approvals!Common
      <3>2. CASE \E o \in Approvals!Common, a \in {"none", "some", "all"} : c = Approvals!RunOf(o, a)
        <4>1. PICK o \in Approvals!Common, a \in {"none", "some", "all"} : c = Approvals!RunOf(o, a)
          BY <3>2
        <4>2. c.with.auto = a
          BY <4>1 DEF Approvals!RunOf, Approvals!Common
        <4> QED BY <4>1, <4>2
      <3> QED BY <2>1, <3>1, <3>2 DEF Approvals!Commands
    <2> QED BY <2>1, <2>2 DEF Approvals!Setup
  <1>2. \A S : \A q \in Seq(S) : \A m \in {q[i] : i \in DOMAIN q} : m \in S
    OBVIOUS
  <1>3. /\ \A m \in Approvals!Range(mail) : m \in WaitEvents
        /\ Approvals!Range(frames) \subseteq WaitRequests
        /\ Approvals!Range(ended) \subseteq {"ok", "timeout"}
    BY <1>2 DEF WaitInv, Approvals!Range
  <1>4. Len(ended) <= ForApprovals.MaxTasks
    <2>1. Len(ended) \in Nat /\ ForApprovals.MaxTasks \in Nat /\ started \in 0..ForApprovals.MaxTasks
      BY DEF WaitInv, WaitParameters
    <2>2. Len(ended) <= started
      BY <2>1 DEF WaitInv
    <2> QED BY <2>1, <2>2
  <1>5. Approvals!Requests = WaitRequests
    BY DEF Approvals!Requests, WaitRequests
  <1>6. \A m \in WaitEvents : m.is \in {"ask", "answered"} /\ m.id \in WaitRequests
    BY DEF WaitEvents
  <1>7. /\ granting.id \in 0..ForApprovals.MaxRequests /\ granting.answer \in {"none", "ok", "error"}
        /\ watched.id \in 0..ForApprovals.MaxRequests /\ watched.long \in BOOLEAN
    BY DEF WaitInv
  <1> QED BY <1>1, <1>3, <1>4, <1>5, <1>6, <1>7, Zenon DEF Approvals!TypeOK, WaitInv

\* What a watch may become.
LEMMA WaitWatch ==
    ASSUME WaitParameters, WaitInv, NEW id \in WaitRequests
    PROVE  /\ id \in 0..ForApprovals.MaxRequests
           /\ Approvals!Watched(id) \in [id : 0..ForApprovals.MaxRequests, long : BOOLEAN]
           /\ Approvals!Unwatched(id) \in [id : 0..ForApprovals.MaxRequests, long : BOOLEAN]
           /\ Approvals!Off \in [id : 0..ForApprovals.MaxRequests, long : BOOLEAN]
  <1>1. id \in 0..ForApprovals.MaxRequests /\ 0 \in 0..ForApprovals.MaxRequests
    BY DEF WaitParameters, WaitRequests
  <1> QED BY <1>1 DEF WaitInv, Approvals!Watched, Approvals!Unwatched, Approvals!Off

\* The pump takes events in turn.
LEMMA WaitPump ==
    ASSUME WaitParameters, WaitInv, Approvals!Pump
    PROVE  WaitInv'
  <1> DEFINE Grants == [id : 0..ForApprovals.MaxRequests, answer : {"none", "ok", "error"}]
             Watches == [id : 0..ForApprovals.MaxRequests, long : BOOLEAN]
  <1>1. /\ UNCHANGED <<limits, started, stage, requested, safe, frames, ended>>
        /\ granting \in Grants /\ watched \in Watches /\ mail \in Seq(WaitEvents)
        /\ open \subseteq WaitRequests /\ attempted \subseteq WaitRequests /\ shown \subseteq WaitRequests
    BY DEF WaitInv, Approvals!Pump, Approvals!TakeAsk, Approvals!TakeAnswered,
       Approvals!Grant, Approvals!Granted
  <1>2. Approvals!NoGrant = [id |-> 0, answer |-> "none"] /\ Approvals!NoGrant \in Grants
    BY DEF Approvals!NoGrant, WaitParameters
  <1>3. mail # <<>> => Head(mail) \in WaitEvents /\ Tail(mail) \in Seq(WaitEvents)
                       /\ Head(mail).id \in WaitRequests
    <2>1. mail # <<>> => Head(mail) \in WaitEvents /\ Tail(mail) \in Seq(WaitEvents)
      BY <1>1
    <2> QED BY <2>1 DEF WaitEvents
  <1>4. SUFFICES /\ granting' \in Grants /\ watched' \in Watches /\ mail' \in Seq(WaitEvents)
                 /\ open' \subseteq WaitRequests /\ attempted' \subseteq WaitRequests
                 /\ shown' \subseteq WaitRequests
    BY <1>1 DEF WaitInv
  <1>5. CASE Approvals!TakeAsk
    <2>1. PICK id : id = Head(mail).id
      OBVIOUS
    <2>2. /\ mail # <<>> /\ mail' = Tail(mail) /\ open' = open
          /\ shown' = shown \union {id} /\ attempted' \in {attempted, attempted \union {id}}
          /\ watched' = Approvals!Watched(id)
          /\ granting' \in {[Approvals!NoGrant EXCEPT !.id = id], Approvals!NoGrant}
      BY <1>5, <2>1 DEF Approvals!TakeAsk, Approvals!Pending
    <2>3. id \in WaitRequests /\ Tail(mail) \in Seq(WaitEvents)
      BY <1>3, <2>1, <2>2
    <2>4. id \in 0..ForApprovals.MaxRequests /\ watched' \in Watches
      BY <2>2, <2>3, WaitWatch
    <2>5. granting' \in Grants
      BY <1>2, <2>2, <2>4
    <2> QED BY <1>1, <2>2, <2>3, <2>4, <2>5
  <1>6. CASE Approvals!TakeAnswered
    <2>1. PICK id : id = Head(mail).id
      OBVIOUS
    <2>2. /\ mail # <<>> /\ mail' = Tail(mail) /\ open' = open /\ attempted' = attempted
          /\ shown' = shown \ {id} /\ granting' = granting
          /\ watched' = Approvals!Unwatched(id)
      BY <1>6, <2>1 DEF Approvals!TakeAnswered
    <2>3. id \in WaitRequests /\ Tail(mail) \in Seq(WaitEvents)
      BY <1>3, <2>1, <2>2
    <2>4. watched' \in Watches
      BY <2>2, <2>3, WaitWatch
    <2> QED BY <1>1, <2>2, <2>3, <2>4
  <1>7. CASE Approvals!Grant
    <2>1. /\ UNCHANGED <<mail, attempted, watched, shown>> /\ open' \in {open, open \ {granting.id}}
          /\ granting' \in {[granting EXCEPT !.answer = "ok"], [granting EXCEPT !.answer = "error"]}
      BY <1>7 DEF Approvals!Grant
    <2>2. granting' \in Grants
      BY <1>1, <2>1
    <2> QED BY <1>1, <2>1, <2>2
  <1>8. CASE Approvals!Granted
    <2>1. /\ UNCHANGED <<open, mail, attempted, shown>> /\ granting' = Approvals!NoGrant
          /\ watched' \in {Approvals!Unwatched(granting.id), watched}
      BY <1>8 DEF Approvals!Granted
    <2>2. Approvals!Unwatched(granting.id) \in {Approvals!Off, watched}
      BY DEF Approvals!Unwatched
    <2>3. Approvals!Off \in Watches
      BY DEF Approvals!Off, WaitParameters
    <2> QED BY <1>1, <1>2, <2>1, <2>2, <2>3
  <1> QED BY <1>5, <1>6, <1>7, <1>8, Zenon DEF Approvals!Pump

\* A task that is over.
LEMMA WaitOver ==
    ASSUME WaitParameters, WaitInv, stage # "idle", NEW how \in {"ok", "timeout"},
           Approvals!Over(how),
           UNCHANGED <<limits, started, requested, safe, frames, open, mail, granting, attempted>>
    PROVE  WaitInv'
  <1>1. /\ stage' = "idle" /\ ended' = Append(ended, how) /\ shown' = {}
        /\ watched' = [id |-> 0, long |-> FALSE]
    BY DEF Approvals!Over, Approvals!Off
  <1>2. ended \in Seq({"ok", "timeout"}) /\ Len(ended) \in Nat /\ Len(ended) + 1 = started
    BY DEF WaitInv
  <1>3. ended' \in Seq({"ok", "timeout"}) /\ Len(ended') = Len(ended) + 1
    BY <1>1, <1>2
  <1>4. watched' \in [id : 0..ForApprovals.MaxRequests, long : BOOLEAN]
    BY <1>1 DEF WaitParameters
  <1>5. Len(ended') + (IF stage' = "idle" THEN 0 ELSE 1) = started
    BY <1>1, <1>2, <1>3
  <1> QED BY <1>1, <1>3, <1>4, <1>5 DEF WaitInv

\* The agent asks, resumes and finishes.
LEMMA WaitAgent ==
    ASSUME WaitParameters, WaitInv, Approvals!Agent
    PROVE  WaitInv'
  <1>1. CASE Approvals!Asks
    <2>1. /\ stage = "working" /\ requested < ForApprovals.MaxRequests /\ requested' = requested + 1
          /\ safe' \in BOOLEAN /\ open' = open \union {requested + 1}
          /\ mail' = Append(mail, [is |-> "ask", id |-> requested + 1]) /\ stage' = "waiting"
          /\ UNCHANGED <<limits, started, frames, granting, attempted, watched, shown, ended>>
      BY <1>1 DEF Approvals!Asks, Approvals!Announced, Approvals!AskEvent
    <2>2. requested + 1 \in WaitRequests /\ requested + 1 \in 0..ForApprovals.MaxRequests /\ requested + 1 # 0
      BY <2>1 DEF WaitInv, WaitParameters, WaitRequests
    <2>3. mail' \in Seq(WaitEvents)
      <3>1. [is |-> "ask", id |-> requested + 1] \in WaitEvents /\ mail \in Seq(WaitEvents)
        BY <2>2 DEF WaitEvents, WaitInv
      <3> QED BY <2>1, <3>1
    <2>4. Len(ended) + (IF stage' = "idle" THEN 0 ELSE 1) = started
      BY <2>1 DEF WaitInv
    <2> QED BY <2>1, <2>2, <2>3, <2>4 DEF WaitInv
  <1>2. CASE Approvals!Resumes
    <2>1. /\ stage = "waiting" /\ stage' = "working"
          /\ mail' \in {mail, Append(mail, [is |-> "answered", id |-> requested])}
          /\ UNCHANGED <<limits, started, requested, safe, frames, open, granting, attempted, watched, shown, ended>>
      BY <1>2 DEF Approvals!Resumes, Approvals!AnswerTold, Approvals!AnsweredEvent
    <2>2. requested \in WaitRequests
      BY <2>1 DEF WaitInv, WaitParameters, WaitRequests
    <2>3. mail' \in Seq(WaitEvents)
      <3>1. [is |-> "answered", id |-> requested] \in WaitEvents /\ mail \in Seq(WaitEvents)
        BY <2>2 DEF WaitEvents, WaitInv
      <3> QED BY <2>1, <3>1
    <2>4. Len(ended) + (IF stage' = "idle" THEN 0 ELSE 1) = started
      BY <2>1 DEF WaitInv
    <2> QED BY <2>1, <2>3, <2>4 DEF WaitInv
  <1>3. CASE Approvals!Finishes
    BY <1>3, WaitOver DEF Approvals!Finishes
  <1> QED BY <1>1, <1>2, <1>3, Zenon DEF Approvals!Agent

\* The host writes frames and they are handled.
LEMMA WaitHost ==
    ASSUME WaitParameters, WaitInv, Approvals!HostWrites \/ Approvals!HandleFrame
    PROVE  WaitInv'
  <1>1. UNCHANGED <<limits, started, stage, requested, safe, mail, granting, attempted, watched, shown, ended>>
    BY DEF Approvals!HostWrites, Approvals!HandleFrame
  <1>2. SUFFICES /\ open' \subseteq WaitRequests /\ frames' \in Seq(WaitRequests)
                 /\ Len(frames') <= ForApprovals.MaxRequests
    BY <1>1 DEF WaitInv
  <1>3. /\ frames \in Seq(WaitRequests) /\ Len(frames) \in Nat /\ open \subseteq WaitRequests
        /\ Len(frames) <= ForApprovals.MaxRequests /\ requested \in 0..ForApprovals.MaxRequests
        /\ ForApprovals.MaxRequests \in Nat
    BY DEF WaitInv, WaitParameters
  <1>4. CASE Approvals!HostWrites
    <2>1. PICK id \in 1..requested : frames' = Append(frames, id)
      BY <1>4 DEF Approvals!HostWrites
    <2>2. open' = open /\ Len(frames) < ForApprovals.MaxRequests
      BY <1>4 DEF Approvals!HostWrites
    <2>3. id \in WaitRequests
      BY <1>3 DEF WaitRequests
    <2>4. frames' \in Seq(WaitRequests) /\ Len(frames') = Len(frames) + 1
      BY <1>3, <2>1, <2>3
    <2> QED BY <1>3, <2>2, <2>4
  <1>5. CASE Approvals!HandleFrame
    <2>1. frames # <<>> /\ frames' = Tail(frames) /\ open' \subseteq open
      BY <1>5 DEF Approvals!HandleFrame
    <2>2. frames' \in Seq(WaitRequests) /\ Len(frames') = Len(frames) - 1
      BY <1>3, <2>1
    <2> QED BY <1>3, <2>1, <2>2
  <1> QED BY <1>4, <1>5

\* Every step of a run keeps the invariant.
LEMMA WaitStep ==
    ASSUME WaitParameters, WaitInv, Approvals!Next
    PROVE  WaitInv'
  <1>1. CASE Approvals!Begin
    <2>1. /\ stage = "idle" /\ started < ForApprovals.MaxTasks /\ started' = started + 1
          /\ stage' = "working" /\ watched' = [id |-> 0, long |-> FALSE]
          /\ UNCHANGED <<limits, requested, safe, frames, open, mail, granting, attempted, shown, ended>>
      BY <1>1 DEF Approvals!Begin, Approvals!Off
    <2>2. watched' \in [id : 0..ForApprovals.MaxRequests, long : BOOLEAN]
      BY <2>1 DEF WaitParameters
    <2>3. /\ started \in 0..ForApprovals.MaxTasks /\ ForApprovals.MaxTasks \in Nat /\ Len(ended) \in Nat
          /\ Len(ended) + 0 = started
      BY <2>1 DEF WaitInv, WaitParameters
    <2>4. started' \in 0..ForApprovals.MaxTasks /\ Len(ended) + (IF stage' = "idle" THEN 0 ELSE 1) = started'
      BY <2>1, <2>3
    <2> QED BY <2>1, <2>2, <2>4 DEF WaitInv
  <1>2. CASE Approvals!Elapses
    <2>1. /\ watched' = [watched EXCEPT !.long = TRUE]
          /\ UNCHANGED <<limits, started, stage, requested, safe, frames, open, mail, granting,
                         attempted, shown, ended>>
      BY <1>2 DEF Approvals!Elapses
    <2>2. watched' \in [id : 0..ForApprovals.MaxRequests, long : BOOLEAN]
      BY <2>1 DEF WaitInv
    <2> QED BY <2>1, <2>2 DEF WaitInv
  <1>3. CASE Approvals!TimesOut
    BY <1>3, WaitOver DEF Approvals!TimesOut
  <1> QED BY <1>1, <1>2, <1>3, WaitPump, WaitHost, WaitAgent, Zenon DEF Approvals!Next

\* Every step of a run, and one that leaves it alone, keeps the invariant.
LEMMA WaitMoves ==
    ASSUME WaitParameters, WaitInv, [Approvals!Next]_Approvals!vars
    PROVE  WaitInv'
  <1>1. CASE UNCHANGED Approvals!vars
    BY <1>1 DEF WaitInv, Approvals!vars
  <1> QED BY <1>1, WaitStep

\* In what the model is called with, every result that is named by its call stands behind
\* that call, and every call of this execution that is still there has its results behind
\* it, also after a compression and a summary, and there is no more guidance than was given; what the compressor kept fits the window or is one message; and no other tool
\* runs before manage_context (compression/moving_compression.py, agent/react_agent.py).
THEOREM ModelAlwaysSeesPairs ==
    ASSUME LoopParameters
    PROVE  Loop!Spec => [](Loop!TypeOK /\ Loop!ModelSeesPairs /\ Loop!ToolsAfterManage)
  <1>1. Loop!Init => ReactInv
    BY ReactStart
  <1>2. ReactInv /\ [Loop!Next]_Loop!vars => ReactInv'
    BY ReactMoves
  <1>3. ReactInv => Loop!TypeOK /\ Loop!ModelSeesPairs /\ Loop!ToolsAfterManage
    BY ReactTyped, ReactSees
  <1> QED BY <1>1, <1>2, <1>3, PTL DEF Loop!Spec
=============================================================================
