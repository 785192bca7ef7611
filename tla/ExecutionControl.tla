-------------------------- MODULE ExecutionControl --------------------------
(***************************************************************************)
(* DefaultExecutionControl: the one signal the loops poll, the checkpoints *)
(* and the tasks that wait for a human at one.  Everything but             *)
(* event.wait() runs without an await.  FileExecutionControl, the other     *)
(* implementation, writes its checkpoints to files and waits for nobody.   *)
(***************************************************************************)
EXTENDS Naturals, FiniteSets

CONSTANTS
    Workers,        \* tasks that pause, or wait for a human
    MaxCheckpoints  \* bound: checkpoints made

NoEvent == 0

VARIABLES
    inFile,         \* the control is a FileExecutionControl; fixed per behaviour
    signal,         \* _signal
    made,           \* number of checkpoints; they are named 1..made
    resumed,        \* checkpoints with Checkpoint.resumed
    pending,        \* _pending_approval
    events,         \* checkpoint -> the worker whose event is in _approval_events
    wait,           \* worker -> [at: checkpoint it waits at or 0, set: its event is set]
    crowded         \* a second wait began at a checkpoint where one was not over (history)

vars == <<inFile, signal, made, resumed, pending, events, wait, crowded>>

Signals == {"none", "pause", "cancel", "human"}
Checkpoints == 1..MaxCheckpoints
NoWorker == "none"
Free == [at |-> 0, set |-> FALSE]

TypeOK ==
    /\ inFile \in BOOLEAN /\ signal \in Signals /\ made \in 0..MaxCheckpoints
    /\ resumed \subseteq 1..made /\ pending \subseteq 1..made /\ crowded \in BOOLEAN
    /\ events \in [Checkpoints -> Workers \union {NoWorker}]
    /\ wait \in [Workers -> [at : 0..MaxCheckpoints, set : BOOLEAN]]

Init ==
    /\ inFile \in BOOLEAN /\ signal = "none" /\ made = 0 /\ resumed = {} /\ pending = {} /\ crowded = FALSE
    /\ events = [k \in Checkpoints |-> NoWorker]
    /\ wait = [w \in Workers |-> Free]

-----------------------------------------------------------------------------

Pause ==
    /\ ~inFile /\ made < MaxCheckpoints
    /\ signal' = "pause" /\ made' = made + 1
    /\ UNCHANGED <<inFile, resumed, pending, events, wait, crowded>>

Checkpoint ==
    /\ ~inFile /\ made < MaxCheckpoints
    /\ made' = made + 1
    /\ UNCHANGED <<inFile, signal, resumed, pending, events, wait, crowded>>

\* Mutant of Resume: the event is taken out before it is set.
ResumeUnset(k) ==
    /\ ~inFile /\ k <= made
    /\ resumed' = resumed \union {k} /\ signal' = "none"
    /\ IF events[k] = NoWorker THEN UNCHANGED <<pending, events>>
       ELSE pending' = pending \ {k} /\ events' = [events EXCEPT ![k] = NoWorker]
    /\ UNCHANGED <<inFile, made, wait, crowded>>

\* resume() of a checkpoint that exists: whatever the signal is, it is cleared.
Resume(k) ==
    /\ ~inFile /\ k <= made
    /\ resumed' = resumed \union {k} /\ signal' = "none"
    /\ IF events[k] = NoWorker THEN UNCHANGED <<pending, wait>>
       ELSE /\ pending' = pending \ {k}
            /\ wait' = [w \in Workers |-> IF w = events[k] /\ wait[w].at = k
                                          THEN [wait[w] EXCEPT !.set = TRUE] ELSE wait[w]]
    /\ UNCHANGED <<inFile, made, events, crowded>>

\* wait_for_human(): an event of its own, in the place of one that is there.
BeginWait(w, k) ==
    /\ ~inFile /\ wait[w].at = 0 /\ k <= made
    /\ signal' = "human" /\ pending' = pending \union {k}
    /\ crowded' = (crowded \/ \E v \in Workers : wait[v].at = k)
    /\ events' = [events EXCEPT ![k] = w]
    /\ wait' = [wait EXCEPT ![w] = [at |-> k, set |-> FALSE]]
    /\ UNCHANGED <<inFile, made, resumed>>

\* The wait ends and deletes the event at its checkpoint; if that is gone
\* already, with a KeyError.
EndWait(w) ==
    /\ wait[w].at # 0 /\ wait[w].set
    /\ events' = [events EXCEPT ![wait[w].at] = NoWorker]
    /\ wait' = [wait EXCEPT ![w] = Free]
    /\ UNCHANGED <<inFile, signal, made, resumed, pending, crowded>>

\* The waiting task is cancelled: what it has written down stays.
CancelWait(w) ==
    /\ wait[w].at # 0
    /\ wait' = [wait EXCEPT ![w] = Free]
    /\ UNCHANGED <<inFile, signal, made, resumed, pending, events, crowded>>

RequestCancel ==
    /\ ~inFile
    /\ signal' = "cancel"
    /\ UNCHANGED <<inFile, made, resumed, pending, events, wait, crowded>>

ClearSignal ==
    /\ ~inFile
    /\ signal' = "none"
    /\ UNCHANGED <<inFile, made, resumed, pending, events, wait, crowded>>

-----------------------------------------------------------------------------
(* FileExecutionControl; wait_for_human() returns at once.                   *)

\* pause() and checkpoint(): a checkpoint is written, the signal stays.
FilePause ==
    /\ inFile /\ made < MaxCheckpoints
    /\ made' = made + 1
    /\ UNCHANGED <<inFile, signal, resumed, pending, events, wait, crowded>>

\* request_pause, request_cancel, request_human_approval.
FileRequest ==
    /\ inFile
    /\ signal' \in Signals \ {"none"}
    /\ UNCHANGED <<inFile, made, resumed, pending, events, wait, crowded>>

\* resume(): whichever checkpoint it names, also one nobody made.
FileResume ==
    /\ inFile
    /\ signal' = "none"
    /\ UNCHANGED <<inFile, made, resumed, pending, events, wait, crowded>>

Next ==
    \/ Pause \/ Checkpoint \/ RequestCancel \/ ClearSignal
    \/ FilePause \/ FileRequest \/ FileResume
    \/ \E k \in Checkpoints : Resume(k) \/ \E w \in Workers : BeginWait(w, k)
    \/ \E w \in Workers : EndWait(w) \/ CancelWait(w)

Spec == Init /\ [][Next]_vars

-----------------------------------------------------------------------------

\* A task that waits for a human can be released: its checkpoint is pending and
\* holds its event, or the event is set, and a released one leaves nothing
\* pending - unless two tasks have waited at one checkpoint, where the later
\* one's event hides the earlier one's (wait_for_human, resume).
WaiterReachable ==
    ~crowded => \A w \in Workers : wait[w].at # 0 =>
        /\ events[wait[w].at] = w
        /\ wait[w].set <=> wait[w].at \notin pending
=============================================================================
