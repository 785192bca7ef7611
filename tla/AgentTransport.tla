---------------------------- MODULE AgentTransport ----------------------------
(***************************************************************************)
(* The way from a client to an agent and back: DirectClientChannel.ask,    *)
(* the DefaultAgentChannel with its bounded inbox and outbox and its pump, *)
(* the transport loop of BaseAgent, and the start/stop/interrupt calls of  *)
(* its host.                                                               *)
(*                                                                         *)
(* Everything runs on one asyncio event loop.  A step is what one task     *)
(* does between two of its awaits; Task.cancel() of a task that will only  *)
(* unwind is one step with the unwinding.                                  *)
(***************************************************************************)
EXTENDS Naturals, FiniteSets, Sequences

CONSTANTS
    Asks,       \* the requests clients make, one envelope each
    Kind,       \* what each of them carries
    Hosts,      \* tasks that call start() and stop() on the agent
    MaxInbox, MaxOutbox,
    MaxStarts,  \* bound on the starts that spawn a loop
    NoAsk

VARIABLES
    ask,        \* where each DirectClientChannel.ask() is
    answer,     \* what its future holds
    inbox, outbox,
    parked,     \* envelopes whose sender is blocked in outbox.put()
    chanUp,     \* DefaultAgentChannel._started
    pumps,      \* running pump tasks
    pumpTask,   \* _out_pump_task
    held,       \* the envelope each pump is handing to the receiver
    status,     \* BaseAgent._status
    started,    \* BaseAgent._started
    loop,       \* the transport loops
    loopTask,   \* _loop_task
    holds,      \* the request each loop is at
    inFlight,   \* _in_flight_task, named by its request
    exec,       \* _execute_polled_message of each request
    host,       \* where each stop() is
    joins,      \* the loop task it awaits
    crowded,    \* two hosts were at the agent at once (history)
    starts,     \* loops spawned so far
    sent        \* replies sent to each request (history)

client  == <<ask, answer>>
queues  == <<inbox, outbox, parked>>
channel == <<chanUp, pumps, pumpTask, held>>
agent   == <<status, started, loop, loopTask, holds, inFlight, exec, starts>>
hosts   == <<host, joins, crowded>>
vars    == <<client, queues, channel, agent, hosts, sent>>

\* "prompt": a user chat message; "not_a_prompt": a MESSAGE the channel lets
\* through and the loop refuses; "inline": whatever the channel answers itself
\* without waiting (bad payloads, other controls, an unsupported kind).
Kinds == {"prompt", "not_a_prompt", "action", "interrupt", "inline"}
Queued == {"prompt", "not_a_prompt"}

ASSUME AskAssumption == Kind \in [Asks -> Kinds] /\ NoAsk \notin Asks
ASSUME SizeAssumption ==
    MaxInbox \in Nat \ {0} /\ MaxOutbox \in Nat \ {0} /\ MaxStarts \in Nat

\* Loops and pumps are numbered by the start() that spawned them.
Starts == 1 .. MaxStarts
NoTask == 0

\* An envelope on its way back: the request it answers, how, and the start of
\* the channel under which it was sent.
Outcomes  == {"result", "error"}
Envelopes == [to : Asks, what : Outcomes]

Unanswered == {"acting", "replying", "waiting"}
AskPhases  == Unanswered \cup {"idle", "sending", "answered", "timedout"}
ExecPhases == {"none", "running", "replying", "done", "failed", "cancelled"}
LoopPhases == {"none", "polling", "executing", "erroring", "ended"}

Alive(a) == exec[a] \in {"running", "replying"}
LiveLoops == {k \in Starts : loop[k] \in {"polling", "executing", "erroring"}}

----------------------------------------------------------------------------
(* Sending to the client *)

\* Mutant of Room: a queue that counts itself full one envelope early.
RoomButOne == Len(outbox) + 1 < MaxOutbox

Room == Len(outbox) < MaxOutbox

Reply(a, outcome) == [to |-> a, what |-> outcome]

\* send() blocks its caller: the channel is up and the outbox is full.
Blocks == chanUp /\ ~Room

\* Mutant of SendTo: put_nowait() on a queue without a bound.
SendToUnbounded(a, outcome, waiters) ==
    /\ sent' = [sent EXCEPT ![a] = @ + 1]
    /\ outbox' = IF chanUp THEN Append(outbox, Reply(a, outcome)) ELSE outbox
    /\ parked' = waiters

\* DefaultAgentChannel.send: dropped while the channel is down, queued if
\* there is room, else parked with the others of "waiters".
SendTo(a, outcome, waiters) ==
    /\ sent' = [sent EXCEPT ![a] = @ + 1]
    /\ outbox' = IF chanUp /\ Room THEN Append(outbox, Reply(a, outcome)) ELSE outbox
    /\ parked' = IF Blocks THEN waiters \cup {Reply(a, outcome)} ELSE waiters

\* A parked sender finds room.  It looked at _started before it blocked.
Unpark(e) ==
    /\ e \in parked
    /\ Room
    /\ outbox' = Append(outbox, e)
    /\ parked' = parked \ {e}

\* What is parked once the sender of the reply to a is cancelled.
Unsent(a) == {e \in parked : e.to # a}

----------------------------------------------------------------------------
Init ==
    /\ ask = [a \in Asks |-> "idle"]
    /\ answer = [a \in Asks |-> "none"]
    /\ inbox = <<>>
    /\ outbox = <<>>
    /\ parked = {}
    /\ chanUp = FALSE
    /\ pumps = {}
    /\ pumpTask = NoTask
    /\ held = [k \in Starts |-> <<>>]
    /\ status = "INIT"
    /\ started = FALSE
    /\ loop = [k \in Starts |-> "none"]
    /\ loopTask = NoTask
    /\ holds = [k \in Starts |-> NoAsk]
    /\ inFlight = NoAsk
    /\ exec = [a \in Asks |-> "none"]
    /\ host = [h \in Hosts |-> "idle"]
    /\ joins = [h \in Hosts |-> NoTask]
    /\ crowded = FALSE
    /\ starts = 0
    /\ sent = [a \in Asks |-> 0]

----------------------------------------------------------------------------
(* The client: ask() awaits the sender, then its future *)

\* The sender puts a message into the inbox, at once or after having waited.
Enqueue(a) ==
    /\ ask[a] \in {"idle", "sending"}
    /\ Kind[a] \in Queued
    /\ Len(inbox) < MaxInbox
    /\ inbox' = Append(inbox, a)
    /\ ask' = [ask EXCEPT ![a] = "waiting"]
    /\ UNCHANGED <<answer, outbox, parked, channel, agent, hosts, sent>>

\* Backpressure: ask() waits in inbox.put(), its own timeout not yet running.
AwaitInbox(a) ==
    /\ ask[a] = "idle"
    /\ Kind[a] \in Queued
    /\ Len(inbox) >= MaxInbox
    /\ ask' = [ask EXCEPT ![a] = "sending"]
    /\ UNCHANGED <<answer, queues, channel, agent, hosts, sent>>

\* An action goes to its handler, which may await anything.
Dispatch(a) ==
    /\ ask[a] = "idle"
    /\ Kind[a] = "action"
    /\ ask' = [ask EXCEPT ![a] = "acting"]
    /\ UNCHANGED <<answer, queues, channel, agent, hosts, sent>>

\* The sender of a replies and, unless it blocks, ask() awaits its future.
SenderReplies(a, outcome, waiters) ==
    /\ SendTo(a, outcome, waiters)
    /\ ask' = [ask EXCEPT ![a] = IF Blocks THEN "replying" ELSE "waiting"]
    /\ UNCHANGED <<answer, inbox, channel, hosts>>

\* The handler returned, raised, or outran action_timeout_seconds: one reply.
ActionEnds(a) ==
    /\ ask[a] = "acting"
    /\ \E outcome \in Outcomes : SenderReplies(a, outcome, parked)
    /\ UNCHANGED agent

\* What needs no handler that waits: an action that is malformed, unknown or
\* actions:list, and every "inline" request.
AnswerInline(a) ==
    /\ ask[a] = "idle"
    /\ Kind[a] \in {"action", "inline"}
    /\ \E outcome \in Outcomes : SenderReplies(a, outcome, parked)
    /\ UNCHANGED agent

\* AgentControlHandler calls BaseAgent.interrupt(), which cancels the task in
\* flight if there is one, and reports success either way.
Interrupt(a) ==
    /\ ask[a] = "idle"
    /\ Kind[a] = "interrupt"
    /\ IF inFlight # NoAsk /\ Alive(inFlight)
       THEN /\ exec' = [exec EXCEPT ![inFlight] = "cancelled"]
            /\ SenderReplies(a, "result", Unsent(inFlight))
       ELSE /\ exec' = exec
            /\ SenderReplies(a, "result", parked)
    /\ UNCHANGED <<status, started, loop, loopTask, holds, inFlight, starts>>

SenderUnblocks(a) ==
    /\ ask[a] = "replying"
    /\ \E e \in parked : e.to = a /\ Unpark(e)
    /\ ask' = [ask EXCEPT ![a] = "waiting"]
    /\ UNCHANGED <<answer, inbox, channel, agent, hosts, sent>>

Return(a) ==
    /\ ask[a] = "waiting"
    /\ answer[a] # "none"
    /\ ask' = [ask EXCEPT ![a] = "answered"]
    /\ UNCHANGED <<answer, queues, channel, agent, hosts, sent>>

\* wait_for() may expire in the very iteration in which its future is set.
TimeOut(a) ==
    /\ ask[a] = "waiting"
    /\ ask' = [ask EXCEPT ![a] = "timedout"]
    /\ UNCHANGED <<answer, queues, channel, agent, hosts, sent>>

----------------------------------------------------------------------------
(* The pump *)

PumpTakes(k) ==
    /\ k \in pumps
    /\ held[k] = <<>>
    /\ outbox # <<>>
    /\ held' = [held EXCEPT ![k] = <<Head(outbox)>>]
    /\ outbox' = Tail(outbox)
    /\ UNCHANGED <<client, inbox, parked, chanUp, pumps, pumpTask, agent, hosts, sent>>

\* Mutant of Deliver: replies are matched to requests by their order.
DeliverInOrder(k) ==
    /\ k \in pumps
    /\ held[k] # <<>>
    /\ \E a \in Asks :
        /\ ask[a] \in Unanswered /\ answer[a] = "none"
        /\ answer' = [answer EXCEPT ![a] = held[k][1].what]
    /\ held' = [held EXCEPT ![k] = <<>>]
    /\ UNCHANGED <<ask, queues, chanUp, pumps, pumpTask, agent, hosts, sent>>

\* The receiver of DirectClientChannel: sets the future of the request if it is
\* still registered and unset, else queues the envelope as an unsolicited event.
Deliver(k) ==
    /\ k \in pumps
    /\ held[k] # <<>>
    /\ LET e == held[k][1] IN
       answer' = IF ask[e.to] \in Unanswered /\ answer[e.to] = "none"
                 THEN [answer EXCEPT ![e.to] = e.what]
                 ELSE answer
    /\ held' = [held EXCEPT ![k] = <<>>]
    /\ UNCHANGED <<ask, queues, chanUp, pumps, pumpTask, agent, hosts, sent>>

\* A receiver that raises loses the envelope; the pump logs and goes on.
ReceiverFails(k) ==
    /\ k \in pumps
    /\ held[k] # <<>>
    /\ held' = [held EXCEPT ![k] = <<>>]
    /\ UNCHANGED <<client, queues, chanUp, pumps, pumpTask, agent, hosts, sent>>

----------------------------------------------------------------------------
(* The transport loop *)

\* Mutant of GoesRound: a loop that serves one message.
GoesRoundOnce(k) ==
    /\ loop' = [loop EXCEPT ![k] = "ended"]
    /\ loopTask' = NoTask

\* The head of "while self._status == RUNNING"; leaving it clears _loop_task,
\* whichever task that names.
GoesRound(k) ==
    IF status = "RUNNING"
    THEN /\ loop' = [loop EXCEPT ![k] = "polling"]
         /\ loopTask' = loopTask
    ELSE /\ loop' = [loop EXCEPT ![k] = "ended"]
         /\ loopTask' = NoTask

Busy == inFlight # NoAsk /\ Alive(inFlight)

\* A message polled by a loop whose agent is no longer RUNNING is lost.
Discard(k) ==
    /\ loop[k] = "polling"
    /\ inbox # <<>>
    /\ status # "RUNNING"
    /\ inbox' = Tail(inbox)
    /\ GoesRound(k)
    /\ UNCHANGED <<client, outbox, parked, channel, status, started, holds, inFlight,
                   exec, starts, hosts, sent>>

\* INVALID_MESSAGE_PAYLOAD or AGENT_BUSY.
Refuse(k) ==
    /\ loop[k] = "polling"
    /\ inbox # <<>>
    /\ status = "RUNNING"
    /\ LET a == Head(inbox) IN
       /\ Kind[a] = "not_a_prompt" \/ Busy
       /\ SendTo(a, "error", parked)
       /\ holds' = [holds EXCEPT ![k] = a]
    /\ inbox' = Tail(inbox)
    /\ loop' = [loop EXCEPT ![k] = IF Blocks THEN "erroring" ELSE "polling"]
    /\ UNCHANGED <<client, channel, status, started, loopTask, inFlight, exec,
                   starts, hosts>>

Execute(k) ==
    /\ loop[k] = "polling"
    /\ inbox # <<>>
    /\ status = "RUNNING"
    /\ LET a == Head(inbox) IN
       /\ Kind[a] = "prompt"
       /\ ~Busy
       /\ exec' = [exec EXCEPT ![a] = "running"]
       /\ holds' = [holds EXCEPT ![k] = a]
       /\ inFlight' = a
    /\ inbox' = Tail(inbox)
    /\ loop' = [loop EXCEPT ![k] = "executing"]
    /\ UNCHANGED <<client, outbox, parked, channel, status, started, loopTask, starts,
                   hosts, sent>>

\* execute() returned a RunResult, good or bad, and it is being sent.
Finish(a) ==
    /\ exec[a] = "running"
    /\ exec' = [exec EXCEPT ![a] = IF Blocks THEN "replying" ELSE "done"]
    /\ SendTo(a, "result", parked)
    /\ UNCHANGED <<client, inbox, channel, status, started, loop, loopTask, holds,
                   inFlight, starts, hosts>>

ResultUnblocks(a) ==
    /\ exec[a] = "replying"
    /\ \E e \in parked : e.to = a /\ Unpark(e)
    /\ exec' = [exec EXCEPT ![a] = "done"]
    /\ UNCHANGED <<client, inbox, channel, status, started, loop, loopTask, holds,
                   inFlight, starts, hosts, sent>>

\* execute() raised.
Fail(a) ==
    /\ exec[a] = "running"
    /\ exec' = [exec EXCEPT ![a] = "failed"]
    /\ UNCHANGED <<client, queues, channel, status, started, loop, loopTask, holds,
                   inFlight, starts, hosts, sent>>

\* Mutant of Resume: the cancelled execution is reported like a failed one.
ResumeReports(k) ==
    /\ loop[k] = "executing"
    /\ exec[holds[k]] \in {"done", "cancelled"}
    /\ IF exec[holds[k]] = "cancelled"
       THEN SendTo(holds[k], "error", parked)
       ELSE UNCHANGED <<outbox, parked, sent>>
    /\ inFlight' = NoAsk
    /\ GoesRound(k)
    /\ UNCHANGED <<client, inbox, channel, status, started, holds, exec, starts, hosts>>

\* Mutant of Resume: the loop does not await the execution it created.
ResumeAtOnce(k) ==
    /\ loop[k] = "executing"
    /\ exec[holds[k]] \in {"running", "done", "cancelled"}
    /\ inFlight' = NoAsk
    /\ GoesRound(k)
    /\ UNCHANGED <<client, queues, channel, status, started, holds, exec, starts,
                   hosts, sent>>

\* The awaited execution is over, or was cancelled by an interrupt or a stop:
\* nothing more is said to the client.
Resume(k) ==
    /\ loop[k] = "executing"
    /\ exec[holds[k]] \in {"done", "cancelled"}
    /\ inFlight' = NoAsk
    /\ GoesRound(k)
    /\ UNCHANGED <<client, queues, channel, status, started, holds, exec, starts,
                   hosts, sent>>

\* AGENT_EXECUTION_FAILED.
ReportFailure(k) ==
    /\ loop[k] = "executing"
    /\ exec[holds[k]] = "failed"
    /\ SendTo(holds[k], "error", parked)
    /\ IF Blocks
       THEN /\ loop' = [loop EXCEPT ![k] = "erroring"]
            /\ UNCHANGED <<loopTask, inFlight>>
       ELSE inFlight' = NoAsk /\ GoesRound(k)
    /\ UNCHANGED <<client, inbox, channel, status, started, holds, exec, starts, hosts>>

ErrorUnblocks(k) ==
    /\ loop[k] = "erroring"
    /\ \E e \in parked : e.to = holds[k] /\ Unpark(e)
    /\ inFlight' = IF exec[holds[k]] = "failed" THEN NoAsk ELSE inFlight
    /\ GoesRound(k)
    /\ UNCHANGED <<client, inbox, channel, status, started, holds, exec, starts, hosts, sent>>

----------------------------------------------------------------------------
(* The host *)

\* A host calls start() or stop(), perhaps while another still awaits its stop().
Calls(h) ==
    /\ host[h] = "idle"
    /\ crowded' = (crowded \/ \E g \in Hosts : host[g] # "idle")

\* start() awaits nothing that suspends: it is one step.  It is a no-op on an
\* agent that has started, except that it sets the status.
StartAgain(h) ==
    /\ Calls(h)
    /\ started
    /\ status' = "RUNNING"
    /\ UNCHANGED <<client, queues, channel, started, loop, loopTask, holds, inFlight,
                   exec, starts, host, joins, sent>>

\* Mutant of Start: every start() spawns a loop.
StartTwice(h) ==
    /\ Calls(h)
    /\ starts < MaxStarts
    /\ starts' = starts + 1
    /\ IF chanUp
       THEN UNCHANGED <<chanUp, pumps, pumpTask>>
       ELSE /\ chanUp' = TRUE
            /\ pumps' = pumps \cup {starts'}
            /\ pumpTask' = starts'
    /\ loop' = [loop EXCEPT ![starts'] = "polling"]
    /\ loopTask' = starts'
    /\ started' = TRUE
    /\ status' = "RUNNING"
    /\ UNCHANGED <<client, queues, held, holds, inFlight, exec, host, joins, sent>>

Start(h) ==
    /\ Calls(h)
    /\ ~started
    /\ starts < MaxStarts
    /\ starts' = starts + 1
    /\ IF chanUp
       THEN UNCHANGED <<chanUp, pumps, pumpTask>>
       ELSE /\ chanUp' = TRUE
            /\ pumps' = pumps \cup {starts'}
            /\ pumpTask' = starts'
    /\ loop' = [loop EXCEPT ![starts'] = "polling"]
    /\ loopTask' = starts'
    /\ started' = TRUE
    /\ status' = "RUNNING"
    /\ UNCHANGED <<client, queues, held, holds, inFlight, exec, host, joins, sent>>

\* Cancelling the execution in flight, then the loop.  A loop that awaits its
\* execution takes its cancellation for that of the execution, and swallows
\* it together with a failure not yet reported.
CancelWork ==
    LET k == loopTask
        a == IF k # NoTask THEN holds[k] ELSE NoAsk
        executing == k # NoTask /\ loop[k] = "executing"
        erroring  == k # NoTask /\ loop[k] = "erroring"
        victims == {b \in Asks : \/ b = inFlight /\ Alive(b)
                                 \/ executing /\ b = a /\ (Alive(b) \/ exec[b] = "failed")}
    IN  /\ exec' = [b \in Asks |-> IF b \in victims THEN "cancelled" ELSE exec[b]]
        /\ parked' = {e \in parked : e.to \notin victims /\ ~(erroring /\ e.to = a)}
        /\ loop' = [j \in Starts |-> IF j = k /\ ~executing THEN "ended" ELSE loop[j]]
        /\ inFlight' = NoAsk
        /\ loopTask' = NoTask

\* Mutant of Closed: channel.stop() forgets to reset _started.
ClosedStillUp(h) ==
    /\ pumpTask' = NoTask
    /\ chanUp' = chanUp
    /\ outbox' = <<>>
    /\ started' = FALSE
    /\ status' = "STOPPED"
    /\ host' = [host EXCEPT ![h] = "idle"]

\* Mutant of Closed: channel.stop() waits until the outbox has been emptied, which
\* the pump it has cancelled will not do.
ClosedWhenEmpty(h) ==
    IF outbox = <<>>
    THEN /\ pumpTask' = NoTask
         /\ chanUp' = FALSE
         /\ outbox' = <<>>
         /\ started' = FALSE
         /\ status' = "STOPPED"
         /\ host' = [host EXCEPT ![h] = "idle"]
    ELSE UNCHANGED <<pumpTask, chanUp, outbox, started, status, host>>

\* The end of channel.stop() and of stop() itself, in one step.
Closed(h) ==
    /\ pumpTask' = NoTask
    /\ chanUp' = FALSE
    /\ outbox' = <<>>
    /\ started' = FALSE
    /\ status' = "STOPPED"
    /\ host' = [host EXCEPT ![h] = "idle"]

\* channel.stop(): cancel the pump, with the envelope it holds, and await it;
\* with no pump there is nothing to await.
StopPump(h, meanwhile) ==
    IF pumpTask \in pumps
    THEN /\ pumps' = pumps \ {pumpTask}
         /\ held' = [held EXCEPT ![pumpTask] = <<>>]
         /\ host' = [host EXCEPT ![h] = "draining"]
         /\ status' = meanwhile
         /\ UNCHANGED <<pumpTask, chanUp, outbox, started>>
    ELSE /\ Closed(h)
         /\ UNCHANGED <<pumps, held>>

Stop(h) ==
    /\ Calls(h)
    /\ CancelWork
    /\ IF loopTask # NoTask
       THEN /\ status' = "STOPPING"
            /\ host' = [host EXCEPT ![h] = "joining"]
            /\ joins' = [joins EXCEPT ![h] = loopTask]
            /\ UNCHANGED <<channel, outbox, started>>
       ELSE /\ StopPump(h, "STOPPING")
            /\ UNCHANGED joins
    /\ UNCHANGED <<client, inbox, holds, starts, sent>>

\* "await loop_task" returned.
StopChannel(h) ==
    /\ host[h] = "joining"
    /\ loop[joins[h]] = "ended"
    /\ StopPump(h, status)
    /\ UNCHANGED <<client, inbox, parked, loop, loopTask, holds, inFlight, exec, starts,
                   joins, crowded, sent>>

StopEnds(h) ==
    /\ host[h] = "draining"
    /\ Closed(h)
    /\ UNCHANGED <<client, inbox, parked, pumps, held, loop, loopTask, holds, inFlight,
                   exec, starts, joins, crowded, sent>>

----------------------------------------------------------------------------
Send(a) ==
    \/ Enqueue(a) \/ AwaitInbox(a) \/ Dispatch(a) \/ ActionEnds(a)
    \/ AnswerInline(a) \/ Interrupt(a) \/ SenderUnblocks(a)

Await(a)  == Return(a) \/ TimeOut(a)
Work(a)   == Finish(a) \/ ResultUnblocks(a) \/ Fail(a)
Pump(k)   == PumpTakes(k) \/ Deliver(k) \/ ReceiverFails(k)
Loop(k)   == Discard(k) \/ Refuse(k) \/ Execute(k) \/ Resume(k) \/ ReportFailure(k)
                 \/ ErrorUnblocks(k)
Stopping(h) == StopChannel(h) \/ StopEnds(h)
Command(h)  == StartAgain(h) \/ Start(h) \/ Stop(h)

Next ==
    \/ \E a \in Asks : Send(a) \/ Await(a) \/ Work(a)
    \/ \E k \in Starts : Pump(k) \/ Loop(k)
    \/ \E h \in Hosts : Command(h) \/ Stopping(h)

Spec == Init /\ [][Next]_vars

\* The event loop runs every task that can run; execute() and action handlers
\* return in the end; timers fire.  Hosts and clients owe nothing.
Fairness ==
    /\ \A a \in Asks : /\ WF_vars(Work(a)) /\ WF_vars(Await(a)) /\ WF_vars(ActionEnds(a))
                       /\ WF_vars(SenderUnblocks(a))
                       /\ WF_vars(ask[a] = "sending" /\ Enqueue(a))
    /\ \A k \in Starts : WF_vars(Pump(k)) /\ WF_vars(Loop(k))
    /\ \A h \in Hosts : WF_vars(Stopping(h))

LiveSpec == Spec /\ Fairness

----------------------------------------------------------------------------
(* Properties *)

TypeOK ==
    /\ ask \in [Asks -> AskPhases]
    /\ answer \in [Asks -> Outcomes \cup {"none"}]
    /\ inbox \in Seq(Asks) /\ Len(inbox) <= MaxInbox
    /\ outbox \in Seq(Envelopes) /\ Len(outbox) <= MaxOutbox
    /\ parked \subseteq Envelopes
    /\ chanUp \in BOOLEAN
    /\ pumps \subseteq Starts
    /\ pumpTask \in Starts \cup {NoTask}
    /\ held \in [Starts -> {<<>>} \cup {<<e>> : e \in Envelopes}]
    /\ status \in {"INIT", "RUNNING", "STOPPING", "STOPPED"}
    /\ started \in BOOLEAN
    /\ loop \in [Starts -> LoopPhases]
    /\ loopTask \in Starts \cup {NoTask}
    /\ holds \in [Starts -> Asks \cup {NoAsk}]
    /\ inFlight \in Asks \cup {NoAsk}
    /\ exec \in [Asks -> ExecPhases]
    /\ host \in [Hosts -> {"idle", "joining", "draining"}]
    /\ joins \in [Hosts -> Starts \cup {NoTask}]
    /\ crowded \in BOOLEAN
    /\ starts \in 0 .. MaxStarts
    /\ sent \in [Asks -> Nat]

\* However refusals, failures, interrupts, stops and blocked sends meet, the
\* loop, the execution and the channel between them send a request one reply.
ReplyOnce == \A a \in Asks : sent[a] <= 1

\* What ask() returns is what became of its prompt: a result says it was
\* executed, an error that it never ran or that it raised; one that was
\* interrupted or stopped gets neither.
HonestAnswers ==
    \A a \in Asks : Kind[a] = "prompt" =>
        /\ answer[a] = "result" => exec[a] = "done"
        /\ answer[a] = "error" => exec[a] \in {"none", "failed"}

\* interrupt() reaches the execution that is running: _in_flight_task names it
\* for as long as it can still be cancelled.
InterruptReaches == \A a \in Asks : Alive(a) => inFlight = a

\* One execution at a time, though the loop is left and entered again by every
\* stop and start.
OneExecution == \A a, b \in Asks : Alive(a) /\ Alive(b) => a = b

\* Between two calls of its host the status of the agent is the truth: a
\* RUNNING agent has one loop and one pump, those it can cancel, over an open
\* channel; a STOPPED one has nothing left that runs.
StatusIsTrue ==
    (\A h \in Hosts : host[h] = "idle") =>
        /\ status = "RUNNING" =>
             /\ started /\ chanUp
             /\ LiveLoops = {loopTask} /\ pumps = {pumpTask}
        /\ status \in {"INIT", "STOPPED"} =>
             /\ ~started /\ ~chanUp
             /\ LiveLoops = {} /\ pumps = {}
             /\ \A a \in Asks : ~Alive(a)

\* Hosts that take turns are in control: one execution at a time, which
\* interrupt() reaches, and between two calls the status is the truth.  A host
\* that calls while another is in its stop() can lose all of it.
HostsInControl == ~crowded => OneExecution /\ InterruptReaches /\ StatusIsTrue

\* A message in the inbox of a running agent is replied to, unless the host
\* interrupts it or stops the agent.
InboxServed ==
    \A a \in Asks :
        (\E i \in 1 .. Len(inbox) : inbox[i] = a) ~>
            (sent[a] > 0 \/ exec[a] = "cancelled" \/ status # "RUNNING")

\* A client blocked by a full queue gets through while the agent runs.
BackpressureLifts ==
    \A a \in Asks :
        ask[a] \in {"sending", "replying"} ~>
            (ask[a] \notin {"sending", "replying"} \/ status # "RUNNING")

\* stop() returns, whatever the loop is doing when it is cancelled.
StopReturns == \A h \in Hosts : host[h] # "idle" ~> host[h] = "idle"
=============================================================================
