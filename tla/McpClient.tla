------------------------------ MODULE McpClient ------------------------------
(***************************************************************************)
(* One MCPClient over its transport: the handshake, the requests of the    *)
(* tasks that share the client, the correlation of answers by id, and the  *)
(* two transports, a subprocess with pipes (StdioTransport) and HTTP posts *)
(* with JSON or streamed replies (HTTPTransport).                          *)
(*                                                                         *)
(* The server is the environment: it answers in any order, late or never,  *)
(* sends notifications, and dies.                                          *)
(***************************************************************************)
EXTENDS Naturals, Sequences

CONSTANTS
    Tasks,          \* tasks that use the client
    Kinds,          \* which of "stdio", "http" the factory may choose
    MaxRequests,    \* bound: requests sent
    MaxNotices      \* bound: notifications of the server

VARIABLES
    kind,       \* MCPServerConfig.transport
    wire,       \* [open: _connected, ready: MCPClient._initialized, process]
    lastId,     \* MCPClient._request_id
    serial,     \* requests sent so far (history): names them apart
    rpc,        \* task -> what it is doing on the client
    asked,      \* requests the server has not answered
    notices,    \* notifications sent so far
    pipe,       \* stdout of the process: pieces of lines
    buffer,     \* StdioTransport._read_buffer
    inbox,      \* HTTPTransport._notification_queue
    stream,     \* HTTPTransport._current_stream, <<>> for None
    mixed       \* two requests have been under way at once, or a session was cut (history)

vars == <<kind, wire, lastId, serial, rpc, asked, notices, pipe, buffer, inbox, stream, mixed>>

Notice == [id |-> 0, serial |-> 0]
Messages == [id : 0..MaxRequests, serial : 0..MaxRequests]
\* A line arrives whole or in two reads.  Of a torn piece a read has taken the
\* beginning and stopped inside a character.
Pieces == [msg : Messages, end : BOOLEAN, torn : BOOLEAN]
Line(m) == <<[msg |-> m, end |-> FALSE, torn |-> FALSE], [msg |-> m, end |-> TRUE, torn |-> FALSE]>>

Phases == {"idle", "opening", "posting", "receive", "parked", "closing"}
Outcomes == {"none", "answer", "failed", "timeout"}
Idle == [phase |-> "idle", for |-> "call", id |-> 0, serial |-> 0,
         outcome |-> "none", got |-> 0]

TypeOK ==
    /\ kind \in {"stdio", "http"}
    /\ wire \in [open : BOOLEAN, ready : BOOLEAN, process : {"none", "up", "down"}]
    /\ lastId \in 0..MaxRequests /\ serial \in 0..MaxRequests
    /\ rpc \in [Tasks -> [phase : Phases, for : {"call", "initialize"},
                          id : 0..MaxRequests, serial : 0..MaxRequests,
                          outcome : Outcomes, got : 0..MaxRequests]]
    /\ asked \subseteq Messages /\ notices \in 0..MaxNotices /\ mixed \in BOOLEAN
    /\ pipe \in Seq(Pieces) /\ buffer \in Seq(Pieces)
    /\ inbox \in Seq(Messages) /\ stream \in Seq(Messages)

Init ==
    /\ kind \in Kinds
    /\ wire = [open |-> FALSE, ready |-> FALSE, process |-> "none"]
    /\ lastId = 0 /\ serial = 0 /\ notices = 0
    /\ rpc = [t \in Tasks |-> Idle]
    /\ asked = {} /\ mixed = FALSE
    /\ pipe = <<>> /\ buffer = <<>> /\ inbox = <<>> /\ stream = <<>>

-----------------------------------------------------------------------------
(* Requests.                                                                 *)

UnderWay(t) == rpc[t].phase \in {"posting", "receive", "parked"}
Finish(t, how, got) ==
    rpc' = [rpc EXCEPT ![t] = [Idle EXCEPT !.for = rpc[t].for, !.serial = rpc[t].serial,
                                           !.outcome = how, !.got = got]]

\* An exception out of _request: connect() closes the transport on its way out.
Fail(t, how) ==
    IF rpc[t].for = "initialize" /\ wire.open
    THEN /\ rpc' = [rpc EXCEPT ![t].phase = "closing", ![t].outcome = how]
         /\ wire' = [wire EXCEPT !.open = FALSE]
    ELSE Finish(t, how, 0) /\ UNCHANGED wire

\* _request() up to the await of the first receive(): the next id, the message
\* on its way.  The transport may already be without a process.
Ask(t, for) ==
    /\ serial < MaxRequests /\ lastId < MaxRequests
    /\ lastId' = lastId + 1 /\ serial' = serial + 1
    /\ mixed' = (mixed \/ \E u \in Tasks \ {t} : UnderWay(u))
    /\ rpc' = [rpc EXCEPT ![t] = [Idle EXCEPT !.for = for, !.id = lastId', !.serial = serial',
                                    !.phase = IF kind = "stdio" THEN "receive" ELSE "posting"]]
    /\ asked' = asked \union {[id |-> lastId', serial |-> serial']}

\* HTTPTransport.connect: nothing goes out yet.
OpenAtOnce == kind = "http" /\ wire' = [wire EXCEPT !.open = TRUE]

Reachable == wire.open /\ (kind = "stdio" => wire.process = "up")

\* Mutant of Connect: a new session counts from one.
ConnectResetsIds(t) ==
    /\ rpc[t].phase = "idle"
    /\ \/ /\ kind = "stdio" /\ ~wire.open
          /\ rpc' = [rpc EXCEPT ![t] = [Idle EXCEPT !.phase = "opening", !.for = "initialize"]]
          /\ UNCHANGED <<wire, lastId, serial, asked, mixed>>
       \/ /\ kind = "http" \/ Reachable
          /\ serial < MaxRequests
          /\ wire' = [wire EXCEPT !.open = TRUE]
          /\ lastId' = 1 /\ serial' = serial + 1
          /\ mixed' = (mixed \/ \E u \in Tasks \ {t} : UnderWay(u))
          /\ rpc' = [rpc EXCEPT ![t] = [Idle EXCEPT !.for = "initialize", !.id = 1,
                        !.serial = serial', !.phase = IF kind = "stdio" THEN "receive" ELSE "posting"]]
          /\ asked' = asked \union {[id |-> 1, serial |-> serial']}
    /\ UNCHANGED <<kind, notices, pipe, buffer, inbox, stream>>

\* connect(): a transport that is open is used as it is.
Connect(t) ==
    /\ rpc[t].phase = "idle"
    /\ \/ /\ kind = "stdio" /\ ~wire.open
          /\ rpc' = [rpc EXCEPT ![t] = [Idle EXCEPT !.phase = "opening", !.for = "initialize"]]
          /\ UNCHANGED <<wire, lastId, serial, asked, mixed>>
       \/ /\ OpenAtOnce \/ (kind = "stdio" /\ Reachable /\ UNCHANGED wire)
          /\ Ask(t, "initialize")
    /\ UNCHANGED <<kind, notices, pipe, buffer, inbox, stream>>

\* A transport whose process has died still counts as open: the request fails,
\* and with it the transport is closed.
ConnectFails(t) ==
    /\ rpc[t].phase = "idle" /\ wire.open /\ ~Reachable /\ lastId < MaxRequests
    /\ lastId' = lastId + 1
    /\ wire' = [wire EXCEPT !.open = FALSE]
    /\ rpc' = [rpc EXCEPT ![t] = [Idle EXCEPT !.phase = "closing", !.for = "initialize",
                                             !.outcome = "failed"]]
    /\ UNCHANGED <<kind, serial, asked, notices, pipe, buffer, inbox, stream, mixed>>

\* The process runs, and gets the first request; what is left in the buffer of
\* the one before stays there.
Started(t) ==
    /\ rpc[t].phase = "opening"
    /\ wire' = [wire EXCEPT !.open = TRUE, !.process = "up"]
    /\ pipe' = <<>>
    /\ Ask(t, "initialize")
    /\ UNCHANGED <<kind, notices, buffer, inbox, stream>>

\* No process, or the task is cancelled waiting for it.
StartFails(t) ==
    /\ rpc[t].phase = "opening"
    /\ Finish(t, "failed", 0)
    /\ UNCHANGED <<kind, wire, lastId, serial, asked, notices, pipe, buffer, inbox, stream, mixed>>

\* call_tool, list_tools, list_resources, read_resource, list_prompts.
Call(t) ==
    /\ rpc[t].phase = "idle" /\ wire.ready /\ Reachable
    /\ Ask(t, "call")
    /\ UNCHANGED <<kind, wire, notices, pipe, buffer, inbox, stream>>

\* send() finds no process any more.
CallFails(t) ==
    /\ rpc[t].phase = "idle" /\ wire.ready /\ ~Reachable /\ lastId < MaxRequests
    /\ lastId' = lastId + 1
    /\ Finish(t, "failed", 0)
    /\ UNCHANGED <<kind, wire, serial, asked, notices, pipe, buffer, inbox, stream, mixed>>

\* What _request does with a message: its own answer ends it (and completes
\* the handshake), a notification or another answer is dropped.
Consider(t, m) ==
    IF m.id = rpc[t].id
    THEN /\ Finish(t, "answer", m.serial)
         /\ wire' = [wire EXCEPT !.ready = @ \/ rpc[t].for = "initialize"]
    ELSE /\ rpc' = [rpc EXCEPT ![t].phase = "receive"]
         /\ UNCHANGED wire

-----------------------------------------------------------------------------
(* Over pipes.                                                               *)

\* The first end of a line in the buffer, 0 for none.
LineEnd ==
    IF \E i \in DOMAIN buffer : buffer[i].end
    THEN CHOOSE i \in DOMAIN buffer : buffer[i].end /\ \A j \in 1..i - 1 : ~buffer[j].end
    ELSE 0

\* A line in the buffer is parsed; one whose head is left over from another
\* message is no JSON, and fails the call that reads it.
ReadLine(t) ==
    /\ kind = "stdio" /\ rpc[t].phase = "receive" /\ wire.open /\ LineEnd # 0
    /\ buffer' = SubSeq(buffer, LineEnd + 1, Len(buffer))
    /\ LET whole == LineEnd = 2 /\ buffer[1].msg = buffer[2].msg
       IN  IF whole THEN Consider(t, buffer[1].msg) ELSE Fail(t, "failed")
    /\ UNCHANGED <<kind, lastId, serial, asked, notices, pipe, inbox, stream, mixed>>

\* stdout.read(): some of what there is, or it parks; a second reader may not park.
ReadChunk(t) ==
    /\ kind = "stdio" /\ rpc[t].phase \in {"receive", "parked"} /\ wire.open
    /\ rpc[t].phase = "receive" => LineEnd = 0
    /\ wire.process = "up" /\ pipe # <<>> /\ ~pipe[1].torn
    /\ \E n \in 1..Len(pipe) :
          /\ buffer' = buffer \o SubSeq(pipe, 1, n)
          /\ pipe' = SubSeq(pipe, n + 1, Len(pipe))
    /\ rpc' = [rpc EXCEPT ![t].phase = "receive"]
    /\ UNCHANGED <<kind, wire, lastId, serial, asked, notices, inbox, stream, mixed>>

\* A chunk that begins or ends inside a character does not decode: it is lost,
\* and the request that read it fails.
LoseChunk(t) ==
    /\ kind = "stdio" /\ rpc[t].phase \in {"receive", "parked"} /\ wire.open
    /\ rpc[t].phase = "receive" => LineEnd = 0
    /\ wire.process = "up"
    /\ \E n \in 1..Len(pipe), cut \in BOOLEAN :
          /\ cut \/ pipe[1].torn
          /\ pipe' = (IF cut THEN <<[msg |-> pipe[n].msg, end |-> pipe[n].end, torn |-> TRUE]>>
                             ELSE <<>>)
                         \o SubSeq(pipe, n + 1, Len(pipe))
    /\ Fail(t, "failed")
    /\ UNCHANGED <<kind, lastId, serial, asked, notices, buffer, inbox, stream, mixed>>

Park(t) ==
    /\ kind = "stdio" /\ rpc[t].phase = "receive" /\ wire.open /\ LineEnd = 0
    /\ wire.process = "up" /\ pipe = <<>>
    /\ IF \E u \in Tasks : rpc[u].phase = "parked"
       THEN Fail(t, "failed")
       ELSE rpc' = [rpc EXCEPT ![t].phase = "parked"] /\ UNCHANGED wire
    /\ UNCHANGED <<kind, lastId, serial, asked, notices, pipe, buffer, inbox, stream, mixed>>

\* The process is gone, or the transport is closed under the reader.
ReadFails(t) ==
    /\ rpc[t].phase \in {"receive", "parked"}
    /\ \/ ~wire.open
       \/ kind = "stdio" /\ wire.process # "up" /\ LineEnd = 0
    /\ Fail(t, "failed")
    /\ UNCHANGED <<kind, lastId, serial, asked, notices, pipe, buffer, inbox, stream, mixed>>

-----------------------------------------------------------------------------
(* Over HTTP.                                                                *)

\* The server's reply to a post: one JSON message, or a stream that is read in
\* whole and replaces the one before, or nothing.
PostReturns(t) ==
    /\ kind = "http" /\ rpc[t].phase = "posting"
    /\ LET own == {m \in asked : m.serial = rpc[t].serial}
       IN  \/ \E m \in own : inbox' = Append(inbox, m) /\ asked' = asked \ own
                             /\ UNCHANGED <<stream, notices>>
           \/ \E m \in own, n \in {k \in 0..1 : notices + k <= MaxNotices} :
                 /\ stream' = [i \in 1..n |-> Notice] \o <<m>> /\ asked' = asked \ own
                 /\ notices' = notices + n
                 /\ UNCHANGED inbox
           \/ UNCHANGED <<inbox, stream, asked, notices>>
    /\ IF wire.open THEN rpc' = [rpc EXCEPT ![t].phase = "receive"] /\ UNCHANGED wire
                    ELSE Fail(t, "failed")
    /\ UNCHANGED <<kind, lastId, serial, pipe, buffer, mixed>>

PostFails(t) ==
    /\ kind = "http" /\ rpc[t].phase = "posting"
    /\ Fail(t, "failed")
    /\ UNCHANGED <<kind, lastId, serial, asked, notices, pipe, buffer, inbox, stream, mixed>>

\* Mutant of Receive: the queue goes first, the stream is forgotten with it.
ReceiveQueueFirst(t) ==
    /\ kind = "http" /\ rpc[t].phase = "receive" /\ wire.open
    /\ \/ /\ inbox # <<>>
          /\ inbox' = Tail(inbox) /\ stream' = <<>> /\ Consider(t, Head(inbox))
       \/ /\ inbox = <<>> /\ stream # <<>>
          /\ stream' = IF Head(stream) = Notice THEN Tail(stream) ELSE <<>>
          /\ Consider(t, Head(stream)) /\ UNCHANGED inbox
    /\ UNCHANGED <<kind, lastId, serial, asked, notices, pipe, buffer, mixed>>

\* receive(): the stream first, dropped with its answer; then the queue.
Receive(t) ==
    /\ kind = "http" /\ rpc[t].phase = "receive" /\ wire.open
    /\ \/ /\ stream # <<>>
          /\ stream' = IF Head(stream) = Notice THEN Tail(stream) ELSE <<>>
          /\ Consider(t, Head(stream)) /\ UNCHANGED inbox
       \/ /\ stream = <<>> /\ inbox # <<>>
          /\ inbox' = Tail(inbox) /\ Consider(t, Head(inbox)) /\ UNCHANGED stream
    /\ UNCHANGED <<kind, lastId, serial, asked, notices, pipe, buffer, mixed>>

\* The listener of the GET channel, a task of its own: it puts what the server
\* sends unasked into the same queue.
ListenNotifications ==
    /\ kind = "http" /\ wire.open /\ notices < MaxNotices
    /\ notices' = notices + 1 /\ inbox' = Append(inbox, Notice)
    /\ UNCHANGED <<kind, wire, lastId, serial, rpc, asked, pipe, buffer, stream, mixed>>

-----------------------------------------------------------------------------
(* The end of a request or a session, and the server.                        *)

\* No message within the transport's timeout; each message starts it anew.
TimesOut(t) ==
    /\ \/ rpc[t].phase = "parked"
       \/ kind = "http" /\ rpc[t].phase = "receive" /\ wire.open /\ stream = <<>> /\ inbox = <<>>
    /\ Fail(t, "timeout")
    /\ UNCHANGED <<kind, lastId, serial, asked, notices, pipe, buffer, inbox, stream, mixed>>

\* The task is cancelled at its await.  No handler of connect() catches that: a
\* handshake that is cut leaves its transport open.
Cancelled(t) ==
    /\ UnderWay(t)
    /\ Finish(t, "failed", 0)
    /\ UNCHANGED <<kind, wire, lastId, serial, asked, notices, pipe, buffer, inbox, stream, mixed>>

Disconnect(t) ==
    /\ rpc[t].phase = "idle" /\ wire.open
    /\ wire' = [wire EXCEPT !.ready = FALSE, !.open = FALSE]
    /\ rpc' = [rpc EXCEPT ![t] = [Idle EXCEPT !.phase = "closing"]]
    /\ mixed' = (mixed \/ \E u \in Tasks : UnderWay(u))
    /\ UNCHANGED <<kind, lastId, serial, asked, notices, pipe, buffer, inbox, stream>>

\* close() has waited for the process, or was cancelled doing so, and drops
\* whatever process there is now.
ProcessGone ==
    /\ kind = "stdio"
    /\ wire' = [wire EXCEPT !.process = "none"]
    /\ asked' = {} /\ pipe' = <<>>

\* HTTPTransport.close: the queue and the stream stay.
ClientGone == kind = "http" /\ UNCHANGED <<wire, asked, pipe>>

Closed(t) ==
    /\ rpc[t].phase = "closing"
    /\ ProcessGone \/ ClientGone
    /\ Finish(t, rpc[t].outcome, 0)
    /\ UNCHANGED <<kind, lastId, serial, notices, buffer, inbox, stream, mixed>>

ServerAnswers ==
    /\ kind = "stdio" /\ wire.process = "up"
    /\ \E m \in asked : asked' = asked \ {m} /\ pipe' = pipe \o Line(m)
    /\ UNCHANGED <<kind, wire, lastId, serial, rpc, notices, buffer, inbox, stream, mixed>>

ServerNotifies ==
    /\ kind = "stdio" /\ wire.process = "up" /\ notices < MaxNotices
    /\ notices' = notices + 1 /\ pipe' = pipe \o Line(Notice)
    /\ UNCHANGED <<kind, wire, lastId, serial, rpc, asked, buffer, inbox, stream, mixed>>

ServerDies ==
    /\ kind = "stdio" /\ wire.process = "up"
    /\ wire' = [wire EXCEPT !.process = "down"]
    /\ asked' = {} /\ pipe' = <<>>
    /\ UNCHANGED <<kind, lastId, serial, rpc, notices, buffer, inbox, stream, mixed>>

Next ==
    \/ \E t \in Tasks :
         \/ Connect(t) \/ ConnectFails(t) \/ Started(t) \/ StartFails(t) \/ Call(t) \/ CallFails(t)
         \/ ReadLine(t) \/ ReadChunk(t) \/ LoseChunk(t) \/ Park(t) \/ ReadFails(t)
         \/ PostReturns(t) \/ PostFails(t) \/ Receive(t)
         \/ TimesOut(t) \/ Cancelled(t) \/ Disconnect(t) \/ Closed(t)
    \/ ListenNotifications \/ ServerAnswers \/ ServerNotifies \/ ServerDies

Spec == Init /\ [][Next]_vars

-----------------------------------------------------------------------------

\* A request returns the answer to itself, whatever late answers, buffers and
\* queues of earlier requests and earlier sessions still hold (_request).
OwnAnswer ==
    \A t \in Tasks : rpc[t].outcome = "answer" => rpc[t].got = rpc[t].serial

\* As long as requests do not overlap, the answer to a waiting request is never
\* taken by anybody else and never forgotten by the transport: it is still with
\* the server or in one of the places receive() reads from.
AnswerNotLost ==
    ~mixed /\ Reachable => \A t \in Tasks : UnderWay(t) =>
        \/ \E m \in asked : m.serial = rpc[t].serial
        \/ \E i \in DOMAIN pipe : pipe[i].msg.serial = rpc[t].serial
        \/ \E i \in DOMAIN buffer : buffer[i].end /\ buffer[i].msg.serial = rpc[t].serial
        \/ \E i \in DOMAIN inbox : inbox[i].serial = rpc[t].serial
        \/ \E i \in DOMAIN stream : stream[i].serial = rpc[t].serial
=============================================================================
