----------------------- MODULE AgentTransport_proofs -----------------------
(***************************************************************************)
(* Theorems about AgentTransport, for any number of requests, hosts and    *)
(* starts and any sizes of the queues.                                     *)
(***************************************************************************)
EXTENDS AgentTransport, TLAPS

USE DEF client, queues, channel, agent, hosts

----------------------------------------------------------------------------
(* The inductive invariant behind ReplyOnce and HonestAnswers *)

\* Before the channel has seen a request nothing has been done for it.
Untouched ==
    \A a \in Asks :
        /\ ask[a] \in {"idle", "sending", "acting"} =>
             /\ sent[a] = 0 /\ exec[a] = "none"
             /\ \A i \in 1 .. Len(inbox) : inbox[i] # a
        /\ ask[a] \in {"acting", "replying"} => Kind[a] \notin Queued
        /\ exec[a] = "running" => sent[a] = 0

\* A message in the inbox is there once and waits to be looked at.
InboxFresh ==
    \A i \in 1 .. Len(inbox) :
        /\ exec[inbox[i]] = "none"
        /\ sent[inbox[i]] = 0
        /\ Kind[inbox[i]] \in Queued
        /\ \A j \in 1 .. Len(inbox) : inbox[i] = inbox[j] => i = j

\* Loops await different executions; a failure not yet reported was not
\* replied to; one being reported was.
LoopsApart ==
    /\ \A k \in Starts : loop[k] \in {"executing", "erroring"} => holds[k] \in Asks
    /\ \A k \in Starts : loop[k] = "executing" =>
         /\ exec[holds[k]] # "none"
         /\ exec[holds[k]] = "failed" => sent[holds[k]] = 0
         /\ \A j \in Starts : loop[j] = "executing" /\ holds[j] = holds[k] => j = k
    /\ \A k \in Starts : loop[k] = "erroring" =>
         /\ exec[holds[k]] \in {"none", "failed"}
         /\ sent[holds[k]] > 0

\* A reply says what became of its prompt; "final" is the stage of an
\* execution whose result has left it.
Honest(a, outcome, final) ==
    /\ sent[a] > 0
    /\ Kind[a] = "prompt" =>
         /\ outcome = "result" => exec[a] = final
         /\ outcome = "error" => exec[a] \in {"none", "failed"}

RepliesHonest ==
    /\ \A e \in parked :
         /\ Honest(e.to, e.what, "replying")
         /\ \A f \in parked : e.to = f.to => e = f
    /\ \A i \in 1 .. Len(outbox) : Honest(outbox[i].to, outbox[i].what, "done")
    /\ \A k \in Starts : held[k] # <<>> => Honest(held[k][1].to, held[k][1].what, "done")
    /\ \A a \in Asks : answer[a] # "none" => Honest(a, answer[a], "done")

IInv == TypeOK /\ Untouched /\ InboxFresh /\ LoopsApart /\ RepliesHonest /\ ReplyOnce

----------------------------------------------------------------------------
(* Type correctness *)

\* The tail and the extension of a sequence, by index.
LEMMA TailByIndex ==
    ASSUME NEW S, NEW s \in Seq(S), s # <<>>
    PROVE  /\ Tail(s) \in Seq(S) /\ Len(s) \in Nat /\ Len(Tail(s)) = Len(s) - 1
           /\ Head(s) = s[1] /\ 1 \in 1 .. Len(s) /\ Head(s) \in S
           /\ \A i \in 1 .. Len(Tail(s)) : i + 1 \in 1 .. Len(s) /\ Tail(s)[i] = s[i + 1]
  OBVIOUS

LEMMA AppendByIndex ==
    ASSUME NEW S, NEW s \in Seq(S), NEW x \in S
    PROVE  /\ Append(s, x) \in Seq(S) /\ Len(s) \in Nat
           /\ Len(Append(s, x)) = Len(s) + 1
           /\ Append(s, x)[Len(s) + 1] = x
           /\ \A i \in 1 .. Len(s) : Append(s, x)[i] = s[i]
  OBVIOUS

LEMMA NothingQueued ==
    /\ \A S : <<>> \in Seq(S)
    /\ Len(<<>>) = 0
  OBVIOUS

LEMMA TypeInit == Init => TypeOK
  <1> SUFFICES ASSUME Init PROVE TypeOK
    OBVIOUS
  <1>1. /\ inbox \in Seq(Asks) /\ Len(inbox) <= MaxInbox
        /\ outbox \in Seq(Envelopes) /\ Len(outbox) <= MaxOutbox
    BY NothingQueued, SizeAssumption DEF Init
  <1>2. /\ held \in [Starts -> {<<>>} \cup {<<e>> : e \in Envelopes}]
        /\ starts \in 0 .. MaxStarts
    BY SizeAssumption DEF Init
  <1> QED
    BY <1>1, <1>2 DEF Init, TypeOK, AskPhases, ExecPhases, LoopPhases, Unanswered

\* A reply is an envelope.
LEMMA ReplyType ==
    ASSUME TypeOK, NEW a \in Asks, NEW o \in Outcomes
    PROVE  Reply(a, o) \in Envelopes
  BY SizeAssumption DEF TypeOK, Reply, Envelopes, Starts, NoTask

\* Sending keeps the queues within their bounds.
LEMMA SendType ==
    ASSUME TypeOK, NEW a \in Asks, NEW o \in Outcomes, NEW W, W \subseteq parked,
           SendTo(a, o, W)
    PROVE  /\ outbox' \in Seq(Envelopes) /\ Len(outbox') <= MaxOutbox
           /\ parked' \subseteq Envelopes
           /\ sent' \in [Asks -> Nat]
  <1>1. Reply(a, o) \in Envelopes
    BY ReplyType
  <1>2. sent' \in [Asks -> Nat] /\ parked' \subseteq Envelopes
    BY <1>1 DEF SendTo, TypeOK
  <1>3. CASE chanUp /\ Room
    BY <1>1, <1>3, AppendByIndex, SizeAssumption DEF SendTo, TypeOK, Room
  <1>4. CASE ~(chanUp /\ Room)
    <2>1. outbox' = outbox
      BY <1>4 DEF SendTo
    <2> QED BY <1>2, <2>1 DEF TypeOK
  <1> QED BY <1>2, <1>3, <1>4

\* So does a parked sender that gets room.
LEMMA UnparkType ==
    ASSUME TypeOK, NEW e, Unpark(e)
    PROVE  /\ e \in Envelopes
           /\ outbox' \in Seq(Envelopes) /\ Len(outbox') <= MaxOutbox
           /\ parked' \subseteq Envelopes
  BY AppendByIndex, SizeAssumption DEF Unpark, TypeOK, Room

LEMMA TypeNext == TypeOK /\ LoopsApart /\ [Next]_vars => TypeOK'
  <1> SUFFICES ASSUME TypeOK, LoopsApart, [Next]_vars PROVE TypeOK'
    OBVIOUS
  <1> USE SizeAssumption, AskAssumption
      DEF TypeOK, AskPhases, Unanswered, ExecPhases, LoopPhases
  <1>1. ASSUME NEW a \in Asks, Enqueue(a) PROVE TypeOK'
    BY <1>1, AppendByIndex DEF Enqueue
  <1>2. ASSUME NEW a \in Asks, AwaitInbox(a) \/ Dispatch(a) \/ Await(a) PROVE TypeOK'
    BY <1>2, ZenonT(80) DEF AwaitInbox, Dispatch, Await, Return, TimeOut
  <1>3. ASSUME NEW a \in Asks, ActionEnds(a) \/ AnswerInline(a) PROVE TypeOK'
    <2>1. PICK o \in Outcomes : SenderReplies(a, o, parked)
      BY <1>3 DEF ActionEnds, AnswerInline
    <2> QED BY <1>3, <2>1, SendType DEF SenderReplies, ActionEnds, AnswerInline
  <1>4. ASSUME NEW a \in Asks, Interrupt(a) PROVE TypeOK'
    <2>1. PICK W \in SUBSET parked : SenderReplies(a, "result", W)
      BY <1>4 DEF Interrupt, Unsent
    <2>2. exec' \in [Asks -> ExecPhases]
      BY <1>4 DEF Interrupt
    <2> QED BY <1>4, <2>1, <2>2, SendType DEF SenderReplies, Interrupt, Outcomes
  <1>5. ASSUME NEW a \in Asks, SenderUnblocks(a) PROVE TypeOK'
    BY <1>5, UnparkType DEF SenderUnblocks
  <1>6. ASSUME NEW a \in Asks, Finish(a) PROVE TypeOK'
    BY <1>6, SendType DEF Finish, Outcomes
  <1>7. ASSUME NEW a \in Asks, ResultUnblocks(a) PROVE TypeOK'
    BY <1>7, UnparkType DEF ResultUnblocks
  <1>8. ASSUME NEW a \in Asks, Fail(a) PROVE TypeOK'
    BY <1>8 DEF Fail
  <1>9. ASSUME NEW k \in Starts, PumpTakes(k) PROVE TypeOK'
    BY <1>9, TailByIndex DEF PumpTakes
  <1>10. ASSUME NEW k \in Starts, Deliver(k) PROVE TypeOK'
    BY <1>10 DEF Deliver, Envelopes
  <1>11. ASSUME NEW k \in Starts, ReceiverFails(k) PROVE TypeOK'
    BY <1>11 DEF ReceiverFails
  <1>12. ASSUME NEW k \in Starts, GoesRound(k)
         PROVE  loop' \in [Starts -> LoopPhases] /\ loopTask' \in Starts \cup {NoTask}
    BY <1>12 DEF GoesRound
  <1>13. ASSUME NEW k \in Starts, Discard(k) PROVE TypeOK'
    BY <1>12, <1>13, TailByIndex DEF Discard
  <1>14. ASSUME NEW k \in Starts, Refuse(k) PROVE TypeOK'
    BY <1>14, TailByIndex, SendType, SMTT(40) DEF Refuse, Outcomes
  <1>15. ASSUME NEW k \in Starts, Execute(k) PROVE TypeOK'
    BY <1>15, TailByIndex DEF Execute
  <1>16. ASSUME NEW k \in Starts, Resume(k) PROVE TypeOK'
    BY <1>12, <1>16 DEF Resume
  <1>17. ASSUME NEW k \in Starts, ReportFailure(k), holds[k] \in Asks PROVE TypeOK'
    BY <1>12, <1>17, SendType, ZenonT(80) DEF ReportFailure, Outcomes
  <1>18. ASSUME NEW k \in Starts, ErrorUnblocks(k) PROVE TypeOK'
    BY <1>12, <1>18, UnparkType DEF ErrorUnblocks
  <1>30. ASSUME NEW h \in Hosts, Calls(h) PROVE crowded' \in BOOLEAN
    BY <1>30, Zenon DEF Calls
  <1>19. ASSUME NEW h \in Hosts, StartAgain(h) PROVE TypeOK'
    <2>1. crowded' \in BOOLEAN
      BY <1>19, <1>30 DEF StartAgain
    <2> QED BY <1>19, <2>1 DEF StartAgain
  <1>20. ASSUME NEW h \in Hosts, Start(h) PROVE TypeOK'
    <2>1. starts' \in Starts /\ starts' \in 0 .. MaxStarts
      BY <1>20 DEF Start, Starts
    <2>2. pumps' \subseteq Starts /\ pumpTask' \in Starts \cup {NoTask} /\ chanUp' \in BOOLEAN
      <3>1. pumps \subseteq Starts /\ pumpTask \in Starts \cup {NoTask} /\ chanUp \in BOOLEAN
        OBVIOUS
      <3> HIDE DEF TypeOK
      <3>2. CASE chanUp
        BY <1>20, <3>1, <3>2 DEF Start
      <3>3. CASE ~chanUp
        BY <1>20, <2>1, <3>1, <3>3 DEF Start
      <3> QED BY <3>2, <3>3
    <2>3. loop' \in [Starts -> LoopPhases]
      BY <1>20, <2>1 DEF Start
    <2>4. crowded' \in BOOLEAN
      BY <1>20, <1>30 DEF Start
    <2> QED BY <1>20, <2>1, <2>2, <2>3, <2>4 DEF Start
  <1>21. ASSUME NEW h \in Hosts, Stop(h) \/ StopChannel(h) \/ StopEnds(h) PROVE TypeOK'
    <2>1. ASSUME Closed(h)
          PROVE  /\ outbox' \in Seq(Envelopes) /\ Len(outbox') <= MaxOutbox
                 /\ pumpTask' \in Starts \cup {NoTask} /\ chanUp' \in BOOLEAN /\ started' \in BOOLEAN
                 /\ status' \in {"INIT", "RUNNING", "STOPPING", "STOPPED"}
                 /\ host' \in [Hosts -> {"idle", "joining", "draining"}]
      <3>1. outbox' \in Seq(Envelopes) /\ Len(outbox') <= MaxOutbox
        BY <2>1, NothingQueued DEF Closed
      <3>2. host' \in [Hosts -> {"idle", "joining", "draining"}]
        BY <2>1 DEF Closed
      <3> QED BY <2>1, <3>1, <3>2 DEF Closed
    <2>2. ASSUME NEW s \in {"INIT", "RUNNING", "STOPPING", "STOPPED"}, StopPump(h, s)
          PROVE  /\ outbox' \in Seq(Envelopes) /\ Len(outbox') <= MaxOutbox
                 /\ pumpTask' \in Starts \cup {NoTask} /\ chanUp' \in BOOLEAN /\ started' \in BOOLEAN
                 /\ status' \in {"INIT", "RUNNING", "STOPPING", "STOPPED"}
                 /\ host' \in [Hosts -> {"idle", "joining", "draining"}]
                 /\ pumps' \subseteq Starts
                 /\ held' \in [Starts -> {<<>>} \cup {<<e>> : e \in Envelopes}]
      <3>1. CASE pumpTask \in pumps
        BY <2>2, <3>1 DEF StopPump
      <3>2. CASE pumpTask \notin pumps
        BY <2>1, <2>2, <3>2 DEF StopPump
      <3> QED BY <3>1, <3>2
    <2>3. CASE Stop(h)
      <3>1. /\ exec' \in [Asks -> ExecPhases] /\ parked' \subseteq Envelopes
            /\ loop' \in [Starts -> LoopPhases] /\ inFlight' = NoAsk /\ loopTask' = NoTask
        BY <2>3 DEF Stop, CancelWork
      <3>4. crowded' \in BOOLEAN
        BY <1>30, <2>3 DEF Stop
      <3>2. CASE loopTask # NoTask
        <4>1. /\ status' = "STOPPING"
              /\ host' = [host EXCEPT ![h] = "joining"]
              /\ joins' = [joins EXCEPT ![h] = loopTask]
              /\ UNCHANGED <<ask, answer, inbox, outbox, chanUp, pumps, pumpTask, held,
                             started, holds, starts, sent>>
          BY <2>3, <3>2 DEF Stop, client, channel
        <4>2. /\ host' \in [Hosts -> {"idle", "joining", "draining"}]
              /\ joins' \in [Hosts -> Starts \cup {NoTask}]
          BY <4>1
        <4> QED BY <3>1, <3>4, <4>1, <4>2
      <3>3. CASE loopTask = NoTask
        <4>1. /\ StopPump(h, "STOPPING")
              /\ UNCHANGED <<ask, answer, inbox, holds, starts, sent, joins>>
          BY <2>3, <3>3 DEF Stop, client
        <4>2. /\ outbox' \in Seq(Envelopes) /\ Len(outbox') <= MaxOutbox
              /\ pumpTask' \in Starts \cup {NoTask} /\ chanUp' \in BOOLEAN /\ started' \in BOOLEAN
              /\ status' \in {"INIT", "RUNNING", "STOPPING", "STOPPED"}
              /\ host' \in [Hosts -> {"idle", "joining", "draining"}]
              /\ pumps' \subseteq Starts
              /\ held' \in [Starts -> {<<>>} \cup {<<e>> : e \in Envelopes}]
          BY <2>2, <4>1
        <4> QED BY <3>1, <3>4, <4>1, <4>2
      <3> QED BY <3>2, <3>3
    <2>4. CASE StopChannel(h)
      BY <2>2, <2>4 DEF StopChannel
    <2>5. CASE StopEnds(h)
      BY <2>1, <2>5 DEF StopEnds
    <2> QED BY <1>21, <2>3, <2>4, <2>5
  <1>22. CASE UNCHANGED vars
    BY <1>22 DEF vars
  <1>23. ASSUME NEW k \in Starts, ReportFailure(k) PROVE holds[k] \in Asks
    BY <1>23 DEF ReportFailure, LoopsApart
  <1> QED
    BY <1>1, <1>2, <1>3, <1>4, <1>5, <1>6, <1>7, <1>8, <1>9, <1>10, <1>11, <1>13, <1>14,
       <1>15, <1>16, <1>17, <1>23, <1>18, <1>19, <1>20, <1>21, <1>22
    DEF Next, Send, Work, Pump, Loop, Command, Stopping

----------------------------------------------------------------------------
(* Replies stay honest *)

\* The fate of a request that was replied to does not change any more.
Settled ==
    \A b \in Asks :
        /\ sent'[b] >= sent[b]
        /\ sent[b] > 0 /\ exec[b] \in {"none", "done", "failed"} => exec'[b] = exec[b]

\* Executions whose result is still parked go on waiting.
StillReplying == \A e \in parked' : e \in parked /\ exec[e.to] = "replying" => exec'[e.to] = "replying"

LEMMA HonestStays ==
    ASSUME TypeOK, TypeOK', Settled, NEW a \in Asks, NEW o, NEW final \in {"replying", "done"},
           Honest(a, o, final), exec[a] = "replying" => exec'[a] = final
    PROVE  Honest(a, o, final)'
  BY DEF Honest, Settled, TypeOK

LEMMA DoneStays ==
    ASSUME TypeOK, TypeOK', Settled, NEW a \in Asks, NEW o, Honest(a, o, "done")
    PROVE  Honest(a, o, "done")'
  BY DEF Honest, Settled, TypeOK

LEMMA ParkedStays ==
    ASSUME IInv, TypeOK', Settled, StillReplying, NEW e \in parked, e \in parked'
    PROVE  Honest(e.to, e.what, "replying")'
  <1>1. e.to \in Asks
    BY DEF IInv, TypeOK, Envelopes
  <1> QED
    BY <1>1, HonestStays DEF IInv, RepliesHonest, StillReplying

\* The pump takes the head of the outbox or drops what it holds; a client gets
\* what a pump holds.
HeldFromOutbox ==
    \A k \in Starts :
        \/ held'[k] = held[k]
        \/ held'[k] = <<>>
        \/ outbox # <<>> /\ held'[k] = <<outbox[1]>>
AnswersFromHeld ==
    \A a \in Asks :
        \/ answer'[a] = answer[a]
        \/ \E k \in Starts :
              held[k] # <<>> /\ held[k][1].to = a /\ held[k][1].what = answer'[a]
OutboxFromOutbox ==
    \A i \in 1 .. Len(outbox') : \E j \in 1 .. Len(outbox) : outbox'[i] = outbox[j]

\* Steps that move no envelope except to drop it or to hand it over.
LEMMA MovingKeepsHonest ==
    ASSUME IInv, TypeOK', Settled, StillReplying, parked' \subseteq parked,
           OutboxFromOutbox, HeldFromOutbox, AnswersFromHeld
    PROVE  RepliesHonest'
  <1>1. ASSUME NEW e \in Envelopes, Honest(e.to, e.what, "done")
        PROVE  Honest(e.to, e.what, "done")'
    BY <1>1, DoneStays DEF IInv, Envelopes
  <1>2. ASSUME NEW e \in parked'
        PROVE  /\ Honest(e.to, e.what, "replying")'
               /\ \A f \in parked' : e.to = f.to => e = f
    BY ParkedStays DEF IInv, RepliesHonest
  <1>3. ASSUME NEW i \in 1 .. Len(outbox')
        PROVE  Honest(outbox[i].to, outbox[i].what, "done")'
    <2>1. PICK j \in 1 .. Len(outbox) : outbox'[i] = outbox[j]
      BY DEF OutboxFromOutbox
    <2>2. PICK e \in Envelopes : e = outbox[j]
      BY DEF IInv, TypeOK
    <2>3. Honest(e.to, e.what, "done")
      BY <2>2 DEF IInv, RepliesHonest
    <2> QED BY <1>1, <2>1, <2>2, <2>3 DEF Honest
  <1>4. ASSUME NEW k \in Starts, held'[k] # <<>>
        PROVE  Honest(held[k][1].to, held[k][1].what, "done")'
    <2>1. CASE held'[k] = held[k]
      <3>1. PICK e \in Envelopes : held[k] = <<e>>
        BY <1>4, <2>1 DEF IInv, TypeOK
      <3>2. Honest(e.to, e.what, "done")
        BY <1>4, <2>1, <3>1 DEF IInv, RepliesHonest
      <3> QED BY <1>1, <2>1, <3>1, <3>2 DEF Honest
    <2>2. CASE outbox # <<>> /\ held'[k] = <<outbox[1]>>
      <3>1. PICK e \in Envelopes : e = outbox[1]
        BY <2>2, TailByIndex DEF IInv, TypeOK
      <3>2. 1 \in 1 .. Len(outbox)
        BY <2>2, TailByIndex DEF IInv, TypeOK
      <3>3. Honest(e.to, e.what, "done")
        BY <3>1, <3>2 DEF IInv, RepliesHonest
      <3> QED BY <1>1, <2>2, <3>1, <3>3 DEF Honest
    <2> QED BY <1>4, <2>1, <2>2 DEF HeldFromOutbox
  <1>5. ASSUME NEW a \in Asks, answer'[a] # "none"
        PROVE  Honest(a, answer[a], "done")'
    <2>1. \E o : o = answer'[a] /\ Honest(a, o, "done")
      BY <1>5 DEF IInv, RepliesHonest, AnswersFromHeld
    <2>2. PICK o : o = answer'[a] /\ Honest(a, o, "done")
      BY <2>1
    <2>3. Honest(a, o, "done")'
      BY <2>2, DoneStays DEF IInv
    <2> QED BY <2>2, <2>3 DEF Honest
  <1> QED BY <1>2, <1>3, <1>4, <1>5 DEF RepliesHonest

\* What the pump holds and the client has got does not lose its truth.
LEMMA DeliveredStays ==
    ASSUME IInv, TypeOK', Settled, UNCHANGED <<held, answer>>
    PROVE  /\ \A k \in Starts : held'[k] # <<>> => Honest(held[k][1].to, held[k][1].what, "done")'
           /\ \A b \in Asks : answer'[b] # "none" => Honest(b, answer[b], "done")'
  <1>1. ASSUME NEW k \in Starts, held'[k] # <<>>
        PROVE  Honest(held[k][1].to, held[k][1].what, "done")'
    <2>1. PICK e \in Envelopes : held[k] = <<e>>
      BY <1>1 DEF IInv, TypeOK
    <2>2. Honest(e.to, e.what, "done")
      BY <1>1, <2>1 DEF IInv, RepliesHonest
    <2>3. Honest(e.to, e.what, "done")'
      BY <2>2, DoneStays DEF IInv, Envelopes
    <2> QED BY <2>1, <2>3 DEF Honest
  <1>2. ASSUME NEW b \in Asks, answer'[b] # "none"
        PROVE  Honest(b, answer[b], "done")'
    <2>1. PICK q : q = answer[b] /\ Honest(b, q, "done")
      BY <1>2 DEF IInv, RepliesHonest
    <2>2. Honest(b, q, "done")'
      BY <2>1, DoneStays DEF IInv
    <2> QED BY <2>1, <2>2 DEF Honest
  <1> QED BY <1>1, <1>2

\* Steps that send a reply.
LEMMA SendingKeepsHonest ==
    ASSUME IInv, TypeOK', Settled, StillReplying,
           NEW a \in Asks, NEW o \in Outcomes, NEW W, W \subseteq parked,
           SendTo(a, o, W), sent[a] = 0, UNCHANGED <<held, answer>>,
           ~Blocks => Honest(a, o, "done")',
           Blocks => Honest(a, o, "replying")'
    PROVE  RepliesHonest'
  <1> DEFINE r == Reply(a, o)
  <1>1. r \in Envelopes /\ r.to = a /\ r.what = o
    BY ReplyType DEF IInv, Reply
  <1>2. ASSUME NEW e \in parked PROVE e.to # a
    BY <1>2 DEF IInv, RepliesHonest, Honest
  <1>3. ASSUME NEW e \in parked'
        PROVE  /\ Honest(e.to, e.what, "replying")'
               /\ \A f \in parked' : e.to = f.to => e = f
    <2>1. CASE Blocks
      <3>1. parked' = W \cup {r}
        BY <2>1 DEF SendTo
      <3>2. \A f \in parked' : f \in parked \/ f = r
        BY <3>1
      <3>3. Honest(e.to, e.what, "replying")'
        <4>1. CASE e \in parked
          BY <4>1, ParkedStays
        <4>2. CASE e = r
          BY <1>1, <2>1, <4>2
        <4> QED BY <3>2, <4>1, <4>2
      <3>4. \A f \in parked' : e.to = f.to => e = f
        BY <1>1, <1>2, <3>2 DEF IInv, RepliesHonest
      <3> QED BY <3>3, <3>4
    <2>2. CASE ~Blocks
      <3>1. parked' = W
        BY <2>2 DEF SendTo
      <3> QED BY <3>1, ParkedStays DEF IInv, RepliesHonest
    <2> QED BY <2>1, <2>2
  <1>4. ASSUME NEW i \in 1 .. Len(outbox')
        PROVE  Honest(outbox[i].to, outbox[i].what, "done")'
    <2>1. ASSUME NEW j \in 1 .. Len(outbox), outbox'[i] = outbox[j]
          PROVE  Honest(outbox[i].to, outbox[i].what, "done")'
      <3>1. PICK e \in Envelopes : e = outbox[j]
        BY DEF IInv, TypeOK
      <3>2. Honest(e.to, e.what, "done")'
        BY <3>1, DoneStays DEF IInv, RepliesHonest, Envelopes
      <3> QED BY <2>1, <3>1, <3>2 DEF Honest
    <2>2. CASE chanUp /\ Room
      <3>1. outbox' = Append(outbox, r) /\ ~Blocks
        BY <2>2 DEF SendTo, Blocks
      <3>2. \/ i \in 1 .. Len(outbox) /\ outbox'[i] = outbox[i]
            \/ outbox'[i] = r
        BY <1>1, <3>1, AppendByIndex DEF IInv, TypeOK
      <3> QED BY <1>1, <2>1, <3>1, <3>2 DEF Honest
    <2>3. CASE ~(chanUp /\ Room)
      <3>1. outbox' = outbox
        BY <2>3 DEF SendTo
      <3> QED BY <2>1, <3>1
    <2> QED BY <2>2, <2>3
  <1> QED BY <1>3, <1>4, DeliveredStays DEF RepliesHonest

\* Steps in which a parked sender gets room.
LEMMA UnparkingKeepsHonest ==
    ASSUME IInv, TypeOK', Settled, StillReplying, NEW e, Unpark(e),
           UNCHANGED <<held, answer>>, Honest(e.to, e.what, "done")'
    PROVE  RepliesHonest'
  <1>1. ASSUME NEW f \in parked'
        PROVE  /\ Honest(f.to, f.what, "replying")'
               /\ \A g \in parked' : f.to = g.to => f = g
    BY ParkedStays DEF IInv, RepliesHonest, Unpark
  <1>2. ASSUME NEW i \in 1 .. Len(outbox')
        PROVE  Honest(outbox[i].to, outbox[i].what, "done")'
    <2>1. e \in Envelopes
      BY UnparkType DEF IInv
    <2>2. \/ i \in 1 .. Len(outbox) /\ outbox'[i] = outbox[i]
          \/ outbox'[i] = e
      BY <2>1, AppendByIndex, SMTT(40) DEF IInv, TypeOK, Unpark
    <2>3. CASE i \in 1 .. Len(outbox) /\ outbox'[i] = outbox[i]
      <3>1. PICK f \in Envelopes : f = outbox[i]
        BY <2>3 DEF IInv, TypeOK
      <3>2. Honest(f.to, f.what, "done")'
        BY <2>3, <3>1, DoneStays DEF IInv, RepliesHonest, Envelopes
      <3> QED BY <2>3, <3>1, <3>2 DEF Honest
    <2>4. CASE outbox'[i] = e
      BY <2>4 DEF Honest
    <2> QED BY <2>2, <2>3, <2>4
  <1> QED BY <1>1, <1>2, DeliveredStays DEF RepliesHonest

----------------------------------------------------------------------------
(* The invariant is inductive *)

LEMMA IInvInit == Init => IInv
  BY TypeInit DEF Init, IInv, Untouched, InboxFresh, LoopsApart, RepliesHonest, ReplyOnce

\* Steps that leave requests, executions and loops alone.
LEMMA ClientStep ==
    ASSUME IInv, TypeOK', NEW a \in Asks,
           Enqueue(a) \/ AwaitInbox(a) \/ Dispatch(a) \/ Await(a)
    PROVE  IInv'
  <1> USE DEF IInv, TypeOK
  <1>1. Settled /\ StillReplying /\ UNCHANGED <<outbox, parked, held, answer, exec, sent, loop, holds>>
    BY DEF Enqueue, AwaitInbox, Dispatch, Await, Return, TimeOut, Settled, StillReplying
  <1>2. RepliesHonest'
    <2>1. OutboxFromOutbox /\ HeldFromOutbox /\ AnswersFromHeld /\ parked' \subseteq parked
      <3>1. outbox' = outbox /\ held' = held /\ answer' = answer /\ parked' = parked
        BY <1>1
      <3> HIDE DEF IInv, TypeOK
      <3>2. OutboxFromOutbox
        BY <3>1 DEF OutboxFromOutbox
      <3>3. HeldFromOutbox /\ AnswersFromHeld
        BY <3>1 DEF HeldFromOutbox, AnswersFromHeld
      <3> QED BY <3>1, <3>2, <3>3
    <2> QED BY <1>1, <2>1, MovingKeepsHonest
  <1>3. LoopsApart' /\ ReplyOnce'
    BY <1>1 DEF LoopsApart, ReplyOnce
  <1>4. Untouched' /\ InboxFresh'
    <2>1. CASE Enqueue(a)
      <3>1. /\ inbox' = Append(inbox, a) /\ Len(inbox') = Len(inbox) + 1 /\ Len(inbox) \in Nat
            /\ inbox'[Len(inbox) + 1] = a
            /\ \A i \in 1 .. Len(inbox) : inbox'[i] = inbox[i]
        BY <2>1, AppendByIndex DEF Enqueue
      <3>2. /\ sent[a] = 0 /\ exec[a] = "none" /\ Kind[a] \in Queued
            /\ \A i \in 1 .. Len(inbox) : inbox[i] # a
            /\ ask' = [ask EXCEPT ![a] = "waiting"]
        BY <2>1 DEF Enqueue, Untouched
      <3>3. Untouched'
        BY <1>1, <3>1, <3>2 DEF Untouched
      <3>4. InboxFresh'
        BY <1>1, <3>1, <3>2 DEF InboxFresh
      <3> QED BY <3>3, <3>4
    <2>2. CASE ~Enqueue(a)
      <3>1. inbox' = inbox
        BY <2>2 DEF AwaitInbox, Dispatch, Await, Return, TimeOut
      <3>2. Untouched'
        BY <1>1, <2>2, <3>1 DEF Untouched, AwaitInbox, Dispatch, Await, Return, TimeOut, Queued
      <3> QED BY <1>1, <3>1, <3>2 DEF InboxFresh
    <2> QED BY <2>1, <2>2
  <1> QED BY <1>2, <1>3, <1>4

\* Replies of the channel's own sender.
LEMMA SenderStep ==
    ASSUME IInv, TypeOK', NEW a \in Asks, ActionEnds(a) \/ AnswerInline(a) \/ Interrupt(a)
    PROVE  IInv'
  <1> USE DEF IInv, TypeOK
  <1>1. PICK o \in Outcomes, W \in SUBSET parked :
            /\ SenderReplies(a, o, W)
            /\ \A e \in W : exec'[e.to] = exec[e.to]
            /\ \A b \in Asks : exec'[b] = exec[b] \/ (Alive(b) /\ exec'[b] = "cancelled")
            /\ UNCHANGED <<loop, holds>>
    <2>1. CASE ActionEnds(a) \/ AnswerInline(a)
      BY <2>1 DEF ActionEnds, AnswerInline
    <2>2. CASE Interrupt(a)
      <3>1. "result" \in Outcomes /\ \A e \in parked : e.to \in Asks
        BY DEF Outcomes, Envelopes
      <3>2. CASE inFlight # NoAsk /\ Alive(inFlight)
        <4>1. /\ exec' = [exec EXCEPT ![inFlight] = "cancelled"]
              /\ SenderReplies(a, "result", Unsent(inFlight))
              /\ UNCHANGED <<loop, holds>>
          BY <2>2, <3>2 DEF Interrupt
        <4>2. Unsent(inFlight) \in SUBSET parked /\ \A e \in Unsent(inFlight) : exec'[e.to] = exec[e.to]
          BY <3>1, <4>1 DEF Unsent
        <4>3. \A b \in Asks : exec'[b] = exec[b] \/ (Alive(b) /\ exec'[b] = "cancelled")
          BY <3>2, <4>1
        <4> QED BY <3>1, <4>1, <4>2, <4>3
      <3>3. CASE ~(inFlight # NoAsk /\ Alive(inFlight))
        BY <2>2, <3>1, <3>3 DEF Interrupt
      <3> QED BY <3>2, <3>3
    <2> QED BY <2>1, <2>2
  <1>2. ask[a] \in {"idle", "acting"} /\ Kind[a] \notin Queued /\ sent[a] = 0
    BY DEF ActionEnds, AnswerInline, Interrupt, Queued, Untouched
  <1>3. SendTo(a, o, W) /\ sent' = [sent EXCEPT ![a] = 1] /\ UNCHANGED <<inbox, held, answer>>
    BY <1>1, <1>2 DEF SenderReplies, SendTo
  <1>4. Settled
    <2>1. \A b \in Asks : sent'[b] >= sent[b]
      BY <1>2, <1>3
    <2>2. \A b \in Asks : exec[b] \in {"none", "done", "failed"} => exec'[b] = exec[b]
      BY <1>1 DEF Alive
    <2> QED BY <2>1, <2>2 DEF Settled
  <1>5. StillReplying
    <2>1. Reply(a, o) \notin parked
      BY <1>2 DEF RepliesHonest, Honest, Reply
    <2>2. parked' \subseteq W \cup {Reply(a, o)}
      BY <1>3 DEF SendTo
    <2> QED BY <1>1, <2>1, <2>2 DEF StillReplying
  <1>6. Honest(a, o, "done")' /\ Honest(a, o, "replying")'
    BY <1>2, <1>3 DEF Honest, Queued
  <1>7. RepliesHonest'
    BY <1>2, <1>3, <1>4, <1>5, <1>6, SendingKeepsHonest
  <1>8. Untouched'
    BY <1>1, <1>2, <1>3 DEF Untouched, SenderReplies, Alive, Queued
  <1>9. InboxFresh'
    <2>1. \A i \in 1 .. Len(inbox) : inbox[i] \in Asks /\ inbox[i] # a
      <3>1. inbox \in Seq(Asks) /\ InboxFresh
        OBVIOUS
      <3> HIDE DEF IInv, TypeOK
      <3>2. \A i \in 1 .. Len(inbox) : inbox[i] \in Asks
        BY <3>1
      <3>3. \A i \in 1 .. Len(inbox) : Kind[inbox[i]] \in Queued
        BY <3>1 DEF InboxFresh
      <3> QED BY <1>2, <3>2, <3>3
    <2>2. \A i \in 1 .. Len(inbox) : exec'[inbox[i]] = "none" /\ sent'[inbox[i]] = 0
      <3>1. InboxFresh
        OBVIOUS
      <3> HIDE DEF IInv, TypeOK
      <3>2. \A i \in 1 .. Len(inbox) : exec[inbox[i]] = "none" /\ sent[inbox[i]] = 0
        BY <3>1 DEF InboxFresh
      <3>3. \A i \in 1 .. Len(inbox) : sent'[inbox[i]] = sent[inbox[i]]
        BY <1>3, <2>1
      <3>4. \A i \in 1 .. Len(inbox) : exec'[inbox[i]] = exec[inbox[i]]
        BY <1>1, <2>1, <3>2 DEF Alive
      <3> QED BY <3>2, <3>3, <3>4
    <2> QED BY <1>3, <2>2 DEF InboxFresh
  <1>10. LoopsApart'
    <2>1. \A b \in Asks :
             /\ exec[b] # "none" => exec'[b] # "none"
             /\ exec'[b] = "failed" => exec[b] = "failed"
             /\ exec[b] \in {"none", "failed"} => exec'[b] = exec[b]
      BY <1>1 DEF Alive
    <2>2. \A k \in Starts : loop[k] = "executing" => holds[k] # a
      BY <1>2, <1>1 DEF LoopsApart, Untouched
    <2>3. \A k \in Starts : loop[k] = "executing" =>
             /\ exec'[holds[k]] # "none"
             /\ exec'[holds[k]] = "failed" => sent'[holds[k]] = 0
      <3>1. \A b \in Asks \ {a} : sent'[b] = sent[b]
        BY <1>3
      <3>2. LoopsApart
        OBVIOUS
      <3> HIDE DEF IInv, TypeOK
      <3> QED BY <2>1, <2>2, <3>1, <3>2 DEF LoopsApart
    <2>4. \A k \in Starts : loop[k] = "erroring" =>
             /\ exec'[holds[k]] \in {"none", "failed"}
             /\ sent'[holds[k]] > 0
      <3>1. \A b \in Asks : sent'[b] >= sent[b]
        BY <1>4 DEF Settled
      <3>2. LoopsApart /\ \A b \in Asks : sent[b] \in Nat /\ sent'[b] \in Nat
        OBVIOUS
      <3> HIDE DEF IInv, TypeOK
      <3> QED BY <2>1, <3>1, <3>2 DEF LoopsApart
    <2> QED BY <1>1, <2>3, <2>4 DEF LoopsApart
  <1>11. ReplyOnce'
    BY <1>2, <1>3 DEF ReplyOnce
  <1> QED BY <1>7, <1>8, <1>9, <1>10, <1>11

\* Parked senders that get room.
LEMMA UnparkStep ==
    ASSUME IInv, TypeOK',
           \/ \E a \in Asks : SenderUnblocks(a) \/ ResultUnblocks(a)
           \/ \E k \in Starts : ErrorUnblocks(k)
    PROVE  IInv'
  <1> USE DEF IInv, TypeOK
  <1>1. ASSUME NEW a \in Asks, SenderUnblocks(a) PROVE IInv'
    <2>1. PICK e \in parked : e.to = a /\ Unpark(e)
      BY <1>1 DEF SenderUnblocks
    <2>2. Kind[a] \notin Queued /\ ask' = [ask EXCEPT ![a] = "waiting"]
      BY <1>1 DEF SenderUnblocks, Untouched
    <2>3. UNCHANGED <<exec, sent, held, answer, inbox, loop, holds>>
      BY <1>1 DEF SenderUnblocks
    <2>4. Settled /\ StillReplying
      BY <2>3 DEF Settled, StillReplying
    <2>5. Honest(e.to, e.what, "done")'
      BY <2>1, <2>2, <2>3 DEF Honest, Queued, RepliesHonest
    <2>6. RepliesHonest'
      BY <2>1, <2>3, <2>4, <2>5, UnparkingKeepsHonest
    <2> QED BY <2>2, <2>3, <2>6 DEF Untouched, InboxFresh, LoopsApart, ReplyOnce
  <1>2. ASSUME NEW a \in Asks, ResultUnblocks(a) PROVE IInv'
    <2>1. PICK e \in parked : e.to = a /\ Unpark(e)
      BY <1>2 DEF ResultUnblocks
    <2>2. exec[a] = "replying" /\ exec' = [exec EXCEPT ![a] = "done"]
      BY <1>2 DEF ResultUnblocks
    <2>3. UNCHANGED <<ask, sent, held, answer, inbox, loop, holds>>
      BY <1>2 DEF ResultUnblocks
    <2>4. Settled
      BY <2>2, <2>3 DEF Settled
    <2>5. StillReplying
      BY <2>1, <2>2 DEF StillReplying, Unpark, RepliesHonest
    <2>6. Honest(e.to, e.what, "done")'
      BY <2>1, <2>2, <2>3 DEF Honest, RepliesHonest
    <2>7. RepliesHonest'
      BY <2>1, <2>3, <2>4, <2>5, <2>6, UnparkingKeepsHonest
    <2>8. Untouched' /\ InboxFresh' /\ ReplyOnce'
      BY <2>2, <2>3 DEF Untouched, InboxFresh, ReplyOnce
    <2>9. LoopsApart'
      BY <2>2, <2>3 DEF LoopsApart
    <2> QED BY <2>7, <2>8, <2>9
  <1>3. ASSUME NEW k \in Starts, ErrorUnblocks(k) PROVE IInv'
    <2>1. PICK e \in parked : e.to = holds[k] /\ Unpark(e)
      BY <1>3 DEF ErrorUnblocks
    <2>2. UNCHANGED <<ask, sent, held, answer, inbox, exec, holds>>
      BY <1>3 DEF ErrorUnblocks
    <2>3. loop[k] = "erroring" /\ loop' = [loop EXCEPT ![k] = loop'[k]] /\ loop'[k] \in {"polling", "ended"}
      BY <1>3 DEF ErrorUnblocks, GoesRound
    <2>4. Settled /\ StillReplying
      BY <2>2 DEF Settled, StillReplying
    <2>5. Honest(e.to, e.what, "done")'
      BY <2>1, <2>2, <2>3 DEF Honest, RepliesHonest, LoopsApart
    <2>6. RepliesHonest'
      BY <2>1, <2>2, <2>4, <2>5, UnparkingKeepsHonest
    <2>7. LoopsApart'
      BY <2>2, <2>3 DEF LoopsApart
    <2> QED BY <2>2, <2>6, <2>7 DEF Untouched, InboxFresh, ReplyOnce
  <1> QED BY <1>1, <1>2, <1>3

\* The pump moves envelopes and nothing else.
LEMMA PumpStep ==
    ASSUME IInv, TypeOK', NEW k \in Starts, Pump(k)
    PROVE  IInv'
  <1> USE DEF IInv, TypeOK
  <1>1. UNCHANGED <<ask, inbox, parked, exec, sent, loop, holds>>
    BY DEF Pump, PumpTakes, Deliver, ReceiverFails
  <1>2. Settled /\ StillReplying
    BY <1>1 DEF Settled, StillReplying
  <1>3. OutboxFromOutbox
    <2>1. CASE PumpTakes(k)
      BY <2>1, TailByIndex DEF PumpTakes, OutboxFromOutbox
    <2>2. CASE Deliver(k) \/ ReceiverFails(k)
      BY <2>2 DEF Deliver, ReceiverFails, OutboxFromOutbox
    <2> QED BY <2>1, <2>2 DEF Pump
  <1>4. HeldFromOutbox
    <2>1. CASE PumpTakes(k)
      BY <2>1, TailByIndex DEF PumpTakes, HeldFromOutbox
    <2>2. CASE Deliver(k) \/ ReceiverFails(k)
      BY <2>2 DEF Deliver, ReceiverFails, HeldFromOutbox
    <2> QED BY <2>1, <2>2 DEF Pump
  <1>5. AnswersFromHeld
    <2>1. CASE PumpTakes(k) \/ ReceiverFails(k)
      BY <2>1 DEF PumpTakes, ReceiverFails, AnswersFromHeld
    <2>2. CASE Deliver(k)
      <3>1. PICK e \in Envelopes : held[k] = <<e>>
        BY <2>2 DEF Deliver
      <3>2. answer' = answer \/ answer' = [answer EXCEPT ![e.to] = e.what]
        BY <2>2, <3>1 DEF Deliver
      <3>3. held[k] # <<>> /\ held[k][1] = e /\ e.to \in Asks
        BY <3>1 DEF Envelopes
      <3>4. ASSUME NEW a \in Asks
            PROVE  \/ answer'[a] = answer[a]
                   \/ held[k] # <<>> /\ held[k][1].to = a /\ held[k][1].what = answer'[a]
        <4>1. CASE a = e.to
          BY <3>2, <3>3, <4>1
        <4>2. CASE a # e.to
          BY <3>2, <3>3, <4>2
        <4> QED BY <4>1, <4>2
      <3> HIDE DEF IInv, TypeOK
      <3> QED BY <3>4 DEF AnswersFromHeld
    <2> QED BY <2>1, <2>2 DEF Pump
  <1>6. RepliesHonest'
    BY <1>1, <1>2, <1>3, <1>4, <1>5, MovingKeepsHonest
  <1> QED
    BY <1>1, <1>6 DEF Untouched, InboxFresh, LoopsApart, ReplyOnce

\* What polling a message does to the inbox.
LEMMA PolledFacts ==
    ASSUME IInv, inbox # <<>>, inbox' = Tail(inbox)
    PROVE  /\ Head(inbox) \in Asks
           /\ exec[Head(inbox)] = "none" /\ sent[Head(inbox)] = 0
           /\ Kind[Head(inbox)] \in Queued
           /\ ask[Head(inbox)] \notin {"idle", "sending", "acting"}
           /\ \A i \in 1 .. Len(inbox') :
                /\ inbox'[i] # Head(inbox)
                /\ \E j \in 1 .. Len(inbox) : inbox'[i] = inbox[j]
                /\ \A j \in 1 .. Len(inbox') : inbox'[i] = inbox'[j] => i = j
  <1>1. /\ Len(inbox) \in Nat /\ Len(inbox') = Len(inbox) - 1
        /\ Head(inbox) = inbox[1] /\ 1 \in 1 .. Len(inbox) /\ Head(inbox) \in Asks
        /\ \A i \in 1 .. Len(inbox') : i + 1 \in 1 .. Len(inbox) /\ inbox'[i] = inbox[i + 1]
    BY TailByIndex DEF IInv, TypeOK
  <1>2. \A i, j \in 1 .. Len(inbox) : inbox[i] = inbox[j] => i = j
    BY DEF IInv, InboxFresh
  <1>3. /\ exec[Head(inbox)] = "none" /\ sent[Head(inbox)] = 0
        /\ Kind[Head(inbox)] \in Queued
        /\ ask[Head(inbox)] \notin {"idle", "sending", "acting"}
    BY <1>1 DEF IInv, InboxFresh, Untouched
  <1>4. ASSUME NEW i \in 1 .. Len(inbox')
        PROVE  /\ inbox'[i] # Head(inbox)
               /\ \E j \in 1 .. Len(inbox) : inbox'[i] = inbox[j]
               /\ \A j \in 1 .. Len(inbox') : inbox'[i] = inbox'[j] => i = j
    BY <1>1, <1>2
  <1> QED BY <1>1, <1>3, <1>4

\* What was not polled is as it was; what was is not yet replied to twice.
LEMMA PolledInbox ==
    ASSUME IInv, TypeOK', NEW b \in Asks,
           ask[b] \notin {"idle", "sending", "acting"}, ask' = ask,
           \A i \in 1 .. Len(inbox') :
             /\ inbox'[i] # b
             /\ \E j \in 1 .. Len(inbox) : inbox'[i] = inbox[j]
             /\ \A j \in 1 .. Len(inbox') : inbox'[i] = inbox'[j] => i = j,
           \A c \in Asks \ {b} : exec'[c] = exec[c] /\ sent'[c] = sent[c],
           exec'[b] = "running" => sent'[b] = 0, sent'[b] <= 1
    PROVE  Untouched' /\ InboxFresh' /\ ReplyOnce'
  <1>1. Untouched /\ InboxFresh /\ ReplyOnce /\ \A j \in 1 .. Len(inbox) : inbox[j] \in Asks
    BY DEF IInv, TypeOK
  <1>2. ASSUME NEW i \in 1 .. Len(inbox')
        PROVE  /\ exec'[inbox'[i]] = "none" /\ sent'[inbox'[i]] = 0
               /\ Kind[inbox'[i]] \in Queued
               /\ \A j \in 1 .. Len(inbox') : inbox'[i] = inbox'[j] => i = j
    <2>1. PICK j \in 1 .. Len(inbox) : inbox'[i] = inbox[j]
      OBVIOUS
    <2>2. inbox[j] \in Asks \ {b}
      BY <1>1, <2>1
    <2>3. exec[inbox[j]] = "none" /\ sent[inbox[j]] = 0 /\ Kind[inbox[j]] \in Queued
      BY <1>1, <2>1 DEF InboxFresh
    <2> QED BY <2>1, <2>2, <2>3
  <1>3. InboxFresh'
    BY <1>2 DEF InboxFresh
  <1>4. ReplyOnce'
    <2>1. ASSUME NEW c \in Asks PROVE sent'[c] <= 1
      BY <1>1 DEF ReplyOnce
    <2> QED BY <2>1 DEF ReplyOnce
  <1>5. ASSUME NEW c \in Asks
        PROVE  /\ ask[c] \in {"idle", "sending", "acting"} =>
                    /\ sent'[c] = 0 /\ exec'[c] = "none"
                    /\ \A i \in 1 .. Len(inbox') : inbox'[i] # c
               /\ ask[c] \in {"acting", "replying"} => Kind[c] \notin Queued
               /\ exec'[c] = "running" => sent'[c] = 0
    <2>1. CASE c = b
      BY <1>1, <2>1 DEF Untouched
    <2>2. CASE c # b
      <3>1. exec'[c] = exec[c] /\ sent'[c] = sent[c]
        BY <2>2
      <3>2. (\A j \in 1 .. Len(inbox) : inbox[j] # c) => \A i \in 1 .. Len(inbox') : inbox'[i] # c
        OBVIOUS
      <3> QED BY <1>1, <3>1, <3>2 DEF Untouched
    <2> QED BY <2>1, <2>2
  <1>6. Untouched'
    BY <1>5 DEF Untouched
  <1> QED BY <1>3, <1>4, <1>6

\* The loop polls a message: it is dropped, refused or executed.
LEMMA PollStep ==
    ASSUME IInv, TypeOK', NEW k \in Starts, Discard(k) \/ Refuse(k) \/ Execute(k)
    PROVE  IInv'
  <1>1. inbox # <<>> /\ inbox' = Tail(inbox) /\ loop[k] = "polling"
    BY DEF Discard, Refuse, Execute
  <1>2. PICK a \in Asks :
        /\ a = Head(inbox)
        /\ exec[a] = "none" /\ sent[a] = 0
        /\ Kind[a] \in Queued
        /\ ask[a] \notin {"idle", "sending", "acting"}
        /\ \A i \in 1 .. Len(inbox') :
             /\ inbox'[i] # a
             /\ \E j \in 1 .. Len(inbox) : inbox'[i] = inbox[j]
             /\ \A j \in 1 .. Len(inbox') : inbox'[i] = inbox'[j] => i = j
    BY <1>1, PolledFacts
  <1> USE DEF IInv, TypeOK
  <1>3. UNCHANGED <<ask, held, answer>>
    BY DEF Discard, Refuse, Execute
  <1>4. CASE Discard(k)
    <2>1. UNCHANGED <<outbox, parked, exec, sent, holds>>
      BY <1>4 DEF Discard
    <2>2. loop' = [loop EXCEPT ![k] = "ended"]
      BY <1>4 DEF Discard, GoesRound
    <2>3. Settled /\ StillReplying /\ OutboxFromOutbox /\ HeldFromOutbox /\ AnswersFromHeld
      BY <1>3, <2>1 DEF Settled, StillReplying, OutboxFromOutbox, HeldFromOutbox, AnswersFromHeld
    <2>4. RepliesHonest'
      BY <2>1, <2>3, MovingKeepsHonest
    <2>5. Untouched' /\ InboxFresh' /\ ReplyOnce'
      <3>1. /\ \A c \in Asks \ {a} : exec'[c] = exec[c] /\ sent'[c] = sent[c]
            /\ exec'[a] = "running" => sent'[a] = 0
            /\ sent'[a] <= 1
        BY <1>2, <2>1
      <3> HIDE DEF IInv, TypeOK
      <3> QED BY <1>2, <1>3, <3>1, PolledInbox
    <2>6. LoopsApart'
      BY <2>1, <2>2 DEF LoopsApart
    <2> QED BY <2>4, <2>5, <2>6
  <1>5. CASE Refuse(k)
    <2>1. SendTo(a, "error", parked) /\ exec' = exec /\ holds' = [holds EXCEPT ![k] = a]
      BY <1>2, <1>5 DEF Refuse
    <2>2. sent' = [sent EXCEPT ![a] = 1]
      BY <1>2, <2>1 DEF SendTo
    <2>3. loop'[k] \in {"erroring", "polling"} /\ loop' = [loop EXCEPT ![k] = loop'[k]]
      BY <1>5 DEF Refuse
    <2>4. Settled
      BY <1>2, <2>1, <2>2 DEF Settled
    <2>5. StillReplying
      BY <2>1 DEF StillReplying
    <2>6. Honest(a, "error", "done")' /\ Honest(a, "error", "replying")'
      BY <1>2, <2>1, <2>2 DEF Honest
    <2>7. RepliesHonest'
      BY <1>2, <1>3, <2>1, <2>4, <2>5, <2>6, SendingKeepsHonest DEF Outcomes
    <2>8. Untouched' /\ InboxFresh' /\ ReplyOnce'
      <3>1. /\ \A c \in Asks \ {a} : exec'[c] = exec[c] /\ sent'[c] = sent[c]
            /\ exec'[a] = "running" => sent'[a] = 0
            /\ sent'[a] <= 1
        BY <1>2, <2>1, <2>2
      <3> HIDE DEF IInv, TypeOK
      <3> QED BY <1>2, <1>3, <3>1, PolledInbox
    <2>9. LoopsApart'
      BY <1>1, <1>2, <2>1, <2>2, <2>3 DEF LoopsApart
    <2> QED BY <2>7, <2>8, <2>9
  <1>6. CASE Execute(k)
    <2>1. /\ exec' = [exec EXCEPT ![a] = "running"] /\ holds' = [holds EXCEPT ![k] = a]
          /\ loop' = [loop EXCEPT ![k] = "executing"]
          /\ UNCHANGED <<outbox, parked, sent>>
      BY <1>2, <1>6 DEF Execute
    <2>2. Settled
      BY <1>2, <2>1 DEF Settled
    <2>3. StillReplying /\ OutboxFromOutbox /\ HeldFromOutbox /\ AnswersFromHeld
      BY <1>2, <1>3, <2>1 DEF StillReplying, OutboxFromOutbox, HeldFromOutbox, AnswersFromHeld
    <2>4. RepliesHonest'
      BY <2>1, <2>2, <2>3, MovingKeepsHonest
    <2>5. Untouched' /\ InboxFresh' /\ ReplyOnce'
      <3>1. /\ \A c \in Asks \ {a} : exec'[c] = exec[c] /\ sent'[c] = sent[c]
            /\ exec'[a] = "running" => sent'[a] = 0
            /\ sent'[a] <= 1
        BY <1>2, <2>1
      <3> HIDE DEF IInv, TypeOK
      <3> QED BY <1>2, <1>3, <3>1, PolledInbox
    <2>6. LoopsApart'
      BY <1>1, <1>2, <2>1 DEF LoopsApart
    <2> QED BY <2>4, <2>5, <2>6
  <1> QED BY <1>4, <1>5, <1>6

\* The loop is back from an execution, with or without something to report.
LEMMA ResumeStep ==
    ASSUME IInv, TypeOK', NEW k \in Starts, Resume(k) \/ ReportFailure(k)
    PROVE  IInv'
  <1> USE DEF IInv, TypeOK
  <1>1. /\ loop[k] = "executing" /\ holds[k] \in Asks
        /\ UNCHANGED <<ask, inbox, held, answer, exec, holds>>
    BY DEF Resume, ReportFailure, LoopsApart
  <1>2. CASE Resume(k)
    <2>1. UNCHANGED <<outbox, parked, sent>>
      BY <1>2 DEF Resume
    <2>2. loop'[k] \in {"polling", "ended"} /\ loop' = [loop EXCEPT ![k] = loop'[k]]
      BY <1>2 DEF Resume, GoesRound
    <2>3. Settled /\ StillReplying /\ OutboxFromOutbox /\ HeldFromOutbox /\ AnswersFromHeld
      BY <1>1, <2>1 DEF Settled, StillReplying, OutboxFromOutbox, HeldFromOutbox, AnswersFromHeld
    <2>4. RepliesHonest'
      BY <2>1, <2>3, MovingKeepsHonest
    <2>5. LoopsApart'
      BY <1>1, <2>1, <2>2 DEF LoopsApart
    <2> QED BY <1>1, <2>1, <2>4, <2>5 DEF Untouched, InboxFresh, ReplyOnce
  <1>3. CASE ReportFailure(k)
    <2> DEFINE a == holds[k]
    <2>1. SendTo(a, "error", parked) /\ exec[a] = "failed" /\ sent[a] = 0
      BY <1>3 DEF ReportFailure, LoopsApart
    <2>2. sent' = [sent EXCEPT ![a] = 1]
      BY <2>1 DEF SendTo
    <2>3. loop'[k] \in {"erroring", "polling", "ended"} /\ loop' = [loop EXCEPT ![k] = loop'[k]]
      BY <1>3 DEF ReportFailure, GoesRound
    <2>4. Settled
      BY <1>1, <2>1, <2>2 DEF Settled
    <2>5. StillReplying
      BY <1>1 DEF StillReplying
    <2>6. Honest(a, "error", "done")' /\ Honest(a, "error", "replying")'
      BY <1>1, <2>1, <2>2 DEF Honest
    <2>7. RepliesHonest'
      <3>1. PICK b \in Asks : b = a
        BY <1>1
      <3>2. Honest(b, "error", "done")' /\ Honest(b, "error", "replying")'
        BY <1>1, <2>6, <3>1 DEF Honest
      <3>3. SendTo(b, "error", parked) /\ sent[b] = 0
        BY <2>1, <3>1
      <3> QED BY <1>1, <2>4, <2>5, <3>2, <3>3, SendingKeepsHonest DEF Outcomes
    <2>8. Untouched' /\ InboxFresh' /\ ReplyOnce'
      BY <1>1, <2>1, <2>2 DEF Untouched, InboxFresh, ReplyOnce
    <2>9. LoopsApart'
      BY <1>1, <2>1, <2>2, <2>3 DEF LoopsApart
    <2> QED BY <2>7, <2>8, <2>9
  <1> QED BY <1>2, <1>3

\* An execution ends.
LEMMA WorkStep ==
    ASSUME IInv, TypeOK', NEW a \in Asks, Finish(a) \/ Fail(a)
    PROVE  IInv'
  <1> USE DEF IInv, TypeOK
  <1>1. /\ exec[a] = "running" /\ sent[a] = 0
        /\ UNCHANGED <<ask, inbox, held, answer, loop, holds>>
    BY DEF Finish, Fail, Untouched
  <1>2. /\ ask[a] \notin {"idle", "sending", "acting"}
        /\ \A i \in 1 .. Len(inbox) : inbox[i] # a
    BY <1>1 DEF Untouched, InboxFresh
  <1>3. CASE Finish(a)
    <2>1. /\ SendTo(a, "result", parked)
          /\ exec' = [exec EXCEPT ![a] = IF Blocks THEN "replying" ELSE "done"]
      BY <1>3 DEF Finish
    <2>2. sent' = [sent EXCEPT ![a] = 1]
      BY <1>1, <2>1 DEF SendTo
    <2>3. Settled
      BY <1>1, <2>1, <2>2 DEF Settled
    <2>4. StillReplying
      BY <1>1, <2>1 DEF StillReplying, Envelopes
    <2>5. /\ ~Blocks => Honest(a, "result", "done")'
          /\ Blocks => Honest(a, "result", "replying")'
      BY <2>1, <2>2 DEF Honest
    <2>6. RepliesHonest'
      BY <1>1, <2>1, <2>3, <2>4, <2>5, SendingKeepsHonest DEF Outcomes
    <2>7. Untouched' /\ InboxFresh' /\ ReplyOnce'
      BY <1>1, <1>2, <2>1, <2>2 DEF Untouched, InboxFresh, ReplyOnce
    <2>8. LoopsApart'
      BY <1>1, <2>1, <2>2 DEF LoopsApart
    <2> QED BY <2>6, <2>7, <2>8
  <1>4. CASE Fail(a)
    <2>1. exec' = [exec EXCEPT ![a] = "failed"] /\ UNCHANGED <<outbox, parked, sent>>
      BY <1>4 DEF Fail
    <2>2. Settled
      BY <1>1, <2>1 DEF Settled
    <2>3. StillReplying /\ OutboxFromOutbox /\ HeldFromOutbox /\ AnswersFromHeld
      BY <1>1, <2>1 DEF StillReplying, OutboxFromOutbox, HeldFromOutbox, AnswersFromHeld
    <2>4. RepliesHonest'
      BY <2>1, <2>2, <2>3, MovingKeepsHonest
    <2>5. Untouched' /\ InboxFresh' /\ ReplyOnce'
      BY <1>1, <1>2, <2>1 DEF Untouched, InboxFresh, ReplyOnce
    <2>6. LoopsApart'
      BY <1>1, <2>1 DEF LoopsApart
    <2> QED BY <2>4, <2>5, <2>6
  <1> QED BY <1>3, <1>4

\* start() and stop(): envelopes are dropped, executions cancelled.
LEMMA HostStep ==
    ASSUME IInv, TypeOK', NEW h \in Hosts, Command(h) \/ Stopping(h)
    PROVE  IInv'
  <1> USE DEF IInv, TypeOK
  <1>1. UNCHANGED <<ask, inbox, answer, sent, holds>>
    BY DEF Command, Stopping, StartAgain, Start, Stop, StopChannel, StopEnds
  <1>2. ASSUME NEW s, StopPump(h, s) PROVE HeldFromOutbox /\ (outbox' = outbox \/ outbox' = <<>>)
    BY <1>2 DEF StopPump, Closed, HeldFromOutbox
  <1>3. HeldFromOutbox /\ (outbox' = outbox \/ outbox' = <<>>)
    <2>1. CASE Command(h)
      <3>1. CASE StartAgain(h) \/ Start(h)
        BY <3>1 DEF StartAgain, Start, HeldFromOutbox
      <3>2. CASE Stop(h)
        BY <1>2, <3>2 DEF Stop, HeldFromOutbox
      <3> QED BY <2>1, <3>1, <3>2 DEF Command
    <2>2. CASE Stopping(h)
      <3>1. CASE StopChannel(h)
        BY <1>2, <3>1 DEF StopChannel
      <3>2. CASE StopEnds(h)
        BY <3>2 DEF StopEnds, Closed, HeldFromOutbox
      <3> QED BY <2>2, <3>1, <3>2 DEF Stopping
    <2> QED BY <2>1, <2>2
  <1>4. OutboxFromOutbox /\ AnswersFromHeld
    BY <1>1, <1>3, NothingQueued DEF OutboxFromOutbox, AnswersFromHeld
  <1>5. CASE ~Stop(h)
    <2>1. UNCHANGED <<parked, exec>>
      BY <1>5 DEF Command, Stopping, StartAgain, Start, StopChannel, StopEnds
    <2>2. Settled /\ StillReplying
      BY <1>1, <2>1 DEF Settled, StillReplying
    <2>3. RepliesHonest'
      BY <1>3, <1>4, <2>1, <2>2, MovingKeepsHonest
    <2>4. loop' = loop \/ \E k \in Starts : loop' = [loop EXCEPT ![k] = "polling"]
      <3>1. ASSUME Start(h) PROVE starts' \in Starts /\ loop' = [loop EXCEPT ![starts'] = "polling"]
        BY <3>1, SizeAssumption DEF Start, Starts
      <3> QED
        BY <1>5, <3>1 DEF Command, Stopping, StartAgain, StopChannel, StopEnds
    <2>5. LoopsApart'
      BY <1>1, <2>1, <2>4 DEF LoopsApart
    <2> QED BY <1>1, <2>1, <2>3, <2>5 DEF Untouched, InboxFresh, ReplyOnce
  <1>6. CASE Stop(h)
    <2>1. CancelWork
      BY <1>6 DEF Stop
    <2>2. PICK victims \in SUBSET Asks :
            /\ \A b \in victims : \/ Alive(b)
                                  \/ exec[b] = "failed" /\ sent[b] = 0
            /\ exec' = [b \in Asks |-> IF b \in victims THEN "cancelled" ELSE exec[b]]
            /\ parked' \subseteq {e \in parked : e.to \notin victims}
      <3> DEFINE k == loopTask
                 a == IF k # NoTask THEN holds[k] ELSE NoAsk
                 executing == k # NoTask /\ loop[k] = "executing"
                 V == {b \in Asks :
                         \/ b = inFlight /\ Alive(b)
                         \/ executing /\ b = a /\ (Alive(b) \/ exec[b] = "failed")}
      <3>1. /\ exec' = [b \in Asks |-> IF b \in V THEN "cancelled" ELSE exec[b]]
            /\ parked' \subseteq {e \in parked : e.to \notin V}
        BY <2>1 DEF CancelWork
      <3>2. ASSUME NEW b \in V, exec[b] = "failed" PROVE sent[b] = 0
        <4>1. k \in Starts /\ loop[k] = "executing" /\ b = holds[k]
          BY <3>2 DEF Alive
        <4>2. LoopsApart
          OBVIOUS
        <4> QED BY <3>2, <4>1, <4>2 DEF LoopsApart
      <3>3. \A b \in V : Alive(b) \/ exec[b] = "failed"
        OBVIOUS
      <3>4. V \in SUBSET Asks
        OBVIOUS
      <3> HIDE DEF V, IInv, TypeOK
      <3> QED BY <3>1, <3>2, <3>3, <3>4
    <2>3. \A k \in Starts : loop'[k] = loop[k] \/ loop'[k] = "ended"
      BY <2>1 DEF CancelWork
    <2>4. Settled
      <3>1. ASSUME NEW b \in Asks, sent[b] > 0, exec[b] \in {"none", "done", "failed"}
            PROVE  exec'[b] = exec[b]
        <4>1. ~Alive(b) /\ sent[b] # 0
          BY <3>1 DEF Alive
        <4>2. b \in victims => Alive(b) \/ sent[b] = 0
          <5> HIDE DEF IInv, TypeOK
          <5> QED BY <2>2
        <4>3. b \notin victims
          BY <4>1, <4>2
        <4> QED BY <2>2, <4>3
      <3>2. \A b \in Asks : sent'[b] >= sent[b]
        BY <1>1
      <3> HIDE DEF IInv, TypeOK
      <3> QED BY <3>1, <3>2 DEF Settled
    <2>5. StillReplying /\ parked' \subseteq parked
      BY <2>2 DEF StillReplying, Envelopes
    <2>6. RepliesHonest'
      <3> HIDE DEF IInv, TypeOK
      <3> QED BY <1>3, <1>4, <2>4, <2>5, MovingKeepsHonest
    <2>7. \A b \in Asks :
            /\ exec[b] = "none" => exec'[b] = "none"
            /\ exec'[b] = "none" => exec[b] = "none"
            /\ exec'[b] = "running" => exec[b] = "running"
            /\ exec'[b] = "failed" => exec[b] = "failed"
            /\ exec[b] = "failed" => sent[b] = 0 \/ exec'[b] = "failed"
      BY <2>2 DEF Alive
    <2>8. Untouched' /\ InboxFresh' /\ ReplyOnce'
      BY <1>1, <2>7 DEF Untouched, InboxFresh, ReplyOnce
    <2>9. LoopsApart'
      BY <1>1, <2>3, <2>7 DEF LoopsApart
    <2> QED BY <2>6, <2>8, <2>9
  <1> QED BY <1>5, <1>6

LEMMA InvInit == Init => IInv
  <1> SUFFICES ASSUME Init PROVE IInv
    OBVIOUS
  <1>1. TypeOK
    BY TypeInit
  <1>2. Untouched /\ InboxFresh /\ ReplyOnce
    BY NothingQueued DEF Init, Untouched, InboxFresh, ReplyOnce
  <1>3. LoopsApart
    BY DEF Init, LoopsApart
  <1>4. RepliesHonest
    BY NothingQueued DEF Init, RepliesHonest
  <1> QED BY <1>1, <1>2, <1>3, <1>4 DEF IInv

LEMMA InvNext == IInv /\ [Next]_vars => IInv'
  <1> SUFFICES ASSUME IInv, [Next]_vars PROVE IInv'
    OBVIOUS
  <1>1. TypeOK'
    BY TypeNext DEF IInv
  <1>2. CASE UNCHANGED vars
    BY <1>2 DEF vars, IInv, TypeOK, Untouched, InboxFresh, LoopsApart, RepliesHonest,
                Honest, ReplyOnce
  <1>3. ASSUME NEW a \in Asks, Send(a) \/ Await(a) \/ Work(a) PROVE IInv'
    <2>1. CASE Enqueue(a) \/ AwaitInbox(a) \/ Dispatch(a) \/ Await(a)
      BY <1>1, <2>1, ClientStep DEF Await
    <2>2. CASE ActionEnds(a) \/ AnswerInline(a) \/ Interrupt(a)
      BY <1>1, <2>2, SenderStep
    <2>3. CASE SenderUnblocks(a) \/ ResultUnblocks(a)
      BY <1>1, <2>3, UnparkStep
    <2>4. CASE Finish(a) \/ Fail(a)
      BY <1>1, <2>4, WorkStep
    <2> QED BY <1>3, <2>1, <2>2, <2>3, <2>4 DEF Send, Work
  <1>4. ASSUME NEW k \in Starts, Pump(k) \/ Loop(k) PROVE IInv'
    <2>1. CASE Pump(k)
      BY <1>1, <2>1, PumpStep
    <2>2. CASE Discard(k) \/ Refuse(k) \/ Execute(k)
      BY <1>1, <2>2, PollStep
    <2>3. CASE Resume(k) \/ ReportFailure(k)
      BY <1>1, <2>3, ResumeStep
    <2>4. CASE ErrorUnblocks(k)
      BY <1>1, <2>4, UnparkStep
    <2> QED BY <1>4, <2>1, <2>2, <2>3, <2>4 DEF Loop
  <1>5. ASSUME NEW h \in Hosts, Command(h) \/ Stopping(h) PROVE IInv'
    BY <1>1, <1>5, HostStep
  <1> QED BY <1>2, <1>3, <1>4, <1>5 DEF Next

\* IInv holds of every reachable state: the basis of the theorems below.
THEOREM TransportInvariant == Spec => []IInv
  BY InvInit, InvNext, PTL DEF Spec

----------------------------------------------------------------------------
(* Theorems *)

\* The queues of the channel keep within their bounds and every variable has
\* its type, whatever blocks, is cancelled or is restarted.
THEOREM TransportTypeCorrect == Spec => []TypeOK
  BY TransportInvariant, PTL DEF IInv

\* No interleaving of refusals, failures, interrupts, stops, restarts and
\* blocked sends replies to a request twice.
THEOREM RepliesAreSingle == Spec => []ReplyOnce
  BY TransportInvariant, PTL DEF IInv

\* What a client reads in the answer of its prompt is what became of the
\* execution, though the envelope was parked, queued and pumped meanwhile.
THEOREM AnswersAreHonest == Spec => []HonestAnswers
  <1>1. IInv => HonestAnswers
    BY DEF IInv, RepliesHonest, Honest, HonestAnswers
  <1> QED BY <1>1, TransportInvariant, PTL

----------------------------------------------------------------------------
(* The inductive invariant of an agent whose hosts take turns *)

\* An execution that can still be cancelled is the one in flight, and the one
\* loop that lives awaits it.
FlightTracked ==
    /\ \A a \in Asks : Alive(a) =>
         /\ inFlight = a
         /\ \E k \in Starts : loop[k] = "executing" /\ holds[k] = a
    /\ \A j, k \in LiveLoops : j = k

Quiet == LiveLoops = {} /\ inFlight = NoAsk /\ \A a \in Asks : ~Alive(a)

\* What each phase of the host leaves of the agent.
Down == /\ status \in {"INIT", "STOPPED"} /\ ~chanUp /\ pumps = {} /\ pumpTask = NoTask
        /\ loopTask = NoTask /\ Quiet
Up   == /\ status = "RUNNING" /\ chanUp /\ pumps = {pumpTask} /\ pumpTask \in Starts
        /\ LiveLoops = {loopTask}
Joining(k) ==
    /\ status = "STOPPING" /\ chanUp /\ pumps = {pumpTask} /\ pumpTask \in Starts
    /\ loopTask = NoTask /\ inFlight = NoAsk /\ k \in Starts
    /\ \A j \in LiveLoops : j = k /\ loop[k] = "executing" /\ exec[holds[k]] \in {"done", "cancelled"}
    /\ \A a \in Asks : ~Alive(a)
Draining == status = "STOPPING" /\ pumps = {} /\ loopTask = NoTask /\ Quiet

AllIdle == \A h \in Hosts : host[h] = "idle"
HostPhase ==
    /\ \A g, h \in Hosts : host[g] = "idle" \/ host[h] = "idle" \/ g = h
    /\ AllIdle => IF started THEN Up ELSE Down
    /\ \A h \in Hosts :
         /\ host[h] = "joining" => Joining(joins[h])
         /\ host[h] = "draining" => Draining

HInv == FlightTracked /\ HostPhase

\* What HInv is about.
Control == <<exec, inFlight, loop, loopTask, holds, status, started, chanUp, pumps, pumpTask,
             host, joins>>

LEMMA ControlStays ==
    ASSUME HInv, UNCHANGED Control
    PROVE  HInv'
  <1>1. UNCHANGED <<exec, inFlight, loop, loopTask, holds, status, started, chanUp, pumps,
                    pumpTask, host, joins>>
    BY DEF Control
  <1>2. LiveLoops' = LiveLoops /\ \A a \in Asks : Alive(a)' <=> Alive(a)
    BY <1>1 DEF LiveLoops, Alive
  <1>3. FlightTracked'
    BY <1>1, <1>2 DEF HInv, FlightTracked
  <1>4. HostPhase'
    BY <1>1, <1>2 DEF HInv, HostPhase, AllIdle, Down, Up, Joining, Draining, Quiet
  <1> QED BY <1>3, <1>4 DEF HInv

\* An execution goes on or ends, and none begins.
LEMMA ExecutionGoesOn ==
    ASSUME HInv,
           UNCHANGED <<inFlight, loop, loopTask, holds, status, started, chanUp, pumps,
                       pumpTask, host, joins>>,
           \A a \in Asks : exec'[a] \in {"running", "replying"} => Alive(a),
           \A k \in Starts : exec[holds[k]] \in {"done", "cancelled"} =>
                                exec'[holds[k]] \in {"done", "cancelled"}
    PROVE  HInv'
  <1>1. LiveLoops' = LiveLoops /\ \A a \in Asks : Alive(a)' => Alive(a)
    BY DEF LiveLoops, Alive
  <1>2. FlightTracked'
    BY <1>1 DEF HInv, FlightTracked
  <1>3. HostPhase'
    <2>1. Up => Up'
      BY <1>1 DEF Up
    <2>2. Quiet => Quiet'
      BY <1>1 DEF Quiet
    <2>3. (Down => Down') /\ (Draining => Draining')
      BY <2>2 DEF Down, Draining
    <2>4. \A h \in Hosts : Joining(joins[h]) => Joining(joins[h])'
      BY <1>1 DEF Joining
    <2> QED BY <2>1, <2>3, <2>4 DEF HInv, HostPhase, AllIdle
  <1> QED BY <1>2, <1>3 DEF HInv

\* While a loop polls or reports, the agent is up.
LEMMA LiveMeansUp ==
    ASSUME TypeOK, HInv, LiveLoops # {},
           \A h \in Hosts : host[h] = "joining" => ~Joining(joins[h])
    PROVE  AllIdle /\ started /\ Up
  <1>1. \A h \in Hosts : host[h] \in {"idle", "joining", "draining"}
    BY DEF TypeOK
  <1>2. ~Down /\ ~Draining
    BY DEF Down, Draining, Quiet
  <1>3. \A h \in Hosts :
            /\ host[h] = "joining" => Joining(joins[h])
            /\ host[h] = "draining" => Draining
    BY DEF HInv, HostPhase
  <1>4. AllIdle
    BY <1>1, <1>2, <1>3 DEF AllIdle, Joining
  <1> QED BY <1>2, <1>4 DEF HInv, HostPhase

LEMMA PollingMeansUp ==
    ASSUME TypeOK, HInv, NEW k \in Starts, loop[k] \in {"polling", "erroring"}
    PROVE  AllIdle /\ started /\ Up
  <1>1. k \in LiveLoops
    BY DEF LiveLoops
  <1>2. \A j : ~Joining(j)
    BY <1>1 DEF Joining
  <1> QED BY <1>1, <1>2, LiveMeansUp

\* The loop that lives awaits what can still be cancelled.
LEMMA OnlyAwaited ==
    ASSUME HInv, NEW k \in LiveLoops,
           loop[k] = "executing" => exec[holds[k]] \notin {"running", "replying"}
    PROVE  \A a \in Asks : ~Alive(a)
  BY DEF HInv, FlightTracked, LiveLoops, Alive

\* The loop goes round, with nothing to await.
LEMMA RoundKeeps ==
    ASSUME TypeOK, HInv, NEW k \in LiveLoops, GoesRound(k), \A a \in Asks : ~Alive(a),
           inFlight' \in {NoAsk, inFlight},
           UNCHANGED <<exec, holds, status, started, chanUp, pumps, pumpTask, host, joins>>
    PROVE  HInv'
  <1>1. \A a \in Asks : ~Alive(a)'
    BY DEF Alive
  <1>2. k \in Starts /\ \A j \in LiveLoops : j = k
    BY DEF HInv, FlightTracked, LiveLoops
  <1>3. CASE status = "RUNNING"
    <2>1. loop' = [loop EXCEPT ![k] = "polling"] /\ loopTask' = loopTask
      BY <1>3 DEF GoesRound
    <2>2. LiveLoops' = LiveLoops
      BY <1>2, <2>1 DEF LiveLoops, TypeOK
    <2>3. FlightTracked'
      BY <1>1, <1>2, <2>2 DEF FlightTracked
    <2>4. AllIdle /\ started /\ Up
      BY <1>3, LiveMeansUp DEF Joining
    <2>5. Up'
      BY <2>1, <2>2, <2>4 DEF Up
    <2> QED BY <2>3, <2>4, <2>5 DEF HInv, HostPhase, AllIdle
  <1>4. CASE status # "RUNNING"
    <2>1. loop' = [loop EXCEPT ![k] = "ended"] /\ loopTask' = NoTask
      BY <1>4 DEF GoesRound
    <2>2. LiveLoops' = {}
      BY <1>2, <2>1 DEF LiveLoops, TypeOK
    <2>3. FlightTracked'
      BY <1>1, <2>2 DEF FlightTracked
    <2>4. \A h \in Hosts : Joining(joins[h]) => Joining(joins[h])'
      BY <1>1, <2>1, <2>2 DEF Joining
    <2>5. ~Up /\ ~Down /\ ~Draining
      BY <1>2, <1>4 DEF Up, Down, Draining, Quiet
    <2> QED BY <2>3, <2>4, <2>5 DEF HInv, HostPhase, AllIdle
  <1> QED BY <1>3, <1>4

LEMMA LoopKeeps ==
    ASSUME TypeOK, LoopsApart, HInv, NEW k \in Starts, Loop(k)
    PROVE  HInv'
  <1>0. loop[k] \in {"polling", "executing", "erroring"} /\ k \in LiveLoops
    BY DEF Loop, Discard, Refuse, Execute, Resume, ReportFailure, ErrorUnblocks, LiveLoops
  <1>1. CASE Discard(k)
    BY <1>0, <1>1, RoundKeeps, OnlyAwaited DEF Discard
  <1>2. CASE Resume(k)
    BY <1>0, <1>2, RoundKeeps, OnlyAwaited DEF Resume
  <1>3. CASE ErrorUnblocks(k)
    BY <1>0, <1>3, RoundKeeps, OnlyAwaited DEF ErrorUnblocks
  <1>4. CASE ReportFailure(k) /\ ~Blocks
    BY <1>0, <1>4, RoundKeeps, OnlyAwaited DEF ReportFailure
  <1>5. CASE Refuse(k) \/ (ReportFailure(k) /\ Blocks)
    <2>1. /\ \E p \in {"polling", "erroring"} : loop' = [loop EXCEPT ![k] = p]
          /\ UNCHANGED <<exec, inFlight, loopTask, status, started, chanUp, pumps, pumpTask,
                         host, joins>>
      BY <1>5 DEF Refuse, ReportFailure
    <2>2. \A a \in Asks : ~Alive(a)
      BY <1>0, <1>5, OnlyAwaited DEF Refuse, ReportFailure
    <2>3. LiveLoops' = LiveLoops
      BY <1>0, <2>1 DEF LiveLoops, TypeOK
    <2>4. FlightTracked'
      BY <2>1, <2>2, <2>3 DEF HInv, FlightTracked, Alive
    <2>5. AllIdle /\ started /\ Up
      <3>1. CASE loop[k] # "executing"
        BY <1>0, <3>1, PollingMeansUp
      <3>2. CASE loop[k] = "executing"
        <4>1. exec[holds[k]] = "failed"
          BY <1>5, <3>2 DEF Refuse, ReportFailure
        <4>2. \A j : ~Joining(j)
          BY <1>0, <4>1 DEF Joining
        <4> QED BY <1>0, <4>2, LiveMeansUp
      <3> QED BY <3>1, <3>2
    <2>6. Up'
      BY <2>1, <2>3, <2>5 DEF Up
    <2> QED BY <2>1, <2>4, <2>5, <2>6 DEF HInv, HostPhase, AllIdle
  <1>6. CASE Execute(k)
    <2>1. PICK a \in Asks : /\ exec' = [exec EXCEPT ![a] = "running"]
                            /\ holds' = [holds EXCEPT ![k] = a] /\ inFlight' = a
      <3>1. Head(inbox) \in Asks
        BY <1>6 DEF Execute, TypeOK
      <3> QED BY <1>6, <3>1 DEF Execute
    <2>2. \A b \in Asks : ~Alive(b)
      BY <1>0, <1>6, OnlyAwaited DEF Execute
    <2>3. loop' = [loop EXCEPT ![k] = "executing"]
      BY <1>6 DEF Execute
    <2>4. LiveLoops' = LiveLoops
      BY <1>0, <2>3 DEF LiveLoops, TypeOK
    <2>5. \A b \in Asks : Alive(b)' => b = a
      BY <2>1, <2>2 DEF Alive, TypeOK
    <2>6. loop'[k] = "executing" /\ holds'[k] = a
      BY <2>1, <2>3 DEF TypeOK
    <2>7. FlightTracked'
      BY <2>1, <2>4, <2>5, <2>6 DEF HInv, FlightTracked
    <2>8. AllIdle /\ started /\ Up
      BY <1>6, PollingMeansUp DEF Execute
    <2>9. UNCHANGED <<loopTask, status, started, chanUp, pumps, pumpTask, host>>
      BY <1>6 DEF Execute
    <2>10. Up'
      BY <2>4, <2>8, <2>9 DEF Up
    <2> QED BY <2>7, <2>8, <2>9, <2>10 DEF HInv, HostPhase, AllIdle
  <1> QED BY <1>1, <1>2, <1>3, <1>4, <1>5, <1>6 DEF Loop

\* What one host does while the others are idle.
Alone(h) == \A g \in Hosts \ {h} : host[g] = "idle"

LEMMA OnePhase ==
    ASSUME TypeOK, NEW h \in Hosts, Alone(h), NEW p, host' = [host EXCEPT ![h] = p]
    PROVE  host'[h] = p /\ \A g \in Hosts : g # h => host'[g] = "idle"
  BY DEF Alone, TypeOK

LEMMA StartKeeps ==
    ASSUME TypeOK, HInv, AllIdle, NEW h \in Hosts, Start(h) \/ StartAgain(h)
    PROVE  HInv'
  <1>1. CASE StartAgain(h)
    <2>1. Up
      BY <1>1 DEF StartAgain, HInv, HostPhase
    <2>2. UNCHANGED Control
      BY <1>1, <2>1 DEF StartAgain, Up, Control
    <2> QED BY <2>2, ControlStays
  <1>2. CASE Start(h)
    <2>1. Down
      BY <1>2 DEF Start, HInv, HostPhase
    <2>2. PICK k \in Starts : k = starts + 1
      <3>1. starts \in 0 .. MaxStarts /\ starts < MaxStarts
        BY <1>2 DEF Start, TypeOK
      <3> QED BY <3>1, SizeAssumption DEF Starts
    <2>3. /\ loop' = [loop EXCEPT ![k] = "polling"] /\ loopTask' = k /\ pumps' = {k}
          /\ pumpTask' = k /\ chanUp' = TRUE /\ started' = TRUE /\ status' = "RUNNING"
          /\ UNCHANGED <<exec, inFlight, holds, host, joins>>
      <3>1. starts' = k /\ ~chanUp /\ pumps = {}
        BY <1>2, <2>1, <2>2 DEF Start, Down
      <3> QED BY <1>2, <3>1 DEF Start
    <2>4. LiveLoops' = {k}
      BY <2>1, <2>3 DEF Down, Quiet, LiveLoops, TypeOK
    <2>5. \A a \in Asks : ~Alive(a)'
      BY <2>1, <2>3 DEF Down, Quiet, Alive
    <2>6. FlightTracked'
      BY <2>4, <2>5 DEF FlightTracked
    <2>7. Up'
      BY <2>3, <2>4 DEF Up
    <2>8. AllIdle'
      BY <2>3 DEF AllIdle
    <2> QED BY <2>3, <2>6, <2>7, <2>8 DEF HInv, HostPhase, AllIdle
  <1> QED BY <1>1, <1>2

\* The channel is closed behind an agent in which nothing runs.
LEMMA ClosedKeeps ==
    ASSUME TypeOK, NEW h \in Hosts, Alone(h), Closed(h), Quiet', pumps' = {}, loopTask' = NoTask
    PROVE  HInv'
  <1>1. AllIdle'
    BY OnePhase DEF Closed, AllIdle
  <1>2. Down' /\ ~started'
    BY DEF Closed, Down
  <1>3. FlightTracked'
    BY DEF Quiet, FlightTracked
  <1> QED BY <1>1, <1>2, <1>3 DEF HInv, HostPhase, AllIdle

\* The pump is cancelled, and awaited if there was one.
LEMMA StopPumpKeeps ==
    ASSUME TypeOK, NEW h \in Hosts, Alone(h), StopPump(h, "STOPPING"), Quiet',
           loopTask' = NoTask, pumps \subseteq {pumpTask}
    PROVE  HInv'
  <1>1. CASE pumpTask \in pumps
    <2>1. pumps' = {} /\ status' = "STOPPING" /\ host' = [host EXCEPT ![h] = "draining"]
      BY <1>1 DEF StopPump
    <2>2. Draining'
      BY <2>1 DEF Draining
    <2>3. FlightTracked'
      BY DEF Quiet, FlightTracked
    <2>4. host'[h] = "draining" /\ \A g \in Hosts : g # h => host'[g] = "idle"
      BY <2>1, OnePhase
    <2> QED BY <2>2, <2>3, <2>4 DEF HInv, HostPhase, AllIdle
  <1>2. CASE pumpTask \notin pumps
    <2>1. pumps' = {} /\ Closed(h)
      BY <1>2 DEF StopPump
    <2> QED BY <2>1, ClosedKeeps
  <1> QED BY <1>1, <1>2

LEMMA StopKeeps ==
    ASSUME TypeOK, LoopsApart, HInv, AllIdle, NEW h \in Hosts, Stop(h)
    PROVE  HInv'
  <1>0. CancelWork /\ holds' = holds /\ Alone(h)
    BY DEF Stop, Alone, AllIdle
  <1>1. inFlight' = NoAsk /\ loopTask' = NoTask
    BY <1>0 DEF CancelWork
  <1>2. \A a \in Asks : ~Alive(a)'
    <2>1. \A a \in Asks : Alive(a) => exec'[a] = "cancelled"
      BY <1>0 DEF CancelWork, HInv, FlightTracked
    <2>2. \A a \in Asks : exec'[a] \in {exec[a], "cancelled"}
      BY <1>0 DEF CancelWork
    <2> QED BY <2>1, <2>2 DEF Alive
  <1>3. CASE started
    <2>1. Up
      BY <1>0, <1>3 DEF HInv, HostPhase
    <2>2. PICK k \in Starts : k = loopTask /\ LiveLoops = {k} /\ loopTask # NoTask
      BY <2>1, SizeAssumption DEF Up, LiveLoops, Starts, NoTask
    <2>3. /\ status' = "STOPPING" /\ host' = [host EXCEPT ![h] = "joining"]
          /\ joins' = [joins EXCEPT ![h] = k] /\ UNCHANGED <<chanUp, pumps, pumpTask>>
      BY <2>2 DEF Stop
    <2>4. \A j \in Starts : loop'[j] = IF j = k /\ loop[k] # "executing" THEN "ended" ELSE loop[j]
      BY <1>0, <2>2 DEF CancelWork
    <2>5. \A j \in LiveLoops' : j = k /\ loop'[k] = "executing" /\ loop[k] = "executing"
      BY <2>2, <2>4 DEF LiveLoops
    <2>6. loop[k] = "executing" => exec'[holds[k]] \in {"done", "cancelled"}
      <3> SUFFICES ASSUME loop[k] = "executing" PROVE exec'[holds[k]] \in {"done", "cancelled"}
        OBVIOUS
      <3>1. holds[k] \in Asks /\ exec[holds[k]] # "none"
        BY DEF LoopsApart
      <3>2. exec[holds[k]] \in {"running", "replying", "done", "failed", "cancelled"}
        BY <3>1 DEF TypeOK, ExecPhases
      <3>3. exec[holds[k]] \in {"running", "replying", "failed"} => exec'[holds[k]] = "cancelled"
        BY <1>0, <2>2, <3>1 DEF CancelWork, Alive
      <3>4. exec'[holds[k]] \in {exec[holds[k]], "cancelled"}
        BY <1>0, <3>1 DEF CancelWork
      <3> QED BY <3>2, <3>3, <3>4
    <2>7. Joining(k)'
      BY <1>0, <1>1, <1>2, <2>1, <2>3, <2>5, <2>6, Zenon DEF Joining, Up
    <2>8. /\ host'[h] = "joining" /\ joins'[h] = k
          /\ \A g \in Hosts : g # h => host'[g] = "idle"
      BY <1>0, <2>3, OnePhase DEF TypeOK
    <2>9. FlightTracked'
      BY <1>2, <2>5 DEF FlightTracked
    <2> QED BY <2>7, <2>8, <2>9 DEF HInv, HostPhase, AllIdle
  <1>4. CASE ~started
    <2>1. Down
      BY <1>0, <1>4 DEF HInv, HostPhase
    <2>2. loopTask = NoTask /\ pumps = {} /\ StopPump(h, "STOPPING")
      BY <2>1 DEF Down, Stop
    <2>3. LiveLoops' = {}
      BY <1>0, <2>1, <2>2 DEF CancelWork, LiveLoops, Down, Quiet
    <2>4. Quiet'
      BY <1>1, <1>2, <2>3 DEF Quiet
    <2> QED BY <1>0, <1>1, <2>2, <2>4, StopPumpKeeps
  <1> QED BY <1>3, <1>4

LEMMA StoppingKeeps ==
    ASSUME TypeOK, HInv, NEW h \in Hosts, Stopping(h)
    PROVE  HInv'
  <1>0. Alone(h)
    BY DEF HInv, HostPhase, Stopping, StopChannel, StopEnds, Alone
  <1>1. CASE StopChannel(h)
    <2>0. host[h] = "joining" /\ loop[joins[h]] = "ended" /\ StopPump(h, status)
      BY <1>1 DEF StopChannel
    <2>1. Joining(joins[h]) /\ loop[joins[h]] = "ended" /\ StopPump(h, status)
      BY <2>0 DEF HInv, HostPhase, Joining
    <2>2. UNCHANGED <<loop, loopTask, inFlight, exec>>
      BY <1>1 DEF StopChannel
    <2>3. LiveLoops = {} /\ pumps \subseteq {pumpTask} /\ status = "STOPPING"
      BY <2>1 DEF Joining
    <2>4. Quiet' /\ loopTask' = NoTask
      BY <2>1, <2>2, <2>3 DEF Joining, Quiet, LiveLoops, Alive
    <2> QED BY <1>0, <2>1, <2>3, <2>4, StopPumpKeeps
  <1>2. CASE StopEnds(h)
    <2>1. Draining
      BY <1>2 DEF StopEnds, HInv, HostPhase
    <2>2. UNCHANGED <<loop, loopTask, inFlight, exec, pumps>> /\ Closed(h)
      BY <1>2 DEF StopEnds
    <2>3. Quiet'
      BY <2>1, <2>2 DEF Draining, Quiet, LiveLoops, Alive
    <2> QED BY <1>0, <2>1, <2>2, <2>3, ClosedKeeps DEF Draining
  <1> QED BY <1>1, <1>2 DEF Stopping

\* Once crowded, always crowded.
LEMMA CrowdedStays ==
    ASSUME TypeOK, crowded, [Next]_vars
    PROVE  crowded'
  <1>1. CASE \E h \in Hosts : Command(h)
    BY <1>1 DEF Command, StartAgain, Start, Stop, Calls
  <1>2. CASE \/ UNCHANGED vars
             \/ \E a \in Asks : Send(a) \/ Await(a) \/ Work(a)
             \/ \E k \in Starts : Pump(k) \/ Loop(k)
             \/ \E h \in Hosts : Stopping(h)
    <2>1. crowded' = crowded
      BY <1>2 DEF vars, Send, Enqueue, AwaitInbox, Dispatch, ActionEnds, AnswerInline, Interrupt,
          SenderUnblocks, SenderReplies, Await, Return, TimeOut, Work, Finish, ResultUnblocks, Fail,
          Pump, PumpTakes, Deliver, ReceiverFails, Loop, Discard, Refuse, Execute, Resume,
          ReportFailure, ErrorUnblocks, Stopping, StopChannel, StopEnds
    <2> QED BY <2>1
  <1> QED BY <1>1, <1>2 DEF Next

LEMMA HInvNext ==
    ASSUME TypeOK, LoopsApart, ~crowded => HInv, [Next]_vars
    PROVE  ~crowded' => HInv'
  <1> SUFFICES ASSUME ~crowded' PROVE HInv'
    OBVIOUS
  <1>0. HInv
    BY CrowdedStays
  <1>1. CASE UNCHANGED vars
    BY <1>0, <1>1, ControlStays DEF vars, Control
  <1>2. ASSUME NEW a \in Asks, Send(a) PROVE HInv'
    <2>1. CASE Interrupt(a) /\ inFlight # NoAsk /\ Alive(inFlight)
      <3>1. exec' = [exec EXCEPT ![inFlight] = "cancelled"]
        BY <2>1 DEF Interrupt
      <3>2. UNCHANGED <<inFlight, loop, loopTask, holds, status, started, chanUp, pumps,
                        pumpTask, host, joins>>
        BY <2>1 DEF Interrupt, SenderReplies
      <3>3. /\ \A b \in Asks : exec'[b] \in {"running", "replying"} => Alive(b)
            /\ \A b : exec[b] \in {"done", "cancelled"} => exec'[b] \in {"done", "cancelled"}
        BY <2>1, <3>1 DEF Alive, TypeOK
      <3> QED BY <1>0, <3>2, <3>3, ExecutionGoesOn
    <2>2. CASE \/ Interrupt(a) /\ ~(inFlight # NoAsk /\ Alive(inFlight))
               \/ Enqueue(a) \/ AwaitInbox(a) \/ Dispatch(a) \/ ActionEnds(a)
               \/ AnswerInline(a) \/ SenderUnblocks(a)
      <3>1. UNCHANGED Control
        BY <2>2 DEF Interrupt, Enqueue, AwaitInbox, Dispatch, ActionEnds, AnswerInline,
            SenderUnblocks, SenderReplies, Control
      <3> QED BY <1>0, <3>1, ControlStays
    <2> QED BY <1>2, <2>1, <2>2 DEF Send
  <1>3. ASSUME NEW a \in Asks, Await(a) PROVE HInv'
    BY <1>0, <1>3, ControlStays DEF Await, Return, TimeOut, Control
  <1>4. ASSUME NEW a \in Asks, Work(a) PROVE HInv'
    <2>1. PICK p \in ExecPhases : exec' = [exec EXCEPT ![a] = p]
      BY <1>4 DEF Work, Finish, ResultUnblocks, Fail, ExecPhases
    <2>2. Alive(a)
      BY <1>4 DEF Work, Finish, ResultUnblocks, Fail, Alive
    <2>3. UNCHANGED <<inFlight, loop, loopTask, holds, status, started, chanUp, pumps,
                      pumpTask, host, joins>>
      BY <1>4 DEF Work, Finish, ResultUnblocks, Fail
    <2>4. /\ \A b \in Asks : exec'[b] \in {"running", "replying"} => Alive(b)
          /\ \A b : exec[b] \in {"done", "cancelled"} => exec'[b] \in {"done", "cancelled"}
      BY <2>1, <2>2 DEF Alive, TypeOK
    <2> QED BY <1>0, <2>3, <2>4, ExecutionGoesOn
  <1>5. ASSUME NEW k \in Starts, Pump(k) PROVE HInv'
    BY <1>0, <1>5, ControlStays DEF Pump, PumpTakes, Deliver, ReceiverFails, Control
  <1>6. ASSUME NEW k \in Starts, Loop(k) PROVE HInv'
    BY <1>0, <1>6, LoopKeeps
  <1>7. ASSUME NEW h \in Hosts, Command(h) PROVE HInv'
    <2>1. AllIdle
      BY <1>7 DEF Command, StartAgain, Start, Stop, Calls, AllIdle
    <2> QED BY <1>0, <1>7, <2>1, StartKeeps, StopKeeps DEF Command
  <1>8. ASSUME NEW h \in Hosts, Stopping(h) PROVE HInv'
    BY <1>0, <1>8, StoppingKeeps
  <1> QED BY <1>1, <1>2, <1>3, <1>4, <1>5, <1>6, <1>7, <1>8 DEF Next

\* As long as hosts take turns the agent executes one request at a time, an
\* interrupt reaches it, and between two calls the status is the truth, for any
\* number of hosts, clients and restarts (start, stop, interrupt and the loop of
\* BaseAgent).
THEOREM HostsStayInControl == Spec => []HostsInControl
  <1>1. Init => HInv
    <2> SUFFICES ASSUME Init PROVE HInv
      OBVIOUS
    <2>1. LiveLoops = {} /\ \A a \in Asks : ~Alive(a)
      BY DEF Init, LiveLoops, Alive
    <2>2. FlightTracked
      BY <2>1 DEF FlightTracked
    <2>3. Down /\ ~started /\ AllIdle
      BY <2>1 DEF Init, Down, Quiet, AllIdle
    <2> QED BY <2>2, <2>3 DEF HInv, HostPhase, AllIdle
  <1>2. TypeOK /\ LoopsApart /\ (~crowded => HInv) /\ [Next]_vars => (~crowded' => HInv')
    BY HInvNext
  <1>3. HInv => OneExecution /\ InterruptReaches
    BY DEF HInv, FlightTracked, OneExecution, InterruptReaches
  <1>4. TypeOK /\ HInv => StatusIsTrue
    <2> SUFFICES ASSUME TypeOK, HInv, AllIdle
                 PROVE  /\ status = "RUNNING" =>
                             /\ started /\ chanUp
                             /\ LiveLoops = {loopTask} /\ pumps = {pumpTask}
                        /\ status \in {"INIT", "STOPPED"} =>
                             /\ ~started /\ ~chanUp
                             /\ LiveLoops = {} /\ pumps = {}
                             /\ \A a \in Asks : ~Alive(a)
      BY DEF StatusIsTrue, AllIdle
    <2>1. IF started THEN Up ELSE Down
      BY DEF HInv, HostPhase
    <2>2. CASE started
      BY <2>1, <2>2 DEF Up
    <2>3. CASE ~started
      BY <2>1, <2>3 DEF Down, Quiet
    <2> QED BY <2>2, <2>3
  <1>5. TypeOK /\ (~crowded => HInv) => HostsInControl
    BY <1>3, <1>4 DEF HostsInControl
  <1>6. IInv => TypeOK /\ LoopsApart
    BY DEF IInv
  <1> QED BY TransportInvariant, <1>1, <1>2, <1>5, <1>6, PTL DEF Spec
=============================================================================
