-------------------------- MODULE MCTransportScenes --------------------------
(***************************************************************************)
(* Three small instances of AgentTransport in one run.  "restart": one     *)
(* host starts and stops the agent twice under prompts and an interrupt.   *)
(* "rivals": two hosts start and stop it under a prompt and a message that *)
(* is none.  "actions": a prompt and an action.  A scene leaves the other  *)
(* clients and hosts idle.                                                 *)
(***************************************************************************)
EXTENDS MCAgentTransport

VARIABLE scene

Scenes == {"restart", "rivals", "actions"}
Clients == CASE scene = "restart" -> {p1, p2, stopit}
             [] scene = "rivals"  -> {p1, x}
             [] scene = "actions" -> {p1, act}
Callers == IF scene = "rivals" THEN Hosts ELSE {h1}

MCInit == Init /\ scene \in Scenes

MCNext ==
    /\ \/ \E a \in Clients : Send(a) \/ Await(a) \/ Work(a)
       \/ \E k \in Starts : Pump(k) \/ Loop(k)
       \/ \E h \in Callers : Command(h) \/ Stopping(h)
    /\ UNCHANGED scene

MCSpec == MCInit /\ [][MCNext]_<<vars, scene>> /\ Fairness

\* While the agent runs, requests in the inbox are served and blocked clients get
\* through.
QueuesServed == scene = "restart" => InboxServed /\ BackpressureLifts

\* A host that is alone returns from stop(), whatever the loop is doing then.
StopsReturn == scene = "restart" => StopReturns
=============================================================================
