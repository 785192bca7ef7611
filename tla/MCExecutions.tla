---------------------------- MODULE MCExecutions ----------------------------
(***************************************************************************)
(* The two components of the sum that must come to an end, with the        *)
(* fairness they need: the execution of a ReAct agent, and a run nobody    *)
(* sits at.                                                                *)
(***************************************************************************)
EXTENDS MCComponents

\* Models and tools answer or fail, the event loop runs what is ready, time
\* passes and the waiting loop polls; a host owes nothing.
InLoop(A) == part = "loop" /\ A /\ UNCHANGED <<part, Rest8>>
InApprovals(A) == part = "approvals" /\ A /\ UNCHANGED <<part, Rest13>>
Fairness ==
    /\ WF_vars(InLoop(Loop!Step))
    /\ WF_vars(InApprovals(Approvals!Agent)) /\ WF_vars(InApprovals(Approvals!Pump))
    /\ WF_vars(InApprovals(Approvals!HandleFrame))
    /\ WF_vars(InApprovals(Approvals!Elapses)) /\ WF_vars(InApprovals(Approvals!TimesOut))

FairInit == part \in {"loop", "approvals"} /\ Init
FairSpec == FairInit /\ [][Next]_vars /\ Fairness

-----------------------------------------------------------------------------
\* Every execution of a ReAct agent ends.
ExecutionEnds == []<>(part = "loop" => Loop!Over)

\* With a limit on waits no task of a run waits for ever.
NoEndlessWait ==
    (part = "approvals" /\ Approvals!Bounded) ~> (part = "approvals" /\ Approvals!Settled)

\* docs/guides/Tool_Approval_Memory.md:139, the decision goes out on the transport,
\* and client/README.md:526, a run fails when an approval takes too long: no task is
\* ended for a wait that is over.
TimeoutDeserved == [][part = "approvals" => Approvals!TimeoutDeserved]_vars
=============================================================================
