--------------------------- MODULE ApprovalContract ---------------------------
(***************************************************************************)
(* What tool approval promises, seen from the calls alone.  A question is  *)
(* what a call asks (in the code: a capability with its parameters).  The  *)
(* law says which calls the remembered rules allow and which they deny.    *)
(* A call the law decides is decided at once, deny first; all calls with   *)
(* the same open question are decided together by one answer; a call that  *)
(* was refused never runs, and one that runs was cleared.  Anything may    *)
(* fail on the way, and nothing that failed comes back.                    *)
(***************************************************************************)
CONSTANTS Calls, Question

VARIABLES law, phase

contract == <<law, phase>>

Laws == [allow: SUBSET Calls, deny: SUBSET Calls]

CInit ==
    /\ law \in Laws
    /\ phase = [c \in Calls |-> "new"]

\* The law answers, or the call begins to ask.  A rule may be spent doing so.
Consult(c) ==
    /\ phase[c] = "new"
    /\ phase' = [phase EXCEPT ![c] =
                    IF c \in law.deny THEN "refused"
                    ELSE IF c \in law.allow THEN "cleared" ELSE "asking"]
    /\ law' \in Laws
    /\ law'.allow \subseteq law.allow /\ law'.deny \subseteq law.deny

\* One answer decides every call with that question, and may change the law.
Answer(q, verdict) ==
    /\ phase' = [c \in Calls |->
                    IF phase[c] = "asking" /\ Question[c] = q THEN verdict ELSE phase[c]]
    /\ law' \in Laws

Run(c) ==
    /\ phase[c] = "cleared"
    /\ phase' = [phase EXCEPT ![c] = "ran"]
    /\ UNCHANGED law

\* Interrupted, crashed, or failed waiting: one call or all of them at once.
GiveUp(S) ==
    /\ \A c \in S : phase[c] \in {"asking", "cleared", "refused"}
    /\ phase' = [c \in Calls |-> IF c \in S THEN "failed" ELSE phase[c]]
    /\ law' \in Laws

CNext ==
    \/ \E c \in Calls : Consult(c) \/ Run(c)
    \/ \E q \in {Question[c] : c \in Calls}, v \in {"cleared", "refused"} : Answer(q, v)
    \/ \E S \in SUBSET Calls : GiveUp(S)

Contract == CInit /\ [][CNext]_contract
=============================================================================
