---------------------------- MODULE DareLoops_proofs ----------------------------
(***************************************************************************)
(* Theorems about DareLoops, for any numbers of milestones, attempts,      *)
(* plans, iterations, calls and runs and any limit of the budget.          *)
(***************************************************************************)
EXTENDS DareLoops, SequenceTheorems, FiniteSetTheorems, TLAPS

USE DEF memory, outside

----------------------------------------------------------------------------
(* The inductive invariant *)

\* The phases of an attempt: its snapshot is taken and not yet settled.
InAttempt == {"plan", "proposed", "policy", "execute", "model", "asked",
              "generating", "calls", "steps", "tool", "gate", "invoke", "acted",
              "verify"}
OpenInAttempt == at \in InAttempt <=> Open

\* A tool loop runs for a call or a step that is still to do.
CallsLeft == at \in {"tool", "gate", "invoke", "acted"} => pos.todo > 0

\* Every invocation was charged before; one is charged and not yet made
\* between the charge and the call.
Ledger ==
    /\ used <= ToolLimit + 1
    /\ trail.effects + (IF at \in {"gate", "invoke"} THEN 1 ELSE 0) <= used

\* Messages were written by attempts that had begun, those of the snapshot
\* before the attempt that took it.
Provenance ==
    /\ \A i \in 1 .. Len(stm) : ByAttempt(stm[i]) =>
         stm[i].of \in 1 .. Len(fate) /\ fate[stm[i].of] # "dropped"
    /\ \A i \in 1 .. Len(snapshot) : ByAttempt(snapshot[i]) =>
         /\ snapshot[i].of \in 1 .. Len(fate) /\ snapshot[i].of < Len(fate)
         /\ fate[snapshot[i].of] # "dropped"

\* The memory of an attempt begins with what it found.
Growth == Open => Contract!Extends(stm, snapshot)

IInv == TypeOK /\ OpenInAttempt /\ CallsLeft /\ Ledger /\ AuditTrail /\ Provenance /\ Growth

----------------------------------------------------------------------------
(* What a step can do to the memory *)

SamePhase == at' \in InAttempt <=> at \in InAttempt

Still  == UNCHANGED memory /\ SamePhase
Hears  == /\ ~Open /\ SamePhase /\ UNCHANGED <<snapshot, fate>>
          /\ \E m \in Messages : ~ByAttempt(m) /\ stm' = Append(stm, m)
Takes  == ~Open /\ at' \in InAttempt /\ CreateSnapshot /\ UNCHANGED stm
Writes == /\ Open /\ SamePhase /\ UNCHANGED <<snapshot, fate>>
          /\ \E s \in Seq(Messages) :
                /\ stm' = stm \o s
                /\ \A i \in 1 .. Len(s) : ByAttempt(s[i]) => s[i].of = Now
Keeps  == /\ Open /\ at' \in {"session", "idle"} /\ UNCHANGED <<stm, snapshot>>
          /\ \E f \in {"kept", "aborted"} : fate' = [fate EXCEPT ![Now] = f]
Drops  == Open /\ at' \in {"attempt", "remediate", "closing"} /\ Rollback

Moves == Still \/ Hears \/ Takes \/ Writes \/ Keeps \/ Drops

\* Assembling adds the guidance of the queue and nothing of an attempt.
LEMMA AssembleWrites ==
    ASSUME TypeOK, Open, SamePhase, Assemble
    PROVE  Writes
<1> DEFINE s == [i \in 1 .. Len(queue) |-> Message("guidance", queue[i], 0)]
<1>1. s \in Seq(Messages) /\ Len(s) = Len(queue)
  BY DEF TypeOK, Message, Messages, Senders
<1>2. \A i \in 1 .. Len(s) : ~ByAttempt(s[i])
  BY <1>1 DEF Message, ByAttempt
<1>3. stm' = stm \o s /\ UNCHANGED <<snapshot, fate>>
  BY DEF Assemble
<1> QED BY <1>1, <1>2, <1>3 DEF Writes

\* So does one message more.
LEMMA AddWrites ==
    ASSUME TypeOK, Open, SamePhase, UNCHANGED <<snapshot, fate>>,
           NEW what \in Senders, NEW n \in Nat, Add(what, n)
    PROVE  Writes
<1> DEFINE s == <<Message(what, Now, n)>>
<1>1. s \in Seq(Messages) /\ Len(s) = 1 /\ s[1].of = Now
  BY DEF TypeOK, Message, Messages, Now
<1>2. stm' = stm \o s
  BY DEF Add, TypeOK, Message, Messages, Now
<1>3. \A i \in 1 .. Len(s) : s[i].of = Now
  BY <1>1
<1> HIDE DEF s
<1> QED BY <1>1, <1>2, <1>3 DEF Writes

LEMMA UnwindMoves ==
    ASSUME TypeOK, OpenInAttempt, Unwind
    PROVE  Still \/ Keeps
BY DEF Unwind, Still, Keeps, SamePhase, OpenInAttempt, InAttempt

\* What becomes of a call adds its result, or nothing.
LEMMA CallEndsMoves ==
    ASSUME TypeOK, OpenInAttempt, at \in {"gate", "invoke", "acted"},
           NEW ok \in BOOLEAN, CallEnds(ok)
    PROVE  Still \/ Writes
<1>1. Open /\ SamePhase
  BY DEF CallEnds, OpenInAttempt, InAttempt, SamePhase
<1>2. CASE StepDriven
  BY <1>1, <1>2 DEF CallEnds, Still
<1>3. CASE ~StepDriven
  BY <1>1, <1>3, AddWrites DEF CallEnds, Senders
<1> QED BY <1>2, <1>3

LEMMA SessionMoves ==
    ASSUME TypeOK, OpenInAttempt, Session
    PROVE  Moves
<1>1. CASE OpenSession
  <2>1. Message("user", runs, 0) \in Messages /\ ~ByAttempt(Message("user", runs, 0))
    BY DEF TypeOK, Message, Messages, Senders, ByAttempt
  <2> QED BY <1>1, <2>1 DEF OpenSession, OpenInAttempt, InAttempt, SamePhase, Hears, Moves
<1>2. CASE Execute \/ EnterMilestone \/ CloseSession
  BY <1>2 DEF Execute, EnterMilestone, CloseSession, OpenInAttempt, InAttempt, SamePhase,
              Still, Moves
<1> QED BY <1>1, <1>2 DEF Session

LEMMA MilestoneMoves ==
    ASSUME TypeOK, OpenInAttempt, Milestone
    PROVE  Moves
<1>1. CASE BeginAttempt
  BY <1>1 DEF BeginAttempt, OpenInAttempt, InAttempt, Takes, Moves
<1>2. CASE DenyPlan \/ Replan \/ VerifyFails
  BY <1>2 DEF DenyPlan, Replan, VerifyFails, OpenInAttempt, InAttempt, Drops, Moves
<1>3. CASE VerifySucceeds
  BY <1>3 DEF VerifySucceeds, Commit, OpenInAttempt, InAttempt, Keeps, Moves
<1>4. CASE GiveUp \/ AllowPlan \/ Remediate
  BY <1>4 DEF GiveUp, AllowPlan, Remediate, InAttempt, SamePhase, Still, Moves
<1> QED BY <1>1, <1>2, <1>3, <1>4 DEF Milestone

LEMMA PlanningMoves ==
    ASSUME TypeOK, OpenInAttempt, Planning
    PROVE  Moves
<1>1. CASE Propose
  BY <1>1, AssembleWrites DEF Propose, OpenInAttempt, InAttempt, SamePhase, Moves
<1>2. CASE NoPlanner \/ AcceptPlan \/ RejectPlan \/ PlansExhausted
  BY <1>2 DEF NoPlanner, AcceptPlan, RejectPlan, PlansExhausted, InAttempt, SamePhase,
              Still, Moves
<1> QED BY <1>1, <1>2 DEF Planning

LEMMA ExecutingMoves ==
    ASSUME TypeOK, OpenInAttempt, Executing
    PROVE  Moves
<1>1. CASE BeginModelDriven \/ CallsDone
  BY <1>1, AssembleWrites
     DEF BeginModelDriven, CallsDone, OpenInAttempt, InAttempt, SamePhase, Moves
<1>2. CASE Answer
  BY <1>2, AddWrites DEF Answer, OpenInAttempt, InAttempt, SamePhase, Senders, Moves
<1>3. CASE RequestCalls
  <2>1. PICK n \in 1 .. MaxCalls : Add("calls", n)
    BY <1>3 DEF RequestCalls
  <2>2. n \in Nat
    BY BoundAssumption
  <2> QED BY <1>3, <2>1, <2>2, AddWrites
          DEF RequestCalls, OpenInAttempt, InAttempt, SamePhase, Senders, Moves
<1>4. CASE BeginSteps \/ BeginIteration \/ BlockModel \/ Generate \/ NextCall \/ ExecuteEnds
  BY <1>4 DEF BeginSteps, BeginIteration, BlockModel, Generate, NextCall, ExecuteEnds,
              InAttempt, SamePhase, Still, Moves
<1> QED BY <1>1, <1>2, <1>3, <1>4 DEF Executing

LEMMA ToolLoopMoves ==
    ASSUME TypeOK, OpenInAttempt, ToolLoop
    PROVE  Moves
<1>1. CASE DenyCall \/ NotInvoked \/ ReportFailed
  BY <1>1, CallEndsMoves DEF DenyCall, NotInvoked, ReportFailed, Moves
<1>2. CASE ReportDone
  BY <1>2, CallEndsMoves DEF ReportDone, Moves
<1>3. CASE ReportNotDone
  <2>1. CASE pos.try < MaxTries
    BY <1>3, <2>1 DEF ReportNotDone, InAttempt, SamePhase, Still, Moves
  <2>2. CASE ~(pos.try < MaxTries)
    BY <1>3, <2>2, CallEndsMoves DEF ReportNotDone, Moves
  <2> QED BY <2>1, <2>2
<1>4. CASE Charge \/ Announce \/ Invoke
  BY <1>4 DEF Charge, Announce, Invoke, InAttempt, SamePhase, Still, Moves
<1> QED BY <1>1, <1>2, <1>3, <1>4 DEF ToolLoop

\* Every step of the system is one of the moves.
LEMMA StepMoves ==
    ASSUME TypeOK, OpenInAttempt, [Next]_vars
    PROVE  Moves
<1>1. CASE Refuse \/ Raise
  BY <1>1, UnwindMoves DEF Refuse, Raise, Moves
<1>2. CASE Others
  BY <1>2 DEF Others, Guide, Request, Resume, InAttempt, SamePhase, Still, Moves
<1>3. CASE UNCHANGED vars
  BY <1>3 DEF vars, SamePhase, Still, Moves
<1> QED BY <1>1, <1>2, <1>3, SessionMoves, MilestoneMoves, PlanningMoves, ExecutingMoves,
           ToolLoopMoves DEF Next, Work

----------------------------------------------------------------------------
(* The provenance of messages *)

LEMMA ProvenanceStep ==
    ASSUME TypeOK, Provenance, Moves
    PROVE  Provenance'
<1>1. CASE Still
  BY <1>1 DEF Still, Provenance, ByAttempt
<1>2. CASE Hears
  <2>1. PICK m \in Messages : ~ByAttempt(m) /\ stm' = Append(stm, m)
    BY <1>2 DEF Hears
  <2>2. Len(stm') = Len(stm) + 1 /\ stm'[Len(stm) + 1] = m
        /\ \A i \in 1 .. Len(stm) : stm'[i] = stm[i]
    BY <2>1 DEF TypeOK
  <2> QED BY <1>2, <2>1, <2>2 DEF Hears, Provenance, ByAttempt, TypeOK
<1>3. CASE Takes
  <2>1. /\ Len(fate') = Len(fate) + 1 /\ Len(fate) \in Nat
        /\ \A i \in 1 .. Len(fate) : fate'[i] = fate[i]
    BY <1>3 DEF Takes, CreateSnapshot, TypeOK
  <2>2. stm' = stm /\ snapshot' = stm
    BY <1>3 DEF Takes, CreateSnapshot
  <2>3. ASSUME NEW i \in 1 .. Len(stm), ByAttempt(stm[i])
        PROVE  /\ stm[i].of \in 1 .. Len(fate') /\ stm[i].of < Len(fate')
               /\ fate'[stm[i].of] # "dropped"
    <3>1. stm[i].of \in 1 .. Len(fate) /\ fate[stm[i].of] # "dropped"
      BY <2>3 DEF Provenance
    <3> QED BY <2>1, <3>1
  <2> QED BY <2>2, <2>3 DEF Provenance, ByAttempt
<1>4. CASE Writes
  <2>1. PICK s \in Seq(Messages) :
           /\ stm' = stm \o s
           /\ \A i \in 1 .. Len(s) : ByAttempt(s[i]) => s[i].of = Now
    BY <1>4 DEF Writes
  <2>2. /\ Len(stm') = Len(stm) + Len(s)
        /\ \A i \in 1 .. Len(stm) : stm'[i] = stm[i]
        /\ \A i \in 1 .. Len(stm') : i > Len(stm) =>
             i - Len(stm) \in 1 .. Len(s) /\ stm'[i] = s[i - Len(stm)]
    BY <2>1 DEF TypeOK
  <2>3. Len(fate) \in 1 .. Len(fate) /\ fate[Len(fate)] = "open"
    BY <1>4 DEF Writes, Open, Now, TypeOK
  <2>4. ASSUME NEW i \in 1 .. Len(stm'), ByAttempt(stm'[i])
        PROVE  stm'[i].of \in 1 .. Len(fate) /\ fate[stm'[i].of] # "dropped"
    <3>1. CASE i \in 1 .. Len(stm)
      <4>1. stm'[i] = stm[i]
        BY <3>1, <2>2
      <4> QED BY <2>4, <3>1, <4>1 DEF Provenance
    <3>2. CASE i > Len(stm)
      <4>1. stm'[i].of = Len(fate)
        BY <2>1, <2>2, <2>4, <3>2 DEF Now
      <4> QED BY <2>3, <4>1
    <3>3. Len(stm) \in Nat
      BY DEF TypeOK
    <3> QED BY <3>1, <3>2, <3>3
  <2> QED BY <1>4, <2>4 DEF Writes, Provenance, ByAttempt
<1>5. CASE Keeps
  <2>1. PICK f \in {"kept", "aborted"} : fate' = [fate EXCEPT ![Len(fate)] = f]
    BY <1>5 DEF Keeps, Now
  <2>2. Len(fate') = Len(fate) /\ \A i \in 1 .. Len(fate) : fate'[i] # "dropped" \/ fate'[i] = fate[i]
    BY <2>1 DEF TypeOK
  <2> QED BY <1>5, <2>2 DEF Keeps, Provenance, ByAttempt
<1>6. CASE Drops
  <2>1. /\ Len(fate') = Len(fate)
        /\ \A i \in 1 .. Len(fate) : i # Len(fate) => fate'[i] = fate[i]
    BY <1>6 DEF Drops, Rollback, Now, TypeOK
  <2>2. stm' = snapshot /\ snapshot' = snapshot
    BY <1>6 DEF Drops, Rollback
  <2> QED BY <2>1, <2>2 DEF Provenance, ByAttempt
<1> QED BY <1>1, <1>2, <1>3, <1>4, <1>5, <1>6 DEF Moves

----------------------------------------------------------------------------
(* The contract of an attempt *)

LEMMA GrowthStep ==
    ASSUME TypeOK, Growth, Moves
    PROVE  Growth'
<1>1. CASE Still
  BY <1>1 DEF Still, Growth, Open, Now, Contract!Extends
<1>2. CASE Hears
  BY <1>2 DEF Hears, Growth, Open, Now
<1>3. CASE Takes
  BY <1>3 DEF Takes, CreateSnapshot, Growth, Contract!Extends, TypeOK
<1>4. CASE Writes
  <2>1. PICK s \in Seq(Messages) : stm' = stm \o s
    BY <1>4 DEF Writes
  <2>2. Len(stm) <= Len(stm') /\ \A i \in 1 .. Len(stm) : stm'[i] = stm[i]
    BY <2>1 DEF TypeOK
  <2> QED BY <1>4, <2>2 DEF Writes, Growth, Open, Now, Contract!Extends, TypeOK
<1>5. CASE Keeps \/ Drops
  <2>1. ~Open'
    BY <1>5 DEF Keeps, Drops, Rollback, Open, Now, TypeOK
  <2> QED BY <2>1 DEF Growth
<1> QED BY <1>1, <1>2, <1>3, <1>4, <1>5 DEF Moves

\* The phases of an attempt are those in which it is open.
LEMMA OpenStep ==
    ASSUME TypeOK, OpenInAttempt, Moves
    PROVE  OpenInAttempt'
<1>1. CASE Still \/ Hears \/ Writes
  BY <1>1 DEF Still, Hears, Writes, SamePhase, OpenInAttempt, Open, Now
<1>2. CASE Takes
  BY <1>2 DEF Takes, CreateSnapshot, OpenInAttempt, Open, Now, TypeOK
<1>3. CASE Keeps \/ Drops
  BY <1>3 DEF Keeps, Drops, Rollback, OpenInAttempt, InAttempt, Open, Now, TypeOK
<1> QED BY <1>1, <1>2, <1>3 DEF Moves

\* Every move keeps the contract.
LEMMA ContractStep ==
    ASSUME TypeOK, OpenInAttempt, OpenInAttempt', Moves
    PROVE  [Contract!CNext]_(Contract!contract)
<1> USE DEF Stage, Contract!Open
<1>1. CASE Still
  <2>1. Open' = Open /\ stm' = stm /\ snapshot' = snapshot
    BY <1>1 DEF Still, Open, Now, memory
  <2>2. CASE Open
    BY <2>1, <2>2 DEF Contract!contract
  <2>3. CASE ~Open
    <3>1. Contract!Extends(stm', stm)
      BY <2>1 DEF Contract!Extends, TypeOK
    <3> QED BY <2>1, <2>3, <3>1 DEF Contract!Hear, Contract!CNext
  <2> QED BY <2>2, <2>3
<1>2. CASE Hears
  <2>1. ~Open /\ ~Open'
    BY <1>2 DEF Hears, Open, Now
  <2>2. Contract!Extends(stm', stm)
    BY <1>2 DEF Hears, Contract!Extends, TypeOK
  <2> QED BY <2>1, <2>2 DEF Contract!Hear, Contract!CNext
<1>3. CASE Takes
  BY <1>3 DEF Takes, CreateSnapshot, OpenInAttempt, Contract!Begin, Contract!CNext
<1>4. CASE Writes
  <2>1. Open /\ Open' /\ snapshot' = snapshot
    BY <1>4 DEF Writes, Open, Now
  <2>2. Contract!Extends(stm', stm)
    BY <1>4 DEF Writes, Contract!Extends, TypeOK
  <2> QED BY <2>1, <2>2 DEF Contract!Work, Contract!CNext
<1>5. CASE Keeps
  <2>1. Open /\ ~Open' /\ at' \in {"session", "idle"} /\ stm' = stm
    BY <1>5 DEF Keeps, OpenInAttempt, InAttempt
  <2> QED BY <2>1 DEF Contract!Keep, Contract!CNext
<1>6. CASE Drops
  <2>1. Open /\ ~Open' /\ at' \in {"attempt", "remediate", "closing"} /\ stm' = snapshot
    BY <1>6 DEF Drops, Rollback, OpenInAttempt, InAttempt
  <2> QED BY <2>1 DEF Contract!Forget, Contract!CNext
<1> QED BY <1>1, <1>2, <1>3, <1>4, <1>5, <1>6 DEF Moves

----------------------------------------------------------------------------
(* Types *)

\* The memory keeps its type, whatever the move.
MemoryTyped == stm \in Seq(Messages) /\ snapshot \in Seq(Messages) /\ fate \in Seq(Fates)

LEMMA MemoryTypeStep ==
    ASSUME TypeOK, Moves
    PROVE  MemoryTyped'
<1> USE DEF MemoryTyped
<1>1. CASE Still
  BY <1>1 DEF Still, TypeOK
<1>2. CASE Hears
  BY <1>2 DEF Hears, TypeOK
<1>3. CASE Takes
  BY <1>3 DEF Takes, CreateSnapshot, TypeOK, Fates
<1>4. CASE Writes
  BY <1>4 DEF Writes, TypeOK
<1>0. ASSUME Open, NEW f \in Fates
      PROVE  [fate EXCEPT ![Now] = f] \in Seq(Fates)
  <2>1. fate \in Seq(Fates) /\ Now \in 1 .. Len(fate)
    BY <1>0 DEF TypeOK, Open, Now
  <2> QED BY <2>1, ExceptSeq
<1>5. CASE Keeps
  BY <1>0, <1>5 DEF Keeps, TypeOK, Fates
<1>6. CASE Drops
  BY <1>0, <1>6 DEF Drops, Rollback, TypeOK, Fates
<1> QED BY <1>1, <1>2, <1>3, <1>4, <1>5, <1>6 DEF Moves


\* So does the rest.
Notes  == [reflections: SUBSET Nat, evidence: SUBSET Nat]
Trails == [first: Nat, announced: Nat, reported: Nat, effects: Nat]

RestTyped ==
    /\ at \in Phases /\ pos \in Counters /\ plan \in Plans
    /\ result \in {"none", "success", "failure", "raised"} /\ runs \in Nat
    /\ notes \in Notes /\ used \in Nat /\ signal \in BOOLEAN
    /\ queue \in Seq(Nat) /\ guided \in Nat /\ late \in Nat
    /\ trail \in Trails

\* Counters, notes and trails with one field replaced.
LEMMA Counted ==
    ASSUME NEW p \in Counters, NEW n \in Nat
    PROVE  /\ [p EXCEPT !.milestone = n] \in Counters
           /\ [p EXCEPT !.attempt = n] \in Counters
           /\ [p EXCEPT !.plan = n] \in Counters
           /\ [p EXCEPT !.iteration = n] \in Counters
           /\ [p EXCEPT !.todo = n] \in Counters
           /\ [p EXCEPT !.try = n] \in Counters
BY DEF Counters

LEMMA CountedOn ==
    ASSUME NEW p \in Counters
    PROVE  /\ {p.milestone, p.attempt, p.plan, p.iteration, p.todo, p.try} \subseteq Nat
           /\ {p.milestone + 1, p.attempt + 1, p.plan + 1, p.iteration + 1, p.try + 1}
                 \subseteq Nat
           /\ p.todo > 0 => p.todo - 1 \in Nat
BY DEF Counters

LEMMA Noted ==
    ASSUME TypeOK, NEW s \in Notes
    PROVE  /\ [s EXCEPT !.reflections = @ \cup {Now}] \in Notes
           /\ [s EXCEPT !.evidence = @ \cup {Now}] \in Notes
           /\ [reflections |-> {}, evidence |-> {}] \in Notes
<1>1. Now \in Nat
  BY DEF TypeOK, Now
<1> QED BY <1>1 DEF Notes

LEMMA Trailed ==
    ASSUME NEW s \in Trails, NEW n \in Nat
    PROVE  /\ [s EXCEPT !.first = n] \in Trails
           /\ [s EXCEPT !.announced = n] \in Trails
           /\ [s EXCEPT !.reported = n] \in Trails
           /\ [s EXCEPT !.effects = n] \in Trails
           /\ {s.announced + 1, s.reported + 1, s.effects + 1} \subseteq Nat
BY DEF Trails

LEMMA CallEndsTyped ==
    ASSUME RestTyped, pos.todo > 0, NEW ok \in BOOLEAN, CallEnds(ok),
           notes' \in Notes, trail' \in Trails
    PROVE  RestTyped'
<1>1. pos' \in Counters
  BY Counted, CountedOn DEF CallEnds, RestTyped
<1>2. at' \in Phases
  BY DEF CallEnds, Phases
<1> QED BY <1>1, <1>2 DEF CallEnds, RestTyped

LEMMA ToolLoopTyped ==
    ASSUME TypeOK, RestTyped, CallsLeft, ToolLoop
    PROVE  RestTyped'
<1> USE DEF RestTyped
<1>1. Collect => notes' \in Notes
  BY Noted DEF Collect
<1>2. Report => trail' \in Trails
  BY Trailed DEF Report
<1>3. CASE DenyCall
  BY <1>3, CallEndsTyped DEF DenyCall, CallsLeft
<1>4. CASE NotInvoked \/ ReportFailed
  BY <1>2, <1>4, CallEndsTyped DEF NotInvoked, ReportFailed, CallsLeft
<1>5. CASE ReportDone
  BY <1>1, <1>2, <1>5, CallEndsTyped DEF ReportDone, CallsLeft
<1>6. CASE ReportNotDone
  <2>1. CASE pos.try < MaxTries
    BY <1>1, <1>2, <1>6, <2>1 DEF ReportNotDone, Phases
  <2>2. CASE ~(pos.try < MaxTries)
    BY <1>1, <1>2, <1>6, <2>2, CallEndsTyped DEF ReportNotDone, CallsLeft
  <2> QED BY <2>1, <2>2
<1>7. CASE Charge
  <2>1. pos' \in Counters
    BY <1>7, Counted, CountedOn DEF Charge
  <2> QED BY <1>7, <2>1 DEF Charge, Phases
<1>8. CASE Announce \/ Invoke
  BY <1>8, Trailed DEF Announce, Invoke, Phases
<1> QED BY <1>3, <1>4, <1>5, <1>6, <1>7, <1>8 DEF ToolLoop

LEMMA RestTypeStep ==
    ASSUME TypeOK, CallsLeft, [Next]_vars
    PROVE  RestTyped'
<1>0. RestTyped
  BY DEF TypeOK, RestTyped, Notes, Trails
<1> USE DEF RestTyped
<1>1. CASE Session
  <2>1. CASE Execute
    <3>1. [trail EXCEPT !.first = Now, !.announced = 0, !.reported = 0] \in Trails
      <4>1. Now \in Nat
        BY DEF TypeOK, Now
      <4> QED BY <1>0, <4>1, Trailed
    <3>2. pos' \in Counters
      BY <1>0, <2>1, Counted DEF Execute
    <3>3. notes' \in Notes
      BY <1>0, <2>1, Noted DEF Execute
    <3> QED BY <1>0, <2>1, <3>1, <3>2, <3>3 DEF Execute, Phases
  <2>2. CASE EnterMilestone
    BY <1>0, <2>2, Counted, Noted DEF EnterMilestone, Phases
  <2>3. CASE OpenSession \/ CloseSession
    BY <1>0, <2>3 DEF OpenSession, CloseSession, Phases
  <2> QED BY <1>1, <2>1, <2>2, <2>3 DEF Session
<1>2. CASE Milestone
  <2>1. CASE BeginAttempt
    BY <1>0, <2>1, Counted, CountedOn DEF BeginAttempt, Phases, Plans
  <2>2. CASE Replan \/ Remediate
    BY <1>0, <2>2, Noted DEF Replan, Remediate, Phases
  <2>3. CASE VerifySucceeds
    BY <1>0, <2>3, Counted, CountedOn DEF VerifySucceeds, Phases
  <2>4. CASE GiveUp \/ DenyPlan \/ AllowPlan \/ VerifyFails
    BY <1>0, <2>4 DEF GiveUp, DenyPlan, AllowPlan, VerifyFails, Phases
  <2> QED BY <1>2, <2>1, <2>2, <2>3, <2>4 DEF Milestone
<1>3. Assemble => queue' \in Seq(Nat) /\ guided' = guided /\ signal' = signal
  BY DEF Assemble
<1>4. CASE Planning
  <2>1. CASE AcceptPlan
    <3>1. \A n \in Steps : n \in Nat
      BY BoundAssumption DEF Steps
    <3> QED BY <1>0, <2>1, <3>1, Counted DEF AcceptPlan, Phases, Plans
  <2>2. CASE Propose
    BY <1>0, <1>3, <2>2, Counted, CountedOn DEF Propose, Phases
  <2>3. CASE NoPlanner \/ RejectPlan \/ PlansExhausted
    BY <1>0, <2>3 DEF NoPlanner, RejectPlan, PlansExhausted, Phases, Plans
  <2> QED BY <1>4, <2>1, <2>2, <2>3 DEF Planning
<1>5. CASE Executing
  <2>1. CASE BeginModelDriven \/ CallsDone
    BY <1>0, <1>3, <2>1, Counted DEF BeginModelDriven, CallsDone, Phases
  <2>2. CASE RequestCalls
    <3>1. \A n \in 1 .. MaxCalls : n \in Nat
      BY BoundAssumption
    <3> QED BY <1>0, <2>2, <3>1, Counted DEF RequestCalls, Phases
  <2>3. CASE BeginIteration
    <3>1. pos' \in Counters
      BY <1>0, <2>3, Counted, CountedOn DEF BeginIteration
    <3> QED BY <1>0, <2>3, <3>1 DEF BeginIteration, Phases
  <2>5. CASE NextCall
    BY <1>0, <2>5, Counted DEF NextCall, Phases
  <2>4. CASE BeginSteps \/ BlockModel \/ Generate \/ Answer \/ ExecuteEnds
    BY <1>0, <2>4 DEF BeginSteps, BlockModel, Generate, Answer, ExecuteEnds, Phases
  <2> QED BY <1>5, <2>1, <2>2, <2>3, <2>4, <2>5 DEF Executing
<1>6. CASE ToolLoop
  BY <1>0, <1>6, ToolLoopTyped
<1>7. CASE Refuse \/ Raise
  BY <1>0, <1>7 DEF Refuse, Raise, Unwind, Phases
<1>8. CASE Others
  <2>1. CASE Guide
    <3>1. guided + 1 \in Nat /\ Append(queue, guided + 1) \in Seq(Nat)
      BY <1>0
    <3> QED BY <1>0, <2>1, <3>1 DEF Guide
  <2>2. CASE Request \/ Resume
    <3>1. late' = 0 /\ (signal' = TRUE \/ signal' = FALSE)
      BY <2>2, Zenon DEF Request, Resume
    <3>2. UNCHANGED <<at, pos, plan, result, runs, notes, used, queue, guided, trail>>
      BY <2>2 DEF Request, Resume
    <3> QED BY <1>0, <3>1, <3>2
  <2> QED BY <1>8, <2>1, <2>2 DEF Others
<1>9. CASE UNCHANGED vars
  BY <1>0, <1>9 DEF vars
<1> QED BY <1>1, <1>2, <1>4, <1>5, <1>6, <1>7, <1>8, <1>9 DEF Next, Work

LEMMA TypeStep ==
    ASSUME TypeOK, CallsLeft, Moves, [Next]_vars
    PROVE  TypeOK'
<1>1. MemoryTyped' /\ RestTyped'
  BY MemoryTypeStep, RestTypeStep
<1> QED BY <1>1 DEF MemoryTyped, RestTyped, TypeOK, Notes, Trails

----------------------------------------------------------------------------
(* Calls, budget and log *)

LEMMA CallsLeftStep ==
    ASSUME TypeOK, CallsLeft, [Next]_vars
    PROVE  CallsLeft'
<1>0. pos \in Counters
  BY DEF TypeOK
<1> USE DEF CallsLeft
<1>1. CASE NextCall
  BY <1>0, <1>1 DEF NextCall, Counters
<1>2. CASE Charge
  BY <1>0, <1>2 DEF Charge, Counters
<1>3. CASE ToolLoop
  BY <1>2, <1>3 DEF ToolLoop, DenyCall, Announce, NotInvoked, Invoke, ReportFailed,
        ReportDone, ReportNotDone, CallEnds
<1>4. CASE Executing
  BY <1>1, <1>4 DEF Executing, BeginModelDriven, BeginSteps, BeginIteration, BlockModel,
        Generate, Answer, RequestCalls, CallsDone, ExecuteEnds
<1>5. CASE Session \/ Milestone \/ Planning
  BY <1>5 DEF Session, Execute, OpenSession, EnterMilestone, CloseSession, Milestone,
        BeginAttempt, GiveUp, DenyPlan, AllowPlan, Replan, VerifySucceeds, VerifyFails,
        Remediate, Planning, NoPlanner, Propose, AcceptPlan, RejectPlan, PlansExhausted
<1>6. CASE Refuse \/ Raise \/ Others \/ UNCHANGED vars
  BY <1>6 DEF Refuse, Raise, Unwind, Others, Guide, Request, Resume, vars
<1> QED BY <1>3, <1>4, <1>5, <1>6 DEF Next, Work

\* A charge is only taken while the limit is not yet exceeded, and a call only
\* made after its charge.
LEMMA LedgerStep ==
    ASSUME TypeOK, Ledger, [Next]_vars
    PROVE  Ledger'
<1>0. /\ used \in Nat /\ ToolLimit \in Nat
      /\ trail.announced \in Nat /\ trail.reported \in Nat /\ trail.effects \in Nat
      /\ trail \in Trails
  BY BoundAssumption DEF TypeOK, Trails
<1> USE DEF Ledger
<1>1. CASE Charge
  BY <1>0, <1>1 DEF Charge, Refused, CheckDue, Overspent
<1>2. CASE Invoke
  <2>1. trail'.effects = trail.effects + 1 /\ used' = used
    BY <1>0, <1>2 DEF Invoke, Trails
  <2> QED BY <1>0, <1>2, <2>1 DEF Invoke
<1>3. CASE Announce
  <2>1. trail'.effects = trail.effects /\ used' = used
    BY <1>0, <1>3 DEF Announce, Trails
  <2> QED BY <1>0, <1>3, <2>1 DEF Announce
<1>4. Report => trail'.effects = trail.effects
  BY <1>0 DEF Report, Trails
<1>5. CASE DenyCall \/ NotInvoked \/ ReportFailed \/ ReportDone \/ ReportNotDone
  <2>1. trail'.effects = trail.effects /\ used' = used /\ at' \notin {"gate", "invoke"}
    BY <1>4, <1>5 DEF DenyCall, NotInvoked, ReportFailed, ReportDone, ReportNotDone, CallEnds
  <2> QED BY <1>0, <2>1
<1>6. CASE Execute
  <2>1. trail'.effects = trail.effects /\ used' = used /\ at' \notin {"gate", "invoke"}
    BY <1>0, <1>6 DEF Execute, Trails
  <2> QED BY <1>0, <2>1
<1>7. CASE \/ OpenSession \/ EnterMilestone \/ CloseSession \/ Milestone \/ Planning
           \/ Executing \/ Refuse \/ Raise \/ Others \/ UNCHANGED vars
  <2>1. trail' = trail /\ used' = used /\ (at' = at \/ at' \notin {"gate", "invoke"})
    BY <1>7 DEF OpenSession, EnterMilestone, CloseSession, Milestone,
        BeginAttempt, GiveUp, DenyPlan, AllowPlan, Replan, VerifySucceeds, VerifyFails,
        Remediate, Planning, NoPlanner, Propose, AcceptPlan, RejectPlan, PlansExhausted,
        Executing, BeginModelDriven, BeginSteps, BeginIteration, BlockModel,
        Generate, Answer, RequestCalls, NextCall, CallsDone, ExecuteEnds, Refuse, Raise,
        Unwind, Others, Guide, Request, Resume, vars
  <2> QED BY <1>0, <2>1
<1> QED BY <1>1, <1>2, <1>3, <1>5, <1>6, <1>7 DEF Next, Work, Session, ToolLoop

\* Announced and reported meet again whenever a call ends.
LEMMA AuditStep ==
    ASSUME TypeOK, AuditTrail, [Next]_vars
    PROVE  AuditTrail'
<1>0. trail \in Trails /\ trail.announced \in Nat /\ trail.reported \in Nat
  BY DEF TypeOK, Trails
<1> USE DEF AuditTrail
<1>1. CASE Execute
  <2>1. trail'.announced = 0 /\ trail'.reported = 0 /\ at' = "begin"
    BY <1>0, <1>1 DEF Execute, Trails
  <2> QED BY <2>1
<1>2. CASE Announce
  <2>1. trail'.announced = trail.announced + 1 /\ trail'.reported = trail.reported
    BY <1>0, <1>2 DEF Announce, Trails
  <2> QED BY <1>0, <1>2, <2>1 DEF Announce
<1>3. CASE Invoke
  <2>1. trail'.announced = trail.announced /\ trail'.reported = trail.reported
    BY <1>0, <1>3 DEF Invoke, Trails
  <2> QED BY <1>0, <1>3, <2>1 DEF Invoke
<1>4. CASE NotInvoked \/ ReportFailed \/ ReportDone \/ ReportNotDone
  <2>1. /\ at \in {"invoke", "acted"} /\ Report
        /\ at' \notin {"idle", "invoke", "acted"}
    BY <1>4 DEF NotInvoked, ReportFailed, ReportDone, ReportNotDone, CallEnds
  <2>2. trail'.announced = trail.announced /\ trail'.reported = trail.reported + 1
    BY <1>0, <2>1 DEF Report, Trails
  <2> QED BY <1>0, <2>1, <2>2
<1>5. CASE Refuse \/ Raise
  BY <1>5 DEF Refuse, Raise, Unwind
<1>6. CASE CloseSession
  BY <1>6 DEF CloseSession
<1>7. CASE \/ OpenSession \/ EnterMilestone \/ Milestone \/ Planning \/ Executing
           \/ Charge \/ DenyCall
  <2>1. /\ UNCHANGED trail
        /\ at \notin {"idle", "invoke", "acted"} /\ at' \notin {"idle", "invoke", "acted"}
    BY <1>7 DEF OpenSession, EnterMilestone, Milestone,
        BeginAttempt, GiveUp, DenyPlan, AllowPlan, Replan, VerifySucceeds, VerifyFails,
        Remediate, Planning, NoPlanner, Propose, AcceptPlan, RejectPlan, PlansExhausted,
        Executing, BeginModelDriven, BeginSteps, BeginIteration, BlockModel,
        Generate, Answer, RequestCalls, NextCall, CallsDone, ExecuteEnds, Charge, DenyCall,
        CallEnds
  <2> QED BY <1>0, <2>1
<1>8. CASE Others \/ UNCHANGED vars
  BY <1>8 DEF Others, Guide, Request, Resume, vars
<1> QED BY <1>1, <1>2, <1>3, <1>4, <1>5, <1>6, <1>7, <1>8 DEF Next, Work, Session, ToolLoop

----------------------------------------------------------------------------
(* Theorems *)

LEMMA InitIInv == Init => IInv
<1> SUFFICES ASSUME Init PROVE IInv
  OBVIOUS
<1>1. TypeOK
  <2>1. pos \in Counters
    BY DEF Init, Counters
  <2>2. /\ notes \in [reflections: SUBSET Nat, evidence: SUBSET Nat]
        /\ trail \in [first: Nat, announced: Nat, reported: Nat, effects: Nat]
    BY DEF Init
  <2>3. signal \in BOOLEAN
    BY DEF Init
  <2>4. /\ stm \in Seq(Messages) /\ snapshot \in Seq(Messages)
        /\ fate \in Seq(Fates) /\ queue \in Seq(Nat)
    BY DEF Init
  <2>5. at \in Phases /\ plan \in Plans /\ result \in {"none", "success", "failure", "raised"}
    BY DEF Init, Phases, Plans
  <2>6. runs \in Nat /\ used \in Nat /\ guided \in Nat /\ late \in Nat
    BY DEF Init
  <2> QED BY <2>1, <2>2, <2>3, <2>4, <2>5, <2>6 DEF TypeOK
<1>2. OpenInAttempt /\ CallsLeft /\ AuditTrail /\ Growth
  BY DEF Init, OpenInAttempt, InAttempt, Open, CallsLeft, AuditTrail, Growth
<1>3. Ledger
  BY BoundAssumption DEF Init, Ledger
<1>4. Provenance
  BY DEF Init, Provenance
<1> QED BY <1>1, <1>2, <1>3, <1>4 DEF IInv

LEMMA StepIInv == IInv /\ [Next]_vars => IInv' /\ [Contract!CNext]_(Contract!contract)
<1> SUFFICES ASSUME IInv, [Next]_vars
             PROVE  IInv' /\ [Contract!CNext]_(Contract!contract)
  OBVIOUS
<1>1. TypeOK /\ OpenInAttempt /\ CallsLeft /\ Ledger /\ AuditTrail /\ Provenance /\ Growth
  BY DEF IInv
<1>2. Moves
  BY <1>1, StepMoves
<1>3. TypeOK' /\ OpenInAttempt' /\ CallsLeft'
  BY <1>1, <1>2, TypeStep, OpenStep, CallsLeftStep
<1>4. Ledger' /\ AuditTrail'
  BY <1>1, LedgerStep, AuditStep
<1>5. Provenance' /\ Growth'
  BY <1>1, <1>2, ProvenanceStep, GrowthStep
<1>6. [Contract!CNext]_(Contract!contract)
  BY <1>1, <1>2, <1>3, ContractStep
<1> QED BY <1>3, <1>4, <1>5, <1>6 DEF IInv

\* The inductive invariant holds in every reachable state.
THEOREM LoopsInvariant == Spec => []IInv
<1>1. IInv /\ [Next]_vars => IInv'
  BY StepIInv
<1> QED BY InitIInv, <1>1, PTL DEF Spec

\* Every variable of the five loops keeps its type (dare_agent.py and the
\* orchestrators it delegates to).
THEOREM LoopsTypeCorrect == Spec => []TypeOK
<1>1. IInv => TypeOK
  BY DEF IInv
<1> QED BY LoopsInvariant, <1>1, PTL

\* However attempts, runs and exceptions follow each other, the memory holds
\* nothing that a failed attempt wrote (sandbox.py, milestone_orchestrator.py).
THEOREM FailuresLeaveNoTrace == Spec => []DroppedLeavesNoTrace
<1>1. IInv => DroppedLeavesNoTrace
  <2> SUFFICES ASSUME IInv PROVE DroppedLeavesNoTrace
    OBVIOUS
  <2>1. DOMAIN stm = 1 .. Len(stm) /\ DOMAIN snapshot = 1 .. Len(snapshot)
    BY DEF IInv, TypeOK
  <2>2. Provenance
    BY DEF IInv
  <2> QED BY <2>1, <2>2 DEF Provenance, DroppedLeavesNoTrace
<1> QED BY LoopsInvariant, <1>1, PTL

\* The tool budget is overdrawn by one call at most, and no call reaches a
\* tool uncharged (tool_executor.py, context.py).
THEOREM BudgetIsBounded == Spec => []BudgetBound
<1>1. IInv => BudgetBound
  <2> SUFFICES ASSUME IInv PROVE BudgetBound
    OBVIOUS
  <2>1. trail.effects \in Nat /\ used \in Nat
    BY DEF IInv, TypeOK
  <2> QED BY <2>1 DEF IInv, Ledger, BudgetBound
<1> QED BY LoopsInvariant, <1>1, PTL

\* Every announced invocation is reported once (tool_executor.py).
THEOREM InvocationsAreReported == Spec => []AuditTrail
<1>1. IInv => AuditTrail
  BY DEF IInv
<1> QED BY LoopsInvariant, <1>1, PTL

\* The milestone loop with its sandbox implements the contract of an attempt.
THEOREM LoopsKeepContract == Spec => KeepsContract
<1>1. Init => Contract!CInit
  BY DEF Init, Contract!CInit, Open, Stage
<1>2. IInv /\ [Next]_vars => [Contract!CNext]_(Contract!contract)
  BY StepIInv
<1> QED BY LoopsInvariant, <1>1, <1>2, PTL DEF Spec, KeepsContract, Contract!CSpec

----------------------------------------------------------------------------
(* The signal *)

\* What makes SignalHeeded inductive: the model call that is already on its way
\* is the only one, since the loop polls the signal before it goes round.
Heeding ==
    /\ late <= 1
    /\ ~signal => late = 0
    /\ late = 1 => at # "asked"

LEMMA HeedingStep ==
    ASSUME TypeOK, Heeding, [Next]_vars
    PROVE  Heeding'
<1>0. late \in Nat /\ pos \in Counters
  BY DEF TypeOK
<1> USE DEF Heeding
<1>1. CASE BeginIteration
  <2>1. ~signal /\ late = 0
    BY <1>1 DEF BeginIteration, Refused, CheckDue, PollDue
  <2>2. late' = 0 /\ at' = "asked"
    BY <1>1, <2>1 DEF BeginIteration
  <2> QED BY <2>2
<1>2. CASE Generate
  <2>1. late = 0
    BY <1>0, <1>2 DEF Generate
  <2>2. at' = "generating" /\ (signal' <=> signal)
    BY <1>2 DEF Generate
  <2>3. late' = IF signal THEN 1 ELSE 0
    BY <1>2, <2>1 DEF Generate
  <2> QED BY <2>2, <2>3
<1>3. CASE Request
  BY <1>3 DEF Request
<1>4. CASE Resume
  BY <1>4 DEF Resume
<1>5. CASE \/ Session \/ Milestone \/ Planning \/ ToolLoop \/ Refuse \/ Raise
           \/ BeginModelDriven \/ BeginSteps \/ BlockModel \/ Answer \/ RequestCalls
           \/ NextCall \/ CallsDone \/ ExecuteEnds
  <2>1. at' # "asked" /\ late' = late
    BY <1>5 DEF Session, Execute, OpenSession, EnterMilestone, CloseSession, Milestone,
        BeginAttempt, GiveUp, DenyPlan, AllowPlan, Replan, VerifySucceeds, VerifyFails,
        Remediate, Planning, NoPlanner, Propose, AcceptPlan, RejectPlan, PlansExhausted,
        BeginModelDriven, BeginSteps, BlockModel, Answer, RequestCalls, NextCall, CallsDone,
        ExecuteEnds, ToolLoop, Charge, DenyCall, Announce, NotInvoked, Invoke,
        ReportFailed, ReportDone, ReportNotDone, CallEnds, Refuse, Raise, Unwind
  <2>2. signal' <=> signal
    BY <1>5 DEF Session, Execute, OpenSession, EnterMilestone, CloseSession, Milestone,
        BeginAttempt, GiveUp, DenyPlan, AllowPlan, Replan, VerifySucceeds, VerifyFails,
        Remediate, Planning, NoPlanner, Propose, AcceptPlan, RejectPlan, PlansExhausted,
        BeginModelDriven, BeginSteps, BlockModel, Answer, RequestCalls, NextCall, CallsDone,
        ExecuteEnds, ToolLoop, Charge, DenyCall, Announce, NotInvoked, Invoke,
        ReportFailed, ReportDone, ReportNotDone, CallEnds, Refuse, Raise, Unwind, Assemble
  <2> QED BY <2>1, <2>2
<1>6. CASE Guide \/ UNCHANGED vars
  <2>1. at' = at /\ late' = late
    BY <1>6 DEF Guide, vars
  <2>2. signal' <=> signal
    BY <1>6 DEF Guide, vars
  <2> QED BY <2>1, <2>2
<1> QED BY <1>1, <1>2, <1>3, <1>4, <1>5, <1>6 DEF Next, Work, Others, Executing

----------------------------------------------------------------------------
(* Guidance *)

\* The guidance in a list of messages is in order, and older than number n.
InOrder(s) ==
    \A i, j \in 1 .. Len(s) :
        s[i].what = "guidance" /\ s[j].what = "guidance" /\ i < j => s[i].of < s[j].of
Before(s, n) == \A i \in 1 .. Len(s) : s[i].what = "guidance" => s[i].of < n

\* What makes GuidanceOnce inductive: a rollback brings the snapshot back, so
\* what the memory promises holds of the snapshot too.
Earlier(s) ==
    /\ InOrder(s) /\ Before(s, guided + 1)
    /\ \A j \in 1 .. Len(queue) : Before(s, queue[j])
Queued ==
    /\ \A j \in 1 .. Len(queue) : queue[j] <= guided
    /\ \A i, j \in 1 .. Len(queue) : i < j => queue[i] < queue[j]
Guidance == Earlier(stm) /\ Earlier(snapshot) /\ Queued

\* The lists move about, and messages of others come in.
LEMMA GuidanceKept ==
    ASSUME TypeOK, Guidance, UNCHANGED <<queue, guided>>, snapshot' \in {stm, snapshot},
           \/ stm' \in {stm, snapshot}
           \/ \E m \in Messages : m.what # "guidance" /\ stm' = Append(stm, m)
    PROVE  Guidance'
<1>1. Earlier(stm)' /\ Earlier(snapshot)'
  <2>1. Earlier(snapshot)'
    BY DEF Guidance, Earlier, InOrder, Before
  <2>2. CASE stm' \in {stm, snapshot}
    BY <2>1, <2>2 DEF Guidance, Earlier, InOrder, Before
  <2>3. ASSUME NEW m \in Messages, m.what # "guidance", stm' = Append(stm, m)
        PROVE  Earlier(stm)'
    <3>1. /\ Len(stm') = Len(stm) + 1 /\ stm'[Len(stm) + 1] = m
          /\ \A i \in 1 .. Len(stm) : stm'[i] = stm[i]
      BY <2>3 DEF TypeOK
    <3>2. Len(stm) \in Nat
      BY DEF TypeOK
    <3>3. \A i \in 1 .. Len(stm') : stm'[i].what = "guidance" =>
            i \in 1 .. Len(stm) /\ stm'[i] = stm[i]
      BY <2>3, <3>1, <3>2
    <3> QED BY <3>3 DEF Guidance, Earlier, InOrder, Before
  <2> QED BY <2>1, <2>2, <2>3
<1>2. Queued'
  BY DEF Guidance, Queued
<1> QED BY <1>1, <1>2 DEF Guidance

\* The queue is emptied into memory, behind what was told before.
LEMMA GuidanceTold ==
    ASSUME TypeOK, Guidance, Assemble
    PROVE  Guidance'
<1> DEFINE s == [i \in 1 .. Len(queue) |-> Message("guidance", queue[i], 0)]
<1>0. Len(queue) \in Nat /\ Len(stm) \in Nat /\ guided \in Nat
  BY DEF TypeOK
<1>1. s \in Seq(Messages) /\ Len(s) = Len(queue)
  BY DEF TypeOK, Message, Messages, Senders
<1>2. \A j \in 1 .. Len(queue) : s[j].of = queue[j]
  BY DEF Message
<1>3. stm' = stm \o s /\ queue' = <<>> /\ UNCHANGED <<snapshot, guided>>
  BY DEF Assemble
<1> HIDE DEF s
<1>4. /\ Len(stm') = Len(stm) + Len(queue)
      /\ \A i \in 1 .. Len(stm) + Len(queue) :
           stm'[i] = IF i <= Len(stm) THEN stm[i] ELSE s[i - Len(stm)]
  <2>1. stm \in Seq(Messages)
    BY DEF TypeOK
  <2>2. /\ Len(stm \o s) = Len(stm) + Len(s)
        /\ \A i \in 1 .. Len(stm) + Len(s) :
             (stm \o s)[i] = IF i <= Len(stm) THEN stm[i] ELSE s[i - Len(stm)]
    BY <1>1, <2>1, ConcatProperties
  <2> QED BY <1>1, <1>3, <2>2
<1>5. \A i \in 1 .. Len(stm') :
        IF i <= Len(stm) THEN i \in 1 .. Len(stm) /\ stm'[i] = stm[i]
        ELSE i - Len(stm) \in 1 .. Len(queue) /\ stm'[i].of = queue[i - Len(stm)]
  BY <1>0, <1>2, <1>4
<1>6. \A j \in 1 .. Len(queue) : queue[j] \in Nat
  BY DEF TypeOK
<1>7. InOrder(stm)'
  <2> SUFFICES ASSUME NEW i \in 1 .. Len(stm'), NEW j \in 1 .. Len(stm'), i < j,
                      stm'[i].what = "guidance", stm'[j].what = "guidance"
               PROVE  stm'[i].of < stm'[j].of
    BY DEF InOrder
  <2>1. CASE j <= Len(stm)
    BY <1>0, <1>5, <2>1 DEF Guidance, Earlier, InOrder
  <2>2. CASE i <= Len(stm) /\ j > Len(stm)
    <3>1. i \in 1 .. Len(stm) /\ stm'[i] = stm[i] /\ stm'[j].of = queue[j - Len(stm)]
      BY <1>0, <1>5, <2>2
    <3>2. j - Len(stm) \in 1 .. Len(queue)
      BY <1>0, <1>5, <2>2
    <3>3. stm[i].of < queue[j - Len(stm)]
      BY <3>1, <3>2 DEF Guidance, Earlier, Before
    <3> QED BY <3>1, <3>3
  <2>3. CASE i > Len(stm)
    <3>1. /\ stm'[i].of = queue[i - Len(stm)] /\ i - Len(stm) \in 1 .. Len(queue)
          /\ stm'[j].of = queue[j - Len(stm)] /\ j - Len(stm) \in 1 .. Len(queue)
      BY <1>0, <1>5, <2>3
    <3>2. i - Len(stm) < j - Len(stm)
      BY <1>0
    <3> QED BY <3>1, <3>2 DEF Guidance, Queued
  <2> QED BY <1>0, <2>1, <2>2, <2>3
<1>8. Before(stm, guided + 1)'
  <2> SUFFICES ASSUME NEW i \in 1 .. Len(stm'), stm'[i].what = "guidance"
               PROVE  stm'[i].of < guided + 1
    BY <1>3 DEF Before
  <2>1. CASE i <= Len(stm)
    BY <1>5, <2>1 DEF Guidance, Earlier, Before
  <2>2. CASE ~(i <= Len(stm))
    BY <1>0, <1>5, <1>6, <2>2 DEF Guidance, Queued
  <2> QED BY <2>1, <2>2
<1>9. Len(queue') = 0
  BY <1>3
<1>10. Earlier(stm)' /\ Queued'
  BY <1>7, <1>8, <1>9 DEF Earlier, Queued
<1>11. Earlier(snapshot)'
  BY <1>3, <1>9 DEF Guidance, Earlier, InOrder, Before
<1> QED BY <1>10, <1>11 DEF Guidance

\* A host sends the next one.
LEMMA GuidanceSent ==
    ASSUME TypeOK, Guidance, Guide
    PROVE  Guidance'
<1>0. guided \in Nat /\ Len(queue) \in Nat
  BY DEF TypeOK
<1>1. guided' = guided + 1 /\ UNCHANGED <<stm, snapshot>>
  BY DEF Guide
<1>2. /\ Len(queue') = Len(queue) + 1
      /\ \A j \in 1 .. Len(queue') :
           queue'[j] = IF j = Len(queue) + 1 THEN guided + 1 ELSE queue[j]
  BY <1>0 DEF Guide, TypeOK
<1>3. \A j \in 1 .. Len(queue') : j # Len(queue) + 1 => j \in 1 .. Len(queue)
  BY <1>0, <1>2
<1>4. \A j \in 1 .. Len(queue) : queue[j] \in Nat
  BY DEF TypeOK
<1>5. Queued'
  <2>1. ASSUME NEW j \in 1 .. Len(queue') PROVE queue'[j] <= guided'
    <3>1. CASE j = Len(queue) + 1
      BY <1>0, <1>1, <1>2, <3>1
    <3>2. CASE j # Len(queue) + 1
      <4>1. queue'[j] = queue[j] /\ queue[j] <= guided /\ queue[j] \in Nat
        BY <1>2, <1>3, <1>4, <3>2 DEF Guidance, Queued
      <4> QED BY <1>0, <1>1, <4>1
    <3> QED BY <3>1, <3>2
  <2>2. ASSUME NEW i \in 1 .. Len(queue'), NEW j \in 1 .. Len(queue'), i < j
        PROVE  queue'[i] < queue'[j]
    <3>1. i \in 1 .. Len(queue) /\ queue'[i] = queue[i]
      BY <1>0, <1>2, <2>2
    <3>2. CASE j = Len(queue) + 1
      BY <1>0, <1>2, <1>4, <3>1, <3>2 DEF Guidance, Queued
    <3>3. CASE j # Len(queue) + 1
      BY <1>2, <1>3, <2>2, <3>1, <3>3 DEF Guidance, Queued
    <3> QED BY <3>2, <3>3
  <2> QED BY <2>1, <2>2 DEF Queued
<1>6. ASSUME NEW s \in Seq(Messages), Earlier(s)
      PROVE  /\ InOrder(s) /\ Before(s, guided' + 1)
             /\ \A j \in 1 .. Len(queue') : Before(s, queue'[j])
  <2>1. ASSUME NEW i \in 1 .. Len(s) PROVE s[i].of \in Nat
    <3>1. s[i] \in Messages
      BY ElementOfSeq
    <3> QED BY <3>1 DEF Messages
  <2>2. Before(s, guided + 1) /\ Before(s, guided' + 1)
    BY <1>0, <1>1, <1>6, <2>1 DEF Earlier, Before
  <2>3. \A j \in 1 .. Len(queue') : Before(s, queue'[j])
    BY <1>2, <1>3, <1>6, <2>2 DEF Earlier
  <2> QED BY <1>6, <2>2, <2>3 DEF Earlier
<1>7. InOrder(stm)' /\ Before(stm, guided + 1)' /\ (\A j \in 1 .. Len(queue) : Before(stm, queue[j]))'
  BY <1>1, <1>6 DEF Guidance, TypeOK, InOrder, Before
<1>8. InOrder(snapshot)' /\ Before(snapshot, guided + 1)'
      /\ (\A j \in 1 .. Len(queue) : Before(snapshot, queue[j]))'
  BY <1>1, <1>6 DEF Guidance, TypeOK, InOrder, Before
<1> QED BY <1>5, <1>7, <1>8 DEF Guidance, Earlier

\* A message of the run or of an attempt is no guidance.
LEMMA OtherTold ==
    ASSUME TypeOK, NEW what \in Senders, NEW of \in Nat, NEW n \in Nat, what # "guidance"
    PROVE  /\ Message(what, of, n) \in Messages
           /\ Message(what, of, n).what # "guidance"
BY DEF Message, Messages

LEMMA OtherAdded ==
    ASSUME TypeOK, NEW what \in Senders, NEW n \in Nat, what # "guidance", Add(what, n)
    PROVE  \E m \in Messages : m.what # "guidance" /\ stm' = Append(stm, m)
<1>1. Now \in Nat
  BY DEF TypeOK, Now
<1> QED BY <1>1, OtherTold DEF Add

LEMMA GuidanceStep ==
    ASSUME TypeOK, Guidance, [Next]_vars
    PROVE  Guidance'
<1>1. CASE Guide
  BY <1>1, GuidanceSent
<1>2. CASE Propose \/ BeginModelDriven \/ CallsDone
  BY <1>2, GuidanceTold DEF Propose, BeginModelDriven, CallsDone
<1>3. CASE OpenSession
  <2>1. \E m \in Messages : m.what # "guidance" /\ stm' = Append(stm, m)
    BY <1>3, OtherTold DEF OpenSession, TypeOK, Senders
  <2> QED BY <1>3, <2>1, GuidanceKept DEF OpenSession
<1>4. CASE Answer \/ RequestCalls
  <2>1. \E m \in Messages : m.what # "guidance" /\ stm' = Append(stm, m)
    BY <1>4, OtherAdded, BoundAssumption, SMTT(40) DEF Answer, RequestCalls, Senders
  <2> QED BY <1>4, <2>1, GuidanceKept DEF Answer, RequestCalls
<1>5. CASE ToolLoop
  <2>1. UNCHANGED <<queue, guided, snapshot>>
    BY <1>5 DEF ToolLoop, Charge, DenyCall, Announce, NotInvoked, Invoke, ReportFailed,
        ReportDone, ReportNotDone, CallEnds
  <2>2. stm' = stm \/ Add("result", 0)
    BY <1>5 DEF ToolLoop, Charge, DenyCall, Announce, NotInvoked, Invoke, ReportFailed,
        ReportDone, ReportNotDone, CallEnds
  <2>3. Add("result", 0) => \E m \in Messages : m.what # "guidance" /\ stm' = Append(stm, m)
    BY OtherAdded DEF Senders
  <2> QED BY <2>1, <2>2, <2>3, GuidanceKept
<1>6. CASE Milestone
  <2>1. UNCHANGED <<queue, guided>> /\ snapshot' \in {stm, snapshot} /\ stm' \in {stm, snapshot}
    BY <1>6 DEF Milestone, BeginAttempt, GiveUp, DenyPlan, AllowPlan, Replan, VerifySucceeds,
        VerifyFails, Remediate, CreateSnapshot, Commit, Rollback
  <2> QED BY <2>1, GuidanceKept
<1>7. CASE \/ Execute \/ EnterMilestone \/ CloseSession
           \/ NoPlanner \/ AcceptPlan \/ RejectPlan \/ PlansExhausted
           \/ BeginSteps \/ BeginIteration \/ BlockModel \/ Generate \/ NextCall \/ ExecuteEnds
           \/ Refuse \/ Raise \/ Request \/ Resume \/ UNCHANGED vars
  <2>1. UNCHANGED <<queue, guided, snapshot, stm>>
    BY <1>7 DEF Execute, EnterMilestone, CloseSession, NoPlanner, AcceptPlan, RejectPlan,
        PlansExhausted, BeginSteps, BeginIteration, BlockModel, Generate, NextCall,
        ExecuteEnds, Refuse, Raise, Unwind, Request, Resume, vars
  <2> QED BY <2>1, GuidanceKept
<1> QED BY <1>1, <1>2, <1>3, <1>4, <1>5, <1>6, <1>7 DEF Next, Work, Others, Session, Planning,
        Executing

\* Guidance enters the conversation once and in order, through rollbacks and
\* later runs, and after a pause or a cancel request at most one more model call
\* begins (GuidanceQueue, Context.assemble(), _poll_or_raise of the engines).
THEOREM HostIsHeard == Spec => []HostHeard
<1>1. Init => Heeding /\ Guidance
  <2> SUFFICES ASSUME Init PROVE Heeding /\ Guidance
    OBVIOUS
  <2>1. Len(stm) = 0 /\ Len(snapshot) = 0 /\ Len(queue) = 0
    BY DEF Init
  <2>2. Guidance
    BY <2>1 DEF Guidance, Earlier, InOrder, Before, Queued
  <2> QED BY <2>2 DEF Init, Heeding
<1>2. TypeOK /\ Heeding /\ Guidance /\ [Next]_vars => (Heeding /\ Guidance)'
  BY HeedingStep, GuidanceStep
<1>3. TypeOK /\ Heeding /\ Guidance => HostHeard
  <2> SUFFICES ASSUME TypeOK, Heeding, Guidance PROVE HostHeard
    OBVIOUS
  <2>1. DOMAIN stm = 1 .. Len(stm) /\ DOMAIN queue = 1 .. Len(queue)
    BY DEF TypeOK
  <2>2. GuidanceOnce
    BY <2>1 DEF Guidance, Earlier, InOrder, Before, Queued, GuidanceOnce
  <2> QED BY <2>2 DEF Heeding, SignalHeeded, HostHeard
<1> QED BY LoopsTypeCorrect, <1>1, <1>2, <1>3, PTL DEF Spec

----------------------------------------------------------------------------
(* The verdict on a run *)

\* While a milestone is being worked on it is not the last one done.
InMilestone == InAttempt \cup {"attempt", "remediate", "closing"}

\* The last attempt of this run, if there was one, was dropped.
LastDropped == Now > trail.first => fate[Now] = "dropped"

\* What makes SessionHonest inductive: the count of kept attempts is the count
\* of milestones done, and an attempt that failed was the last.
Tally ==
    /\ trail.first <= Now
    /\ Now > trail.first => MaxAttempts > 0
    /\ at \in InAttempt => Now > trail.first
    /\ at # "idle" => Cardinality(Kept) = pos.milestone /\ pos.milestone <= Milestones
    /\ at \in InMilestone => pos.milestone < Milestones
    /\ at \in {"remediate", "closing"} \/ (at = "attempt" /\ pos.attempt > 0) => LastDropped
    /\ at = "idle" /\ result = "success" => Cardinality(Kept) = Milestones
    /\ at = "idle" /\ result = "failure" => Cardinality(Kept) < Milestones /\ LastDropped

\* Kept attempts are some of finitely many.
LEMMA KeptFinite ==
    ASSUME TypeOK
    PROVE  /\ Now \in Nat /\ trail.first \in Nat /\ pos \in Counters
           /\ IsFiniteSet(Kept) /\ Cardinality(Kept) \in Nat
<1>1. Now \in Nat /\ trail.first \in Nat /\ pos \in Counters
  BY DEF TypeOK, Now
<1>2. trail.first + 1 \in Int /\ Now \in Int
  BY <1>1
<1>3. IsFiniteSet(trail.first + 1 .. Now)
  BY <1>2, FS_Interval
<1>4. Kept \subseteq trail.first + 1 .. Now
  BY DEF Kept
<1>5. IsFiniteSet(Kept)
  BY <1>3, <1>4, FS_Subset
<1> QED BY <1>1, <1>5, FS_CardinalityType

\* Only a commit adds to them.
LEMMA KeptSame ==
    ASSUME TypeOK, trail'.first = trail.first,
           \/ fate' = fate
           \/ fate' = Append(fate, "open")
           \/ Open /\ \E f \in {"dropped", "aborted"} : fate' = [fate EXCEPT ![Now] = f]
    PROVE  Kept' = Kept
<1>0. fate \in Seq(Fates) /\ trail.first \in Nat
  BY DEF TypeOK
<1>1. CASE fate' = fate
  BY <1>1 DEF Kept, Now
<1>2. CASE fate' = Append(fate, "open")
  <2>1. /\ Len(fate') = Len(fate) + 1 /\ fate'[Len(fate) + 1] = "open"
        /\ \A i \in 1 .. Len(fate) : fate'[i] = fate[i]
    BY <1>0, <1>2
  <2> QED BY <1>0, <2>1 DEF Kept, Now
<1>3. CASE Open /\ \E f \in {"dropped", "aborted"} : fate' = [fate EXCEPT ![Now] = f]
  <2>1. Len(fate) \in 1 .. Len(fate) /\ fate[Len(fate)] = "open"
    BY <1>0, <1>3 DEF Open, Now
  <2>2. /\ Len(fate') = Len(fate) /\ fate'[Len(fate)] \in {"dropped", "aborted"}
        /\ \A i \in 1 .. Len(fate) : i # Len(fate) => fate'[i] = fate[i]
    BY <1>0, <1>3, <2>1 DEF Now
  <2> QED BY <1>0, <2>1, <2>2 DEF Kept, Now
<1> QED BY <1>1, <1>2, <1>3

\* A commit adds one.
LEMMA KeptMore ==
    ASSUME TypeOK, Open, Commit, trail'.first = trail.first, Now > trail.first
    PROVE  Now' = Now /\ Cardinality(Kept') = Cardinality(Kept) + 1
<1>0. fate \in Seq(Fates) /\ trail.first \in Nat
  BY DEF TypeOK
<1>1. Len(fate) \in 1 .. Len(fate) /\ fate[Len(fate)] = "open"
  BY <1>0 DEF Open, Now
<1>2. /\ Len(fate') = Len(fate) /\ fate'[Len(fate)] = "kept"
      /\ \A i \in 1 .. Len(fate) : i # Len(fate) => fate'[i] = fate[i]
  BY <1>0, <1>1 DEF Commit, Now
<1>3. Kept' = Kept \cup {Now} /\ Now \notin Kept /\ Now' = Now
  BY <1>0, <1>1, <1>2 DEF Kept, Now
<1>4. IsFiniteSet(Kept)
  BY KeptFinite
<1> QED BY <1>3, <1>4, FS_AddElement

\* A rollback drops the attempt that is open.
LEMMA DropsLast ==
    ASSUME TypeOK, Open, Rollback, trail'.first = trail.first
    PROVE  Now' = Now /\ Kept' = Kept /\ LastDropped'
<1>1. Len(fate) \in 1 .. Len(fate)
  BY DEF TypeOK, Open, Now
<1>2. Len(fate') = Len(fate) /\ fate'[Len(fate)] = "dropped"
  BY <1>1 DEF Rollback, TypeOK, Now
<1>3. Kept' = Kept
  BY KeptSame DEF Rollback
<1> QED BY <1>2, <1>3 DEF LastDropped, Now

LEMMA TallySession ==
    ASSUME TypeOK, Tally, Session
    PROVE  Tally'
<1>0. Now \in Nat /\ trail.first \in Nat /\ pos \in Counters /\ Cardinality(Kept) \in Nat
      /\ Milestones \in Nat
  BY KeptFinite, BoundAssumption
<1>1. fate' = fate /\ Now' = Now
  BY DEF Session, Execute, OpenSession, EnterMilestone, CloseSession, Now
<1>2. CASE Execute
  <2>1. trail'.first = Now /\ pos'.milestone = 0 /\ at' = "begin"
    BY <1>0, <1>2 DEF Execute, TypeOK, Counters
  <2>2. Kept' = {}
    BY <1>0, <1>1, <2>1 DEF Kept
  <2>3. Cardinality(Kept') = 0
    BY <2>2, FS_EmptySet
  <2> QED BY <1>0, <1>1, <2>1, <2>3 DEF Tally, InMilestone, InAttempt
<1>3. CASE OpenSession \/ EnterMilestone \/ CloseSession
  <2>1. trail' = trail
    BY <1>3 DEF OpenSession, EnterMilestone, CloseSession
  <2>2. Kept' = Kept /\ (LastDropped' <=> LastDropped)
    BY <1>1, <2>1 DEF Kept, LastDropped
  <2>3. CASE OpenSession
    BY <1>0, <1>1, <2>1, <2>2, <2>3 DEF OpenSession, Tally, InMilestone, InAttempt
  <2>4. CASE EnterMilestone
    <3>1. pos'.milestone = pos.milestone /\ pos'.attempt = 0
      BY <1>0, <2>4 DEF EnterMilestone, Counters
    <3> QED BY <1>0, <1>1, <2>1, <2>2, <2>4, <3>1
            DEF EnterMilestone, Tally, InMilestone, InAttempt
  <2>5. CASE CloseSession
    BY <1>0, <1>1, <2>1, <2>2, <2>5 DEF CloseSession, Tally, InMilestone, InAttempt
  <2> QED BY <1>3, <2>3, <2>4, <2>5
<1> QED BY <1>2, <1>3 DEF Session

LEMMA TallyMilestone ==
    ASSUME TypeOK, OpenInAttempt, Tally, Milestone
    PROVE  Tally'
<1>0. Now \in Nat /\ trail.first \in Nat /\ pos \in Counters /\ Cardinality(Kept) \in Nat
      /\ Milestones \in Nat /\ MaxAttempts \in Nat /\ pos.milestone \in Nat /\ pos.attempt \in Nat
  BY KeptFinite, BoundAssumption DEF Counters
<1>1. trail' = trail
  BY DEF Milestone, BeginAttempt, GiveUp, DenyPlan, AllowPlan, Replan, VerifySucceeds,
      VerifyFails, Remediate
<1>2. CASE BeginAttempt
  <2>1. fate' = Append(fate, "open") /\ Now' = Now + 1 /\ MaxAttempts > 0
    BY <1>0, <1>2, SMTT(40) DEF BeginAttempt, CreateSnapshot, Now, TypeOK
  <2>2. Kept' = Kept
    BY <1>1, <2>1, KeptSame
  <2>3. pos'.milestone = pos.milestone
    BY <1>0, <1>2 DEF BeginAttempt, Counters
  <2> QED BY <1>0, <1>1, <1>2, <2>1, <2>2, <2>3 DEF BeginAttempt, Tally, InMilestone, InAttempt
<1>3. CASE DenyPlan \/ Replan \/ VerifyFails
  <2>1. Open /\ Rollback
    BY <1>3 DEF DenyPlan, Replan, VerifyFails, OpenInAttempt, InAttempt
  <2>2. Now' = Now /\ Kept' = Kept /\ LastDropped'
    BY <1>1, <2>1, DropsLast
  <2>3. at \in InAttempt /\ at' \in {"closing", "attempt", "remediate"} /\ pos' = pos
    BY <1>3 DEF DenyPlan, Replan, VerifyFails, InAttempt
  <2> QED BY <1>0, <1>1, <2>2, <2>3 DEF Tally, InMilestone, InAttempt
<1>4. CASE VerifySucceeds
  <2>1. Open /\ Commit /\ at \in InAttempt /\ at' = "session"
    BY <1>4 DEF VerifySucceeds, OpenInAttempt, InAttempt
  <2>2. Now > trail.first /\ pos.milestone < Milestones /\ Cardinality(Kept) = pos.milestone
    BY <2>1 DEF Tally, InMilestone, InAttempt
  <2>3. Now' = Now /\ Cardinality(Kept') = Cardinality(Kept) + 1
    BY <1>1, <2>1, <2>2, KeptMore
  <2>4. pos'.milestone = pos.milestone + 1
    BY <1>0, <1>4 DEF VerifySucceeds, Counters
  <2> QED BY <1>0, <1>1, <2>1, <2>2, <2>3, <2>4 DEF Tally, InMilestone, InAttempt
<1>5. CASE GiveUp \/ AllowPlan \/ Remediate
  <2>1. fate' = fate /\ Now' = Now /\ pos' = pos
    BY <1>5 DEF GiveUp, AllowPlan, Remediate, Now
  <2>2. Kept' = Kept /\ (LastDropped' <=> LastDropped)
    BY <1>1, <2>1 DEF Kept, LastDropped
  <2>3. CASE GiveUp
    <3>1. at = "attempt" /\ at' = "closing" /\ pos.attempt = MaxAttempts
      BY <2>3 DEF GiveUp
    <3>2. LastDropped
      BY <1>0, <3>1 DEF Tally, LastDropped
    <3> QED BY <1>0, <1>1, <2>1, <2>2, <3>1, <3>2 DEF Tally, InMilestone, InAttempt
  <2>4. CASE AllowPlan \/ Remediate
    BY <1>0, <1>1, <2>1, <2>2, <2>4 DEF AllowPlan, Remediate, Tally, InMilestone, InAttempt
  <2> QED BY <1>5, <2>3, <2>4
<1> QED BY <1>2, <1>3, <1>4, <1>5 DEF Milestone

\* Within an attempt nothing of it changes.
LEMMA TallyWithin ==
    ASSUME TypeOK, Tally, Planning \/ Executing \/ ToolLoop
    PROVE  Tally'
<1>0. pos \in Counters
  BY DEF TypeOK
<1>1. at \in InAttempt /\ at' \in InAttempt
  BY DEF Planning, NoPlanner, Propose, AcceptPlan, RejectPlan, PlansExhausted, Executing,
      BeginModelDriven, BeginSteps, BeginIteration, BlockModel, Generate, Answer,
      RequestCalls, NextCall, CallsDone, ExecuteEnds, ToolLoop, Charge, DenyCall,
      Announce, NotInvoked, Invoke, ReportFailed, ReportDone, ReportNotDone, CallEnds,
      InAttempt
<1>2. fate' = fate
  BY DEF Planning, NoPlanner, Propose, AcceptPlan, RejectPlan, PlansExhausted, Executing,
      BeginModelDriven, BeginSteps, BeginIteration, BlockModel, Generate, Answer,
      RequestCalls, NextCall, CallsDone, ExecuteEnds, ToolLoop, Charge, DenyCall,
      Announce, NotInvoked, Invoke, ReportFailed, ReportDone, ReportNotDone, CallEnds,
      Assemble
<1>3. trail'.first = trail.first
  <2>1. trail \in Trails
    BY DEF TypeOK, Trails
  <2> QED BY <2>1 DEF Planning, NoPlanner, Propose, AcceptPlan, RejectPlan, PlansExhausted,
      Executing, BeginModelDriven, BeginSteps, BeginIteration, BlockModel, Generate, Answer,
      RequestCalls, NextCall, CallsDone, ExecuteEnds, ToolLoop, Charge, DenyCall,
      Announce, NotInvoked, Invoke, ReportFailed, ReportDone, ReportNotDone, Report, Trails
<1>4. pos'.milestone = pos.milestone
  BY <1>0 DEF Planning, NoPlanner, Propose, AcceptPlan, RejectPlan, PlansExhausted, Executing,
      BeginModelDriven, BeginSteps, BeginIteration, BlockModel, Generate, Answer,
      RequestCalls, NextCall, CallsDone, ExecuteEnds, ToolLoop, Charge, DenyCall,
      Announce, NotInvoked, Invoke, ReportFailed, ReportDone, ReportNotDone, CallEnds,
      Counters
<1>5. Kept' = Kept /\ Now' = Now
  BY <1>2, <1>3 DEF Kept, Now
<1> QED BY <1>1, <1>3, <1>4, <1>5 DEF Tally, InMilestone, InAttempt

LEMMA TallyStep ==
    ASSUME TypeOK, OpenInAttempt, Tally, [Next]_vars
    PROVE  Tally'
<1>1. CASE Refuse \/ Raise
  <2>1. trail' = trail /\ at' = "idle" /\ result' = "raised"
    BY <1>1 DEF Refuse, Raise, Unwind
  <2>2. fate' = fate \/ (Open /\ fate' = [fate EXCEPT ![Now] = "aborted"])
    BY <1>1 DEF Refuse, Raise, Unwind
  <2>3. Now' = Now
    BY <2>2 DEF Now, TypeOK
  <2> QED BY <2>1, <2>3 DEF Tally, InMilestone, InAttempt
<1>2. CASE Others \/ UNCHANGED vars
  <2>1. UNCHANGED <<at, pos, result, fate, trail>>
    BY <1>2 DEF Others, Guide, Request, Resume, vars
  <2>2. Kept' = Kept /\ Now' = Now /\ (LastDropped' <=> LastDropped)
    BY <2>1 DEF Kept, Now, LastDropped
  <2> QED BY <2>1, <2>2 DEF Tally
<1> QED BY <1>1, <1>2, TallySession, TallyMilestone, TallyWithin DEF Next, Work

\* A run succeeds when one attempt at each of its milestones was kept, and
\* fails only after a last attempt that was dropped (_run_session_loop).
THEOREM VerdictsAreHonest == Spec => []SessionHonest
<1>1. Init => Tally
  <2> SUFFICES ASSUME Init PROVE Tally
    OBVIOUS
  <2>1. Len(fate) = 0 /\ trail.first = 0 /\ at = "idle" /\ result = "none"
    BY DEF Init
  <2> QED BY <2>1 DEF Tally, Now, InMilestone, InAttempt
<1>2. TypeOK /\ OpenInAttempt /\ Tally /\ [Next]_vars => Tally'
  BY TallyStep
<1>3. Tally => SessionHonest
  BY DEF Tally, SessionHonest, LastDropped
<1>4. IInv => TypeOK /\ OpenInAttempt
  BY DEF IInv
<1> QED BY LoopsInvariant, <1>1, <1>2, <1>3, <1>4, PTL DEF Spec

----------------------------------------------------------------------------
(* Calls and their results *)

\* The calls of the message at i have their results right behind it.
AnsweredIn(s, i) == \A k \in 1 .. s[i].calls : i + k <= Len(s) /\ s[i + k].what = "result"

\* So have all in s, but for attempts that an exception broke off.
Settled(s, f, i) == s[i].what = "calls" => f[s[i].of] = "aborted" \/ AnsweredIn(s, i)
Complete(s, f) == \A i \in 1 .. Len(s) : Settled(s, f, i)

\* The message at l is being answered: so many results are behind it as calls
\* of it are done.
Answering(l) ==
    /\ stm[l].what = "calls" /\ stm[l].of = Now
    /\ Len(stm) + pos.todo = l + stm[l].calls
    /\ \A j \in l + 1 .. Len(stm) : stm[j].what = "result"
    /\ \A i \in 1 .. Len(stm) : i # l => Settled(stm, fate, i)

Calling == ~StepDriven /\ at \in {"calls", "tool", "gate", "invoke", "acted"}

\* What makes CallsAnswered inductive.
Replied ==
    /\ StepDriven => at \notin {"model", "asked", "generating", "calls"}
    /\ ~StepDriven => at # "steps"
    /\ Complete(snapshot, fate)
    /\ IF Calling THEN \E l \in 1 .. Len(stm) : Answering(l) ELSE Complete(stm, fate)

LEMMA CallsOf ==
    ASSUME NEW s \in Seq(Messages), NEW i \in 1 .. Len(s)
    PROVE  s[i].calls \in Nat
<1>1. s[i] \in Messages
  BY ElementOfSeq
<1> QED BY <1>1 DEF Messages

LEMMA CompleteGrows ==
    ASSUME NEW s \in Seq(Messages), NEW t \in Seq(Messages), NEW f, Complete(s, f),
           \A j \in 1 .. Len(t) : t[j].what # "calls"
    PROVE  Complete(s \o t, f)
<1>1. /\ Len(s \o t) = Len(s) + Len(t) /\ Len(s) \in Nat /\ Len(t) \in Nat
      /\ \A i \in 1 .. Len(s) : (s \o t)[i] = s[i]
      /\ \A i \in 1 .. Len(s \o t) : i > Len(s) =>
           i - Len(s) \in 1 .. Len(t) /\ (s \o t)[i] = t[i - Len(s)]
  OBVIOUS
<1> DEFINE u == s \o t
<1>2. ASSUME NEW i \in 1 .. Len(u) PROVE Settled(u, f, i)
  <2>1. CASE i > Len(s)
    BY <1>1, <2>1 DEF Settled
  <2>2. CASE i <= Len(s)
    <3>1. i \in 1 .. Len(s) /\ u[i] = s[i] /\ s[i].calls \in Nat
      <4>1. i \in 1 .. Len(s) /\ u[i] = s[i]
        BY <1>1, <2>2
      <4> QED BY <4>1, CallsOf
    <3>2. AnsweredIn(s, i) => AnsweredIn(u, i)
      <4> SUFFICES ASSUME AnsweredIn(s, i), NEW k \in 1 .. s[i].calls
                   PROVE  i + k <= Len(u) /\ u[i + k].what = "result"
        BY <3>1 DEF AnsweredIn
      <4>1. i + k <= Len(s) /\ s[i + k].what = "result"
        BY DEF AnsweredIn
      <4>2. i + k \in 1 .. Len(s)
        BY <3>1, <4>1
      <4> QED BY <1>1, <4>1, <4>2
    <3>3. Settled(s, f, i)
      BY <3>1 DEF Complete
    <3> QED BY <3>1, <3>2, <3>3 DEF Settled
  <2> QED BY <1>1, <2>1, <2>2
<1> QED BY <1>2 DEF Complete

\* What becomes of an attempt: only the one that is open changes its fate.
FateMoves == \/ fate' = fate
             \/ fate' = Append(fate, "open")
             \/ Open /\ \E v \in Fates : fate' = [fate EXCEPT ![Now] = v]

LEMMA AbortedStays ==
    ASSUME TypeOK, FateMoves, NEW n \in 1 .. Len(fate), fate[n] = "aborted"
    PROVE  fate'[n] = "aborted"
<1>0. fate \in Seq(Fates)
  BY DEF TypeOK
<1>1. CASE Open /\ \E v \in Fates : fate' = [fate EXCEPT ![Now] = v]
  <2>1. fate[Now] = "open"
    BY <1>1 DEF Open
  <2> QED BY <1>0, <1>1, <2>1
<1>2. CASE fate' = Append(fate, "open")
  BY <1>0, <1>2
<1>3. CASE fate' = fate
  BY <1>3
<1> QED BY <1>1, <1>2, <1>3 DEF FateMoves

LEMMA CompleteStays ==
    ASSUME TypeOK, Provenance, FateMoves
    PROVE  /\ Complete(stm, fate) => Complete(stm, fate')
           /\ Complete(snapshot, fate) => Complete(snapshot, fate')
<1>1. ASSUME NEW i \in 1 .. Len(stm), Settled(stm, fate, i) PROVE Settled(stm, fate', i)
  BY <1>1, AbortedStays DEF Settled, Provenance, ByAttempt
<1>2. ASSUME NEW i \in 1 .. Len(snapshot), Settled(snapshot, fate, i)
      PROVE  Settled(snapshot, fate', i)
  BY <1>2, AbortedStays DEF Settled, Provenance, ByAttempt
<1> QED BY <1>1, <1>2 DEF Complete

\* Memory, snapshot and fates are left alone outside the calls.
LEMMA RepliedIdle ==
    ASSUME TypeOK, Replied, Session \/ GiveUp \/ AllowPlan \/ Remediate \/ NoPlanner
              \/ AcceptPlan \/ RejectPlan \/ PlansExhausted \/ BeginSteps \/ BeginIteration
              \/ BlockModel \/ Generate \/ ExecuteEnds
    PROVE  Replied'
<1>1. CASE OpenSession
  <2>1. ~Calling /\ ~Calling' /\ at' = "session" /\ fate' = fate /\ snapshot' = snapshot
    BY <1>1 DEF OpenSession, Calling
  <2> DEFINE t == <<Message("user", runs, 0)>>
  <2>2. t \in Seq(Messages) /\ Len(t) = 1 /\ t[1].what = "user" /\ stm' = stm \o t
    BY <1>1 DEF OpenSession, TypeOK, Message, Messages, Senders
  <2> HIDE DEF t
  <2>3. Complete(stm \o t, fate)
    <3>1. stm \in Seq(Messages) /\ Complete(stm, fate)
      BY <2>1 DEF TypeOK, Replied
    <3>2. \A j \in 1 .. Len(t) : t[j].what # "calls"
      BY <2>2
    <3> QED BY <2>2, <3>1, <3>2, CompleteGrows
  <2> QED BY <2>1, <2>2, <2>3 DEF Replied
<1>2. CASE \/ Execute \/ EnterMilestone \/ CloseSession \/ GiveUp \/ AllowPlan \/ Remediate
           \/ NoPlanner \/ AcceptPlan \/ RejectPlan \/ PlansExhausted \/ BeginSteps
           \/ BeginIteration \/ BlockModel \/ Generate \/ ExecuteEnds
  <2>1. UNCHANGED <<stm, snapshot, fate>> /\ ~Calling /\ ~Calling'
    BY <1>2 DEF Execute, EnterMilestone, CloseSession, GiveUp, AllowPlan, Remediate, NoPlanner,
        AcceptPlan, RejectPlan, PlansExhausted, BeginSteps, BeginIteration, BlockModel,
        Generate, ExecuteEnds, Calling
  <2>2. /\ StepDriven => at' \notin {"model", "asked", "generating", "calls"}
        /\ ~StepDriven => at' # "steps"
    BY <1>2 DEF Replied, Execute, EnterMilestone, CloseSession, GiveUp, AllowPlan, Remediate,
        NoPlanner, AcceptPlan, RejectPlan, PlansExhausted, BeginSteps, BeginIteration,
        BlockModel, Generate, ExecuteEnds
  <2> QED BY <2>1, <2>2 DEF Replied
<1> QED BY <1>1, <1>2 DEF Session

\* What is assembled or answered is no call.
LEMMA RepliedTells ==
    ASSUME TypeOK, Replied, Propose \/ BeginModelDriven \/ CallsDone \/ Answer
    PROVE  Replied'
<1>1. /\ fate' = fate /\ snapshot' = snapshot /\ ~Calling'
      /\ StepDriven => at' \notin {"model", "asked", "generating", "calls"}
      /\ at' # "steps"
  BY DEF Replied, Propose, BeginModelDriven, CallsDone, Answer, Assemble, Calling
<1>2. Complete(stm, fate)
  <2>1. CASE Propose \/ BeginModelDriven \/ Answer
    BY <2>1 DEF Replied, Propose, BeginModelDriven, Answer, Calling
  <2>2. CASE CallsDone
    <3>1. Calling /\ pos.todo = 0
      BY <2>2 DEF CallsDone, Calling, Replied
    <3>2. PICK l \in 1 .. Len(stm) : Answering(l)
      BY <3>1 DEF Replied
    <3>3. Len(stm) \in Nat /\ stm[l].calls \in Nat
      BY CallsOf DEF TypeOK
    <3>4. Len(stm) = l + stm[l].calls
      BY <3>1, <3>2, <3>3 DEF Answering
    <3>5. AnsweredIn(stm, l)
      BY <3>2, <3>3, <3>4, SMTT(40) DEF Answering, AnsweredIn
    <3> QED BY <3>2, <3>5 DEF Answering, Complete, Settled
  <2> QED BY <2>1, <2>2
<1>3. \E t \in Seq(Messages) : stm' = stm \o t /\ \A j \in 1 .. Len(t) : t[j].what # "calls"
  <2>1. CASE Answer
    <3> DEFINE m == Message("answer", Now, 0)
               t == <<m>>
    <3>0. m \in Messages /\ m.what = "answer"
      BY DEF TypeOK, Message, Messages, Senders, Now
    <3>1. t \in Seq(Messages) /\ Len(t) = 1 /\ t[1].what = "answer" /\ stm' = stm \o t
      <4>1. stm' = Append(stm, m)
        BY <2>1 DEF Answer, Add
      <4> HIDE DEF m
      <4> QED BY <3>0, <4>1 DEF TypeOK
    <3> HIDE DEF t
    <3> QED BY <3>1, SMTT(40)
  <2>2. CASE Propose \/ BeginModelDriven \/ CallsDone
    <3> DEFINE t == [i \in 1 .. Len(queue) |-> Message("guidance", queue[i], 0)]
    <3>1. t \in Seq(Messages) /\ Len(t) = Len(queue)
      BY DEF TypeOK, Message, Messages, Senders
    <3>2. \A j \in 1 .. Len(t) : t[j].what = "guidance"
      BY <3>1 DEF Message
    <3>3. stm' = stm \o t
      BY <2>2 DEF Propose, BeginModelDriven, CallsDone, Assemble
    <3> HIDE DEF t
    <3> QED BY <3>1, <3>2, <3>3
  <2> QED BY <2>1, <2>2
<1>4. stm \in Seq(Messages)
  BY DEF TypeOK
<1>5. Complete(stm', fate)
  BY <1>2, <1>3, <1>4, CompleteGrows
<1> QED BY <1>1, <1>5 DEF Replied

\* An attempt begins, is kept, or is dropped.
LEMMA RepliedSettles ==
    ASSUME TypeOK, OpenInAttempt, Provenance, Replied,
           BeginAttempt \/ DenyPlan \/ Replan \/ VerifyFails \/ VerifySucceeds
    PROVE  Replied'
<1>1. ~Calling' /\ at' \notin {"model", "asked", "generating", "calls", "steps"}
  BY DEF BeginAttempt, DenyPlan, Replan, VerifyFails, VerifySucceeds, Calling
<1>2. CASE BeginAttempt
  <2>1. FateMoves /\ snapshot' = stm /\ stm' = stm /\ ~Calling
    BY <1>2 DEF BeginAttempt, CreateSnapshot, FateMoves, Calling
  <2> QED BY <1>1, <2>1, CompleteStays DEF Replied
<1>3. CASE DenyPlan \/ Replan \/ VerifyFails
  <2>1. Open /\ stm' = snapshot /\ snapshot' = snapshot /\ FateMoves
    BY <1>3 DEF DenyPlan, Replan, VerifyFails, Rollback, OpenInAttempt, InAttempt, FateMoves, Fates
  <2> QED BY <1>1, <2>1, CompleteStays DEF Replied
<1>4. CASE VerifySucceeds
  <2>1. Open /\ stm' = stm /\ snapshot' = snapshot /\ FateMoves /\ ~Calling
    BY <1>4 DEF VerifySucceeds, Commit, OpenInAttempt, InAttempt, FateMoves, Fates, Calling
  <2> QED BY <1>1, <2>1, CompleteStays DEF Replied
<1> QED BY <1>2, <1>3, <1>4

\* The message that asks for calls, none of them done.
LEMMA RepliedAsks ==
    ASSUME TypeOK, Replied, RequestCalls
    PROVE  Replied'
<1>1. PICK n \in 1 .. MaxCalls : Add("calls", n) /\ pos' = [pos EXCEPT !.todo = n]
  BY DEF RequestCalls
<1>2. n \in Nat /\ pos'.todo = n /\ fate' = fate /\ snapshot' = snapshot
  <2>1. n \in Nat /\ pos \in Counters
    BY BoundAssumption DEF TypeOK
  <2>2. pos'.todo = n
    BY <1>1, <2>1 DEF Counters
  <2> QED BY <2>1, <2>2 DEF RequestCalls
<1>3. ~StepDriven /\ ~Calling /\ Calling' /\ at' = "calls" /\ Complete(stm, fate)
  BY DEF RequestCalls, Replied, Calling
<1>0. PICK l \in Nat : l = Len(stm) + 1
  BY DEF TypeOK
<1>4. /\ Len(stm') = l /\ Len(stm) \in Nat /\ stm'[l] = Message("calls", Now, n)
      /\ \A i \in 1 .. Len(stm) : stm'[i] = stm[i]
  BY <1>1, <1>0 DEF Add, TypeOK
<1>5. ASSUME NEW i \in 1 .. Len(stm'), i # l PROVE Settled(stm', fate', i)
  <2>1. i \in 1 .. Len(stm) /\ stm'[i] = stm[i]
    BY <1>4, <1>5, <1>0
  <2>2. Settled(stm, fate, i) /\ stm[i].calls \in Nat
    BY <1>3, <2>1, CallsOf DEF Complete, TypeOK
  <2>3. AnsweredIn(stm, i) => AnsweredIn(stm', i)
    <3> SUFFICES ASSUME AnsweredIn(stm, i), NEW k \in 1 .. stm[i].calls
                 PROVE  i + k <= Len(stm') /\ stm'[i + k].what = "result"
      BY <2>1 DEF AnsweredIn
    <3>1. i + k <= Len(stm) /\ stm[i + k].what = "result"
      BY DEF AnsweredIn
    <3>2. i + k \in 1 .. Len(stm)
      BY <1>4, <2>1, <2>2, <3>1
    <3> QED BY <1>4, <1>0, <3>1, <3>2
  <2> QED BY <1>2, <2>1, <2>2, <2>3 DEF Settled
<1>6. stm'[l].what = "calls" /\ stm'[l].of = Now /\ stm'[l].calls = n /\ Now' = Now
  BY <1>2, <1>4 DEF Message, Now
<1>7. Answering(l)'
  <2>1. Len(stm') + pos'.todo = l + stm'[l].calls
    BY <1>2, <1>4, <1>6, <1>0
  <2>2. \A j \in l + 1 .. Len(stm') : stm'[j].what = "result"
    BY <1>4, <1>0
  <2> QED BY <1>5, <1>6, <2>1, <2>2, Zenon DEF Answering
<1>8. l \in 1 .. Len(stm')
  BY <1>4, <1>0
<1>9. Complete(snapshot, fate)
  BY DEF Replied
<1>10. \E k \in 1 .. Len(stm') : Answering(k)'
  BY <1>7, <1>8
<1> QED BY <1>2, <1>3, <1>9, <1>10 DEF Replied

\* A call that is under way, or whose result is added.
LEMMA RepliedCalls ==
    ASSUME TypeOK, CallsLeft, Replied, ToolLoop \/ NextCall
    PROVE  Replied'
<1>0. fate' = fate /\ snapshot' = snapshot /\ pos \in Counters /\ Now' = Now
      /\ stm \in Seq(Messages) /\ Len(stm) \in Nat
  BY DEF TypeOK, ToolLoop, Charge, DenyCall, Announce, NotInvoked, Invoke, ReportFailed,
      ReportDone, ReportNotDone, CallEnds, NextCall, Now
<1>1. CASE StepDriven
  <2>1. stm' = stm /\ at' \notin {"model", "asked", "generating", "calls"}
    BY <1>1 DEF Replied, ToolLoop, Charge, DenyCall, Announce, NotInvoked, Invoke, ReportFailed,
      ReportDone, ReportNotDone, CallEnds, NextCall
  <2> QED BY <1>0, <1>1, <2>1 DEF Replied, Calling
<1>2. CASE ~StepDriven
  <2>1. Calling /\ Calling' /\ at' # "steps"
    BY <1>2 DEF Replied, Calling, ToolLoop, Charge, DenyCall, Announce, NotInvoked, Invoke,
      ReportFailed, ReportDone, ReportNotDone, CallEnds, NextCall
  <2>2. PICK l \in 1 .. Len(stm) : Answering(l)
    BY <2>1 DEF Replied
  <2>3. CASE Charge \/ Announce \/ Invoke \/ NextCall
    <3>1. stm' = stm /\ pos'.todo = pos.todo
      BY <1>0, <2>3 DEF Charge, Announce, Invoke, NextCall, Counters
    <3>2. Answering(l)'
      BY <1>0, <2>2, <3>1 DEF Answering
    <3> QED BY <1>0, <1>2, <2>1, <3>1, <3>2 DEF Replied
  <2>4. CASE DenyCall \/ NotInvoked \/ ReportFailed \/ ReportDone
    <3>1. Add("result", 0) /\ pos' = [pos EXCEPT !.todo = @ - 1] /\ pos.todo > 0
      BY <1>2, <2>4 DEF DenyCall, NotInvoked, ReportFailed, ReportDone, CallEnds, CallsLeft
    <3>2. pos.todo \in Nat /\ pos'.todo = pos.todo - 1
      BY <1>0, <3>1 DEF Counters
    <3>3. /\ Len(stm') = Len(stm) + 1 /\ stm'[Len(stm) + 1].what = "result"
          /\ \A i \in 1 .. Len(stm) : stm'[i] = stm[i]
      BY <1>0, <3>1 DEF Add, Message
    <3>4. stm[l].calls \in Nat /\ stm'[l] = stm[l]
      BY <1>0, <3>3, CallsOf
    <3>5. Len(stm') + pos'.todo = l + stm'[l].calls
      BY <1>0, <2>2, <3>2, <3>3, <3>4 DEF Answering
    <3>6. \A j \in l + 1 .. Len(stm') : stm'[j].what = "result"
      <4> SUFFICES ASSUME NEW j \in l + 1 .. Len(stm') PROVE stm'[j].what = "result"
        OBVIOUS
      <4>1. CASE j = Len(stm) + 1
        BY <3>3, <4>1
      <4>2. CASE j # Len(stm) + 1
        <5>1. j \in l + 1 .. Len(stm) /\ j \in 1 .. Len(stm)
          BY <1>0, <3>3, <4>2
        <5> QED BY <2>2, <3>3, <5>1 DEF Answering
      <4> QED BY <4>1, <4>2
    <3>7. ASSUME NEW i \in 1 .. Len(stm'), i # l PROVE Settled(stm', fate', i)
      <4>1. CASE i = Len(stm) + 1
        BY <3>3, <4>1 DEF Settled
      <4>2. CASE i # Len(stm) + 1
        <5>1. i \in 1 .. Len(stm) /\ stm'[i] = stm[i] /\ stm[i].calls \in Nat
          <6>1. i \in 1 .. Len(stm) /\ stm'[i] = stm[i]
            BY <1>0, <3>3, <4>2
          <6> QED BY <1>0, <6>1, CallsOf
        <5>2. Settled(stm, fate, i)
          BY <2>2, <3>7, <5>1 DEF Answering
        <5>3. AnsweredIn(stm, i) => AnsweredIn(stm', i)
          <6> SUFFICES ASSUME AnsweredIn(stm, i), NEW k \in 1 .. stm[i].calls
                       PROVE  i + k <= Len(stm') /\ stm'[i + k].what = "result"
            BY <5>1 DEF AnsweredIn
          <6>1. i + k <= Len(stm) /\ stm[i + k].what = "result"
            BY DEF AnsweredIn
          <6>2. i + k \in 1 .. Len(stm)
            BY <1>0, <5>1, <6>1
          <6> QED BY <1>0, <3>3, <6>1, <6>2
        <5> QED BY <1>0, <5>1, <5>2, <5>3 DEF Settled
      <4> QED BY <4>1, <4>2
    <3>8. Answering(l)'
      BY <1>0, <2>2, <3>4, <3>5, <3>6, <3>7 DEF Answering
    <3>9. l \in 1 .. Len(stm')
      BY <1>0, <3>3
    <3> QED BY <1>0, <1>2, <2>1, <3>8, <3>9 DEF Replied
  <2>5. ~ReportNotDone
    BY <1>2 DEF ReportNotDone
  <2> QED BY <2>3, <2>4, <2>5 DEF ToolLoop
<1> QED BY <1>1, <1>2

\* An exception breaks off what is being answered.
LEMMA RepliedUnwinds ==
    ASSUME TypeOK, OpenInAttempt, Provenance, Replied, Unwind
    PROVE  Replied'
<1>1. stm' = stm /\ snapshot' = snapshot /\ at' = "idle" /\ ~Calling'
  BY DEF Unwind, Calling
<1>2. FateMoves
  BY DEF Unwind, FateMoves, Fates
<1>3. CASE ~Calling
  BY <1>1, <1>2, <1>3, CompleteStays DEF Replied
<1>4. CASE Calling
  <2>1. Open
    BY <1>4 DEF Calling, OpenInAttempt, InAttempt
  <2>2. Now \in 1 .. Len(fate) /\ fate' = [fate EXCEPT ![Now] = "aborted"]
    BY <2>1 DEF Unwind, Open, Now, TypeOK
  <2>3. fate'[Now] = "aborted"
    BY <2>2 DEF TypeOK
  <2>4. PICK l \in 1 .. Len(stm) : Answering(l)
    BY <1>4 DEF Replied
  <2>5. ASSUME NEW i \in 1 .. Len(stm), i # l PROVE Settled(stm, fate', i)
    <3>1. Settled(stm, fate, i)
      BY <2>4, <2>5 DEF Answering
    <3> QED BY <1>2, <3>1, AbortedStays DEF Settled, Provenance, ByAttempt
  <2>6. Settled(stm, fate', l)
    BY <2>3, <2>4 DEF Answering, Settled
  <2>7. Complete(stm, fate')
    BY <2>5, <2>6 DEF Complete
  <2> QED BY <1>1, <1>2, <2>7, CompleteStays DEF Replied
<1> QED BY <1>3, <1>4

LEMMA RepliedStep ==
    ASSUME TypeOK, OpenInAttempt, CallsLeft, Provenance, Replied, [Next]_vars
    PROVE  Replied'
<1>1. CASE Others \/ UNCHANGED vars
  <2>1. UNCHANGED <<at, pos, stm, snapshot, fate>>
    BY <1>1 DEF Others, Guide, Request, Resume, vars
  <2>2. Calling' <=> Calling
    BY <2>1 DEF Calling
  <2>3. ASSUME NEW l \in 1 .. Len(stm), Answering(l) PROVE Answering(l)'
    BY <2>1, <2>3 DEF Answering, Now
  <2> QED BY <2>1, <2>2, <2>3 DEF Replied
<1>2. CASE Refuse \/ Raise
  BY <1>2, RepliedUnwinds DEF Refuse, Raise
<1>3. CASE Session \/ Milestone
  BY <1>3, RepliedIdle, RepliedSettles DEF Milestone
<1>4. CASE Planning
  BY <1>4, RepliedIdle, RepliedTells DEF Planning
<1>5. CASE Executing
  BY <1>5, RepliedIdle, RepliedTells, RepliedAsks, RepliedCalls DEF Executing
<1>6. CASE ToolLoop
  BY <1>6, RepliedCalls
<1> QED BY <1>1, <1>2, <1>3, <1>4, <1>5, <1>6 DEF Next, Work

\* When the model is called, the calls it made have their results right behind
\* them, but for attempts that an exception broke off (execute_engine.py).
THEOREM ModelSeesResults == Spec => []CallsAnswered
<1>1. Init => Replied
  <2> SUFFICES ASSUME Init PROVE Replied
    OBVIOUS
  <2>1. Len(stm) = 0 /\ Len(snapshot) = 0 /\ at = "idle"
    BY DEF Init
  <2> QED BY <2>1 DEF Replied, Calling, Complete
<1>2. TypeOK /\ OpenInAttempt /\ CallsLeft /\ Provenance /\ Replied /\ [Next]_vars => Replied'
  BY RepliedStep
<1>3. TypeOK /\ Replied => CallsAnswered
  <2> SUFFICES ASSUME TypeOK, Replied, at \in {"asked", "generating"}, NEW i \in Requested
               PROVE  fate[stm[i].of] # "aborted" => Answered(i)
    BY DEF CallsAnswered
  <2>1. i \in 1 .. Len(stm) /\ stm[i].what = "calls" /\ Complete(stm, fate)
    BY DEF Requested, TypeOK, Replied, Calling
  <2> QED BY <2>1 DEF Complete, Settled, AnsweredIn, Answered
<1>4. IInv => TypeOK /\ OpenInAttempt /\ CallsLeft /\ Provenance
  BY DEF IInv
<1> QED BY LoopsInvariant, <1>1, <1>2, <1>3, <1>4, PTL DEF Spec
================================================================================
