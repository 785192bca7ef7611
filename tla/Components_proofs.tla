------------------------- MODULE Components_proofs -------------------------
EXTENDS Components, FiniteSets, TLAPS

-----------------------------------------------------------------------------
(* What guards a call: Guarded_proofs.                                     *)

Gates == INSTANCE Guarded_proofs WITH
    config <- v1, registry <- v2, call <- v3, cleared <- v4, trace <- v5,
    Configs <- ForGuard.Configs, HookRuns <- ForGuard.HookRuns,
    MaxAttempts <- ForGuard.MaxAttempts, plan <- v1, goals <- v2, delegation <- v3,
    Delegations <- ForPlanner.Delegations, Milestones <- ForPlanner.Milestones,
    Proposals <- ForPlanner.Proposals, setup <- v1, listed <- v2, milestone <- v3,
    history <- v4, draft <- v5, results <- v6, stage <- v7, Setups <- ForSteps.Setups,
    Capabilities <- ForSteps.Capabilities, Drafts <- ForSteps.Proposals,
    Messages <- ForSteps.Messages, Stretch <- ForSteps.Milestones,
    MaxTries <- ForSteps.MaxAttempts, MaxPlans <- ForSteps.MaxPlans, tm <- v1,
    offers <- v2, live <- v3, current <- v4, op <- v5, clash <- v6,
    Names <- ForRegistry.Names, Remote <- ForRegistry.Remote, Local <- ForRegistry.Local,
    MCPs <- ForRegistry.MCPs, Plugin <- ForRegistry.Plugin,
    Callers <- ForRegistry.Callers, Remembered <- ForRegistry.Remembered,
    listeners <- v1, emission <- v2, tasks <- v3, waiting <- v4, calls <- v5, dropped <- v6,
    Registrations <- ForBus.Registrations, Events <- ForBus.Events, Emits <- ForBus.Emits,
    MaxListeners <- ForBus.MaxListeners

LEMMA UnregisterSame == \A m, p : Registry!Unregister(m, p) = Gates!Registry!Unregister(m, p)
  BY DEF
      Registry!Unregister, Gates!Registry!Unregister, Registry!RemoveAll,
      Gates!Registry!RemoveAll, Registry!Taken, Gates!Registry!Taken, Registry!Listed,
      Gates!Registry!Listed, Registry!Without, Gates!Registry!Without, Registry!Absent,
      Gates!Registry!Absent, Registry!None, Gates!Registry!None

LEMMA SyncSame == \A m, p, names : Registry!Sync(m, p, names) = Gates!Registry!Sync(m, p, names)
  BY DEF
      Registry!None, Gates!Registry!None, Registry!Direct, Gates!Registry!Direct,
      Registry!Absent, Gates!Registry!Absent, Registry!Made, Gates!Registry!Made,
      Registry!MadeAll, Gates!Registry!MadeAll, Registry!Taken, Gates!Registry!Taken,
      Registry!Listed, Gates!Registry!Listed, Registry!OwnedBy, Gates!Registry!OwnedBy,
      Registry!PutAll, Gates!Registry!PutAll, Registry!RemoveAll,
      Gates!Registry!RemoveAll, Registry!Sync, Gates!Registry!Sync

LEMMA RegisterSame == \A m, p, names : Registry!Register(m, p, names) = Gates!Registry!Register(m, p, names)
  BY SyncSame DEF
      Registry!Register, Gates!Registry!Register, Registry!Listed, Gates!Registry!Listed

LEMMA RefreshSame == \A m, offer : Registry!Refresh(m, offer) = Gates!Registry!Refresh(m, offer)
  BY DEF
      Registry!Refresh, Gates!Registry!Refresh, Registry!None, Gates!Registry!None,
      Registry!Direct, Gates!Registry!Direct, Registry!Absent, Gates!Registry!Absent,
      Registry!Made, Gates!Registry!Made, Registry!MadeAll, Gates!Registry!MadeAll,
      Registry!Taken, Gates!Registry!Taken, Registry!Listed, Gates!Registry!Listed,
      Registry!OwnedBy, Gates!Registry!OwnedBy, Registry!PutAll, Gates!Registry!PutAll,
      Registry!RemoveAll, Gates!Registry!RemoveAll, Registry!Sync, Gates!Registry!Sync

LEMMA SwapSame == \A m, old, new, offer : Registry!Swap(m, old, new, offer) = Gates!Registry!Swap(m, old, new, offer)
  BY UnregisterSame, RegisterSame, RefreshSame DEF
      Registry!Swap, Gates!Registry!Swap, Registry!None, Gates!Registry!None

LEMMA PutBackSame ==
    ASSUME NEW m, NEW old, NEW offer
    PROVE  Registry!PutBack(m, old, offer) = Gates!Registry!PutBack(m, old, offer)
  <1>1. Registry!Register(m, old, offer[old]) = Gates!Registry!Register(m, old, offer[old])
    BY RegisterSame
  <1>2. PICK back : back = Registry!Register(m, old, offer[old])
    OBVIOUS
  <1>3. PICK after : after = Registry!Refresh(back.m, offer)
    OBVIOUS
  <1>4. back = Gates!Registry!Register(m, old, offer[old])
        /\ after = Gates!Registry!Refresh(back.m, offer)
    BY <1>1, <1>2, <1>3, RefreshSame
  <1>5. Registry!PutBack(m, old, offer)
        = IF old = Registry!None THEN [ok |-> FALSE, m |-> m]
          ELSE IF back.ok THEN [after EXCEPT !.ok = FALSE] ELSE back
    BY <1>2, <1>3, Zenon DEF Registry!PutBack
  <1>6. Gates!Registry!PutBack(m, old, offer)
        = IF old = Gates!Registry!None THEN [ok |-> FALSE, m |-> m]
          ELSE IF back.ok THEN [after EXCEPT !.ok = FALSE] ELSE back
    BY <1>4, Zenon DEF Gates!Registry!PutBack
  <1> QED BY <1>5, <1>6 DEF Registry!None, Gates!Registry!None

LEMMA RegistrySame ==
    /\ Registry!Init => Gates!Registry!Init
    /\ [Registry!Next]_Registry!vars => [Gates!Registry!Next]_Gates!Registry!vars
    /\ Registry!RegistryConsistent <=> Gates!Registry!RegistryConsistent
    /\ Registry!SuccessIsTrue <=> Gates!Registry!SuccessIsTrue
    /\ Registry!TypeOK <=> Gates!Registry!TypeOK
  <1>1. Registry!Init => Gates!Registry!Init
    <2>1. \A others : Registry!WithPlugin(others) = Gates!Registry!WithPlugin(others)
      BY RegisterSame DEF Registry!WithPlugin, Gates!Registry!WithPlugin, Registry!Empty,
         Gates!Registry!Empty, Registry!Absent, Gates!Registry!Absent, Registry!None,
         Gates!Registry!None
    <2>2. Registry!Idle = Gates!Registry!Idle /\ Registry!None = Gates!Registry!None
      BY DEF Registry!Idle, Gates!Registry!Idle, Registry!None, Gates!Registry!None
    <2>3. SUFFICES ASSUME Registry!Init PROVE Gates!Registry!Init
      OBVIOUS
    <2>4. PICK mine \in ForRegistry.Remote, others \in SUBSET ForRegistry.Local,
               known \in ForRegistry.Remembered :
            /\ Registry!Register(Registry!WithPlugin(others).m, CHOOSE p \in ForRegistry.MCPs : TRUE, mine).ok
            /\ v1 = Registry!Register(Registry!WithPlugin(others).m, CHOOSE p \in ForRegistry.MCPs : TRUE, mine).m
            /\ v4 = IF known THEN CHOOSE p \in ForRegistry.MCPs : TRUE ELSE Registry!None
            /\ v5 = [c \in ForRegistry.Callers |-> Registry!Idle]
            /\ v2 = [p \in ForRegistry.MCPs \union {ForRegistry.Plugin} |->
                      IF p = ForRegistry.Plugin THEN others
                      ELSE IF p = (CHOOSE q \in ForRegistry.MCPs : TRUE) THEN mine ELSE {}]
            /\ v3 = {CHOOSE p \in ForRegistry.MCPs : TRUE} /\ v6 = FALSE
      BY <2>3, Zenon DEF Registry!Init
    <2>5. /\ Gates!Registry!Register(Gates!Registry!WithPlugin(others).m, CHOOSE p \in ForRegistry.MCPs : TRUE, mine).ok
          /\ v1 = Gates!Registry!Register(Gates!Registry!WithPlugin(others).m, CHOOSE p \in ForRegistry.MCPs : TRUE, mine).m
          /\ v4 = IF known THEN CHOOSE p \in ForRegistry.MCPs : TRUE ELSE Gates!Registry!None
          /\ v5 = [c \in ForRegistry.Callers |-> Gates!Registry!Idle]
      BY <2>1, <2>2, <2>4, RegisterSame
    <2> QED BY <2>4, <2>5, Zenon DEF Gates!Registry!Init
  <1>2. \A n : /\ Registry!RegisterTool(n) => Gates!Registry!RegisterTool(n)
               /\ Registry!UnregisterTool(n) => Gates!Registry!UnregisterTool(n)
               /\ Registry!UpdateTool(n) => Gates!Registry!UpdateTool(n)
               /\ Registry!OfferOther(n) => Gates!Registry!OfferOther(n)
               /\ Registry!ChangeStatus(n) => Gates!Registry!ChangeStatus(n)
    BY Zenon DEF
      Registry!RegisterTool, Gates!Registry!RegisterTool, Registry!UnregisterTool,
      Gates!Registry!UnregisterTool, Registry!UpdateTool, Gates!Registry!UpdateTool,
      Registry!OfferOther, Gates!Registry!OfferOther, Registry!ChangeStatus,
      Gates!Registry!ChangeStatus, Registry!Put, Gates!Registry!Put, Registry!RemoveAll,
      Gates!Registry!RemoveAll, Registry!Taken, Gates!Registry!Taken, Registry!Absent,
      Gates!Registry!Absent, Registry!Made, Gates!Registry!Made, Registry!None,
      Gates!Registry!None, Registry!Direct, Gates!Registry!Direct
  <1>3. \A c : /\ Registry!BeginReload(c) => Gates!Registry!BeginReload(c)
               /\ Registry!LoadFails(c) => Gates!Registry!LoadFails(c)
               /\ Registry!EndReload(c) => Gates!Registry!EndReload(c)
               /\ Registry!EndUnload(c) => Gates!Registry!EndUnload(c)
    BY Zenon DEF
      Registry!BeginReload, Gates!Registry!BeginReload, Registry!LoadFails,
      Gates!Registry!LoadFails, Registry!EndReload, Gates!Registry!EndReload,
      Registry!EndUnload, Gates!Registry!EndUnload, Registry!Idle, Gates!Registry!Idle,
      Registry!None, Gates!Registry!None
  <1>4. ASSUME NEW c, Registry!Loaded(c)
        PROVE  Gates!Registry!Loaded(c)
    <2>1. \A p : Registry!Unused(p) <=> Gates!Registry!Unused(p)
      BY Zenon DEF Registry!Unused, Gates!Registry!Unused, Registry!Listed, Gates!Registry!Listed
    <2>2. (CHOOSE q \in ForRegistry.MCPs : Registry!Unused(q))
          = (CHOOSE q \in ForRegistry.MCPs : Gates!Registry!Unused(q))
      BY DEF Registry!Unused, Gates!Registry!Unused, Registry!Listed, Gates!Registry!Listed
    <2>3. PICK p : p = CHOOSE q \in ForRegistry.MCPs : Registry!Unused(q)
      OBVIOUS
    <2> DEFINE Loads(names, swap) ==
          /\ swap = Registry!Swap(v1, v4, p, [v2 EXCEPT ![p] = names])
          /\ v2' = [v2 EXCEPT ![p] = names] /\ v3' = v3 \union {p}
          /\ v1' = swap.m /\ v6' = (v6 \/ ~swap.ok)
          /\ v5' = [v5 EXCEPT ![c] = [phase |-> IF swap.ok THEN "closing" ELSE "undoing",
                                      new |-> p, old |-> v4, result |-> "none"]]
    <2>4. \E names \in ForRegistry.Remote : \E swap : Loads(names, swap)
      BY <1>4, <2>3, Zenon DEF Registry!Loaded
    <2> HIDE DEF Loads
    <2>5. PICK names \in ForRegistry.Remote : \E swap : Loads(names, swap)
      BY <2>4
    <2>6. PICK swap : Loads(names, swap)
      BY <2>5
    <2>7. /\ swap = Registry!Swap(v1, v4, p, [v2 EXCEPT ![p] = names])
          /\ v2' = [v2 EXCEPT ![p] = names] /\ v3' = v3 \union {p}
          /\ v1' = swap.m /\ v6' = (v6 \/ ~swap.ok)
          /\ v5' = [v5 EXCEPT ![c] = [phase |-> IF swap.ok THEN "closing" ELSE "undoing",
                                      new |-> p, old |-> v4, result |-> "none"]]
      BY <2>6, Zenon DEF Loads
    <2>8. Registry!Swap(v1, v4, p, [v2 EXCEPT ![p] = names])
          = Gates!Registry!Swap(v1, v4, p, [v2 EXCEPT ![p] = names])
      BY SwapSame, Zenon
    <2>9. swap = Gates!Registry!Swap(v1, v4, p, [v2 EXCEPT ![p] = names])
      BY <2>7, <2>8, Zenon
    <2>10. /\ v5[c].phase = "loading" /\ v4' = v4
           /\ \E q \in ForRegistry.MCPs : Gates!Registry!Unused(q)
      BY <1>4, <2>1, Zenon DEF Registry!Loaded
    <2> QED BY <2>2, <2>3, <2>7, <2>9, <2>10, Zenon DEF Gates!Registry!Loaded
  <1>5. ASSUME NEW c, Registry!UndoReload(c)
        PROVE  Gates!Registry!UndoReload(c)
    <2>1. Registry!PutBack(v1, v5[c].old, v2) = Gates!Registry!PutBack(v1, v5[c].old, v2)
      BY PutBackSame
    <2> QED BY <1>5, <2>1 DEF
      Registry!UndoReload, Gates!Registry!UndoReload, Registry!Idle, Gates!Registry!Idle,
      Registry!None, Gates!Registry!None
  <1>6. ASSUME NEW c, Registry!BeginUnload(c)
        PROVE  Gates!Registry!BeginUnload(c)
    <2>1. Registry!Refresh(Registry!Unregister(v1, v4), v2)
          = Gates!Registry!Refresh(Gates!Registry!Unregister(v1, v4), v2)
      BY UnregisterSame, RefreshSame, Zenon
    <2>2. PICK r : r = Registry!Refresh(Registry!Unregister(v1, v4), v2)
      OBVIOUS
    <2>3. Registry!Idle = Gates!Registry!Idle /\ Registry!None = Gates!Registry!None
      BY DEF Registry!Idle, Gates!Registry!Idle, Registry!None, Gates!Registry!None
    <2>4. PICK idle : idle = Registry!Idle /\ idle = Gates!Registry!Idle
      BY <2>3
    <2>5. /\ v5[c].phase = "idle" /\ v4 # Registry!None /\ v1' = r.m /\ v6' = (v6 \/ ~r.ok)
          /\ v5' = [v5 EXCEPT ![c] = IF r.ok
                         THEN [idle EXCEPT !.phase = "unloading", !.old = v4]
                         ELSE [idle EXCEPT !.result = "raised"]]
          /\ v2' = v2 /\ v3' = v3 /\ v4' = v4
      BY <1>6, <2>2, <2>4, Zenon DEF Registry!BeginUnload
    <2>6. r = Gates!Registry!Refresh(Gates!Registry!Unregister(v1, v4), v2)
      BY <2>1, <2>2
    <2>7. v4 # Gates!Registry!None
      BY <2>3, <2>5
    <2> QED BY <2>4, <2>5, <2>6, <2>7, Zenon DEF Gates!Registry!BeginUnload
  <1>7. [Registry!Next]_Registry!vars => [Gates!Registry!Next]_Gates!Registry!vars
    <2>1. CASE \E n \in ForRegistry.Local :
                 \/ Registry!RegisterTool(n) \/ Registry!UnregisterTool(n)
                 \/ Registry!UpdateTool(n) \/ Registry!OfferOther(n)
      BY <1>2, <2>1 DEF Gates!Registry!Next
    <2>2. CASE \E n \in ForRegistry.Names : Registry!ChangeStatus(n)
      BY <1>2, <2>2 DEF Gates!Registry!Next
    <2>3. CASE \E c \in ForRegistry.Callers :
                 \/ Registry!BeginReload(c) \/ Registry!LoadFails(c) \/ Registry!EndReload(c)
                 \/ Registry!EndUnload(c)
      BY <1>3, <2>3 DEF Gates!Registry!Next
    <2>4. CASE \E c \in ForRegistry.Callers :
                 \/ Registry!Loaded(c) \/ Registry!UndoReload(c) \/ Registry!BeginUnload(c)
      BY <1>4, <1>5, <1>6, <2>4, Zenon DEF Gates!Registry!Next
    <2>5. CASE UNCHANGED Registry!vars
      BY <2>5 DEF Registry!vars, Gates!Registry!vars
    <2>6. Registry!Next => \/ \E n \in ForRegistry.Local :
                                \/ Registry!RegisterTool(n) \/ Registry!UnregisterTool(n)
                                \/ Registry!UpdateTool(n) \/ Registry!OfferOther(n)
                           \/ \E n \in ForRegistry.Names : Registry!ChangeStatus(n)
                           \/ \E c \in ForRegistry.Callers :
                                \/ Registry!BeginReload(c) \/ Registry!LoadFails(c)
                                \/ Registry!EndReload(c) \/ Registry!EndUnload(c)
                           \/ \E c \in ForRegistry.Callers :
                                \/ Registry!Loaded(c) \/ Registry!UndoReload(c)
                                \/ Registry!BeginUnload(c)
      BY Zenon DEF Registry!Next
    <2> QED BY <2>1, <2>2, <2>3, <2>4, <2>5, <2>6
  <1>8. Registry!RegistryConsistent <=> Gates!Registry!RegistryConsistent
    BY Zenon DEF
      Registry!RegistryConsistent, Gates!Registry!RegistryConsistent, Registry!Taken,
      Gates!Registry!Taken, Registry!OwnedBy, Gates!Registry!OwnedBy, Registry!Listed,
      Gates!Registry!Listed, Registry!Absent, Gates!Registry!Absent, Registry!None,
      Gates!Registry!None
  <1>9. Registry!SuccessIsTrue <=> Gates!Registry!SuccessIsTrue
    BY Zenon DEF
      Registry!SuccessIsTrue, Gates!Registry!SuccessIsTrue
  <1>10. Registry!TypeOK <=> Gates!Registry!TypeOK
    BY Zenon DEF Registry!TypeOK, Gates!Registry!TypeOK, Registry!Managers,
       Gates!Registry!Managers, Registry!Entries, Gates!Registry!Entries, Registry!Tools,
       Gates!Registry!Tools, Registry!Sources, Gates!Registry!Sources, Registry!Absent,
       Gates!Registry!Absent, Registry!None, Gates!Registry!None, Registry!Direct,
       Gates!Registry!Direct, Registry!Phases, Gates!Registry!Phases
  <1> QED BY <1>1, <1>7, <1>8, <1>9, <1>10

LEMMA RegistryPart ==
    /\ Registry!Init => Gates!RegistryInv
    /\ Gates!RegistryInv /\ [Registry!Next]_Registry!vars => Gates!RegistryInv'
    /\ Gates!RegistryInv => /\ Registry!TypeOK /\ Registry!RegistryConsistent
                            /\ Registry!SuccessIsTrue
  <1>1. Gates!RegistryParameters
    BY RegistryAssumption, Zenon DEF Gates!RegistryParameters, Gates!Registry!None, Registry!None,
       Gates!Registry!Direct, Registry!Direct
  <1> QED BY <1>1, RegistrySame, Gates!RegistryInit, Gates!RegistryNext, Gates!RegistryHolds

LEMMA GuardSame ==
    /\ Guard!Init <=> Gates!Init
    /\ [Guard!Next]_Guard!vars <=> [Gates!Next]_Gates!vars
    /\ Guard!TypeOK <=> Gates!TypeOK
    /\ Guard!OnlyCleared <=> Gates!OnlyCleared
    /\ Guard!SpansClose <=> Gates!SpansClose
  BY DEF
      Guard!Init, Gates!Init, Guard!Next, Gates!Next, Guard!vars, Gates!vars, Guard!TypeOK,
      Gates!TypeOK, Guard!OnlyCleared, Gates!OnlyCleared, Guard!SpansClose,
      Gates!SpansClose, Guard!Requirements, Gates!Requirements, Guard!NoCall, Gates!NoCall,
      Guard!NoTrace, Gates!NoTrace, Guard!Begin, Gates!Begin, Guard!BeforeTool,
      Gates!BeforeTool, Guard!Preflight, Gates!Preflight, Guard!Gate, Gates!Gate,
      Guard!Approve, Gates!Approve, Guard!ToolEnds, Gates!ToolEnds, Guard!Raises,
      Gates!Raises, Guard!Reregister, Gates!Reregister, Guard!Risks, Gates!Risks,
      Guard!Entered, Gates!Entered, Guard!RunHook, Gates!RunHook, Guard!Emit, Gates!Emit,
      Guard!Before, Gates!Before, Guard!After, Gates!After, Guard!Policy, Gates!Policy,
      Guard!Trusted, Gates!Trusted, Guard!Refused, Gates!Refused, Guard!NeedsApproval,
      Gates!NeedsApproval, Guard!Verdicts, Gates!Verdicts, Guard!Arbitrate, Gates!Arbitrate,
      Guard!RiskOf, Gates!RiskOf, Guard!Requires, Gates!Requires, Guard!Range, Gates!Range

LEMMA GuardPart ==
    /\ Guard!Init => Gates!GuardInv
    /\ Gates!GuardInv /\ [Guard!Next]_Guard!vars => Gates!GuardInv'
    /\ Gates!GuardInv => Guard!TypeOK /\ Guard!OnlyCleared /\ Guard!SpansClose
  <1>1. Gates!GuardAssumption
    BY GuardAssumption, Zenon DEF Gates!GuardAssumption, Gates!ConfigType, Gates!Risks,
       Guard!Risks, Gates!HookOutcomes, Guard!HookOutcomes
  <1> QED BY <1>1, GuardSame, Gates!GuardInit, Gates!GuardStep, Gates!GuardHolds

LEMMA PlannerSame ==
    /\ Planner!Init <=> Gates!Planner!Init
    /\ [Planner!Next]_Planner!vars <=> [Gates!Planner!Next]_Gates!Planner!vars
    /\ Planner!TypeOK <=> Gates!Planner!TypeOK
    /\ Planner!AdviceHolds <=> Gates!Planner!AdviceHolds
    /\ Planner!FinishedStays <=> Gates!Planner!FinishedStays
  <1>1. /\ Planner!Init <=> Gates!Planner!Init
        /\ [Planner!Next]_Planner!vars <=> [Gates!Planner!Next]_Gates!Planner!vars
        /\ Planner!TypeOK <=> Gates!Planner!TypeOK
    BY Zenon DEF
      Planner!Init, Gates!Planner!Init, Planner!Next, Gates!Planner!Next, Planner!vars,
      Gates!Planner!vars, Planner!TypeOK, Gates!Planner!TypeOK, Planner!EmptyPlan,
      Gates!Planner!EmptyPlan, Planner!Create, Gates!Planner!Create, Planner!Validate,
      Gates!Planner!Validate, Planner!Revise, Gates!Planner!Revise, Planner!Finish,
      Gates!Planner!Finish, Planner!VerifyMilestone, Gates!Planner!VerifyMilestone,
      Planner!Reflect, Gates!Planner!Reflect, Planner!Decompose, Gates!Planner!Decompose,
      Planner!Ids, Gates!Planner!Ids, Planner!Delegate, Gates!Planner!Delegate,
      Planner!Answered, Gates!Planner!Answered, Planner!Raised, Gates!Planner!Raised,
      Planner!StepStates, Gates!Planner!StepStates, Planner!NoId, Gates!Planner!NoId,
      Planner!Distinct, Gates!Planner!Distinct, Planner!Shown, Gates!Planner!Shown,
      Planner!TerminalStates, Gates!Planner!TerminalStates, Planner!NamedIn,
      Gates!Planner!NamedIn, Planner!Kept, Gates!Planner!Kept, Planner!MayFinish,
      Gates!Planner!MayFinish, Planner!Pending, Gates!Planner!Pending, Planner!MayDelegate,
      Gates!Planner!MayDelegate, Planner!SetStep, Gates!Planner!SetStep,
      Planner!MayComplete, Gates!Planner!MayComplete, Planner!Synced, Gates!Planner!Synced,
      Planner!Block, Gates!Planner!Block, Planner!At, Gates!Planner!At, Planner!Allowed,
      Gates!Planner!Allowed, Planner!Done, Gates!Planner!Done, Planner!Advice,
      Gates!Planner!Advice, Planner!Named, Gates!Planner!Named, Planner!Range,
      Gates!Planner!Range
  <1>2. Planner!AdviceHolds <=> Gates!Planner!AdviceHolds
    BY Zenon DEF
      Planner!AdviceHolds, Gates!Planner!AdviceHolds, Planner!Done, Gates!Planner!Done,
      Planner!TerminalStates, Gates!Planner!TerminalStates, Planner!Pending,
      Gates!Planner!Pending, Planner!MayFinish, Gates!Planner!MayFinish,
      Planner!MayDelegate, Gates!Planner!MayDelegate, Planner!Named, Gates!Planner!Named,
      Planner!Allowed, Gates!Planner!Allowed, Planner!At, Gates!Planner!At, Planner!NoId,
      Gates!Planner!NoId, Planner!Range, Gates!Planner!Range
  <1>3. Planner!FinishedStays <=> Gates!Planner!FinishedStays
    BY Zenon DEF
      Planner!FinishedStays, Gates!Planner!FinishedStays, Planner!TerminalStates,
      Gates!Planner!TerminalStates, Planner!NoId, Gates!Planner!NoId, Planner!Range,
      Gates!Planner!Range
  <1> QED BY <1>1, <1>2, <1>3

LEMMA PlannerPart ==
    /\ Planner!Init => Gates!PlannerInv
    /\ Gates!PlannerInv /\ [Planner!Next]_Planner!vars => Gates!PlannerInv'
    /\ Gates!PlannerInv => Planner!TypeOK /\ Planner!AdviceHolds
    /\ Gates!PlannerInv /\ [Planner!Next]_Planner!vars => Planner!FinishedStays
  <1>1. Gates!PlannerParameters
    BY PlannerAssumption, Zenon DEF Gates!PlannerParameters, Gates!Planner!Ids, Planner!Ids,
       Gates!Planner!NoId, Planner!NoId, Gates!Planner!Range, Planner!Range
  <1> QED BY <1>1, PlannerSame, Gates!PlannerInit, Gates!PlannerNext, Gates!PlannerHolds

LEMMA StepsSame ==
    /\ Steps!Init <=> Gates!Work!Init
    /\ [Steps!Next]_Steps!vars <=> [Gates!Work!Next]_Gates!Work!vars
    /\ Steps!TypeOK <=> Gates!Work!TypeOK
    /\ Steps!StepsOnTrust <=> Gates!Work!StepsOnTrust
  BY DEF
      Steps!Init, Gates!Work!Init, Steps!Next, Gates!Work!Next, Steps!vars, Gates!Work!vars,
      Steps!TypeOK, Gates!Work!TypeOK, Steps!StepsOnTrust, Gates!Work!StepsOnTrust,
      Steps!NoDraft, Gates!Work!NoDraft, Steps!BeginAttempt, Gates!Work!BeginAttempt,
      Steps!GiveUp, Gates!Work!GiveUp, Steps!Plan, Gates!Work!Plan, Steps!PlansExhausted,
      Gates!Work!PlansExhausted, Steps!Validate, Gates!Work!Validate, Steps!NothingToDo,
      Gates!Work!NothingToDo, Steps!MeetsPlanTool, Gates!Work!MeetsPlanTool, Steps!Gate,
      Gates!Work!Gate, Steps!Invoke, Gates!Work!Invoke, Steps!ModelWorks,
      Gates!Work!ModelWorks, Steps!Verify, Gates!Work!Verify, Steps!Remediate,
      Gates!Work!Remediate, Steps!RegistryChanges, Gates!Work!RegistryChanges,
      Steps!Fallback, Gates!Work!Fallback, Steps!Described, Gates!Work!Described,
      Steps!StepErrs, Gates!Work!StepErrs, Steps!Validated, Gates!Work!Validated,
      Steps!StepDriven, Gates!Work!StepDriven, Steps!Current, Gates!Work!Current,
      Steps!Judged, Gates!Work!Judged, Steps!StepFails, Gates!Work!StepFails, Steps!Given,
      Gates!Work!Given, Steps!OwnExecutorOk, Gates!Work!OwnExecutorOk, Steps!ToolLoopOk,
      Gates!Work!ToolLoopOk, Steps!AfterFailure, Gates!Work!AfterFailure, Steps!Succeeded,
      Gates!Work!Succeeded, Steps!Registries, Gates!Work!Registries, Steps!Aliases,
      Gates!Work!Aliases, Steps!Resolved, Gates!Work!Resolved, Steps!Registered,
      Gates!Work!Registered, Steps!IsPlanTool, Gates!Work!IsPlanTool, Steps!PlanStep,
      Gates!Work!PlanStep, Steps!Trusted, Gates!Work!Trusted, Steps!Range, Gates!Work!Range,
      Steps!Cardinality, Gates!Work!Cardinality

LEMMA StepsPart ==
    /\ Steps!Init => Gates!WorkInv
    /\ Gates!WorkInv /\ [Steps!Next]_Steps!vars => Gates!WorkInv'
    /\ Gates!WorkInv => Steps!TypeOK /\ Steps!StepsOnTrust
  <1>1. Gates!WorkParameters
    BY StepsAssumption, Zenon DEF Gates!WorkParameters, Gates!WorkSetups
  <1> QED BY <1>1, StepsSame, Gates!WorkInit, Gates!WorkNext, Gates!WorkHolds

LEMMA BusSame ==
    /\ Bus!Init <=> Gates!Bus!Init
    /\ [Bus!Next]_Bus!vars <=> [Gates!Bus!Next]_Gates!Bus!vars
    /\ Bus!TypeOK <=> Gates!Bus!TypeOK
    /\ Bus!GatesFirst <=> Gates!Bus!GatesFirst
  <1>0. Bus!Keys = Gates!Bus!Keys
    BY DEF Bus!Keys, Gates!Bus!Keys
  <1>1. \A S, R : Bus!InOrder(S, R) = Gates!Bus!InOrder(S, R)
    BY Zenon DEF
      Bus!InOrder, Gates!Bus!InOrder, Bus!Cardinality, Gates!Bus!Cardinality,
      Bus!IsFiniteSet, Gates!Bus!IsFiniteSet
  <1>2. \A s, P : Bus!Taken(s, P) = Gates!Bus!Taken(s, P)
    BY <1>1, Zenon DEF
      Bus!Taken, Gates!Bus!Taken, Bus!Places, Gates!Bus!Places
  <1>3. \A ls : Bus!Sorted(ls) = Gates!Bus!Sorted(ls) /\ Bus!Once(ls) = Gates!Bus!Once(ls)
    BY <1>1, <1>2, Zenon DEF
      Bus!Sorted, Gates!Bus!Sorted, Bus!Once, Gates!Bus!Once, Bus!ByPriority,
      Gates!Bus!ByPriority, Bus!Precedes, Gates!Bus!Precedes
  <1>4. \A e, em : Bus!Goes(e, em) <=> Gates!Bus!Goes(e, em)
    BY Zenon DEF
      Bus!Goes, Gates!Bus!Goes, Bus!Spawned, Gates!Bus!Spawned
  <1>5. \A e, event : Bus!Emit(e, event) <=> Gates!Bus!Emit(e, event)
    <2>1. \A event : Bus!Found(event) = Gates!Bus!Found(event)
      BY DEF Bus!Found, Gates!Bus!Found
    <2>2. /\ \A ls : Bus!Entries(ls) = Gates!Bus!Entries(ls)
          /\ \A S : Bus!HandlersOf(S) = Gates!Bus!HandlersOf(S)
          /\ \A S, mode : Bus!InMode(S, mode) = Gates!Bus!InMode(S, mode)
      BY DEF Bus!Entries, Gates!Bus!Entries, Bus!HandlersOf, Gates!Bus!HandlersOf, Bus!InMode,
         Gates!Bus!InMode
    <2> QED BY <1>2, <1>3, <1>4, <2>1, <2>2, Zenon DEF Bus!Emit, Gates!Bus!Emit
  <1>6. \A r : Bus!Register(r) <=> Gates!Bus!Register(r)
    BY <1>0, <1>3, Zenon DEF
      Bus!Register, Gates!Bus!Register, Bus!Cardinality,
      Gates!Bus!Cardinality, Bus!IsFiniteSet, Gates!Bus!IsFiniteSet
  <1>7. /\ Bus!Init <=> Gates!Bus!Init
        /\ [Bus!Next]_Bus!vars <=> [Gates!Bus!Next]_Gates!Bus!vars
    BY <1>0, <1>4, <1>5, <1>6, Zenon DEF
      Bus!Init, Gates!Bus!Init, Bus!Next, Gates!Bus!Next, Bus!vars, Gates!Bus!vars,
      Bus!NotEmitted, Gates!Bus!NotEmitted, Bus!Clear,
      Gates!Bus!Clear, Bus!Intercepted, Gates!Bus!Intercepted, Bus!Observed,
      Gates!Bus!Observed, Bus!Waits, Gates!Bus!Waits, Bus!WaitEnds, Gates!Bus!WaitEnds
  <1>8. /\ Bus!TypeOK <=> Gates!Bus!TypeOK
        /\ Bus!GatesFirst <=> Gates!Bus!GatesFirst
    BY <1>0, Zenon DEF
      Bus!TypeOK, Gates!Bus!TypeOK, Bus!GatesFirst, Gates!Bus!GatesFirst,
      Bus!Entries, Gates!Bus!Entries, Bus!HandlersOf,
      Gates!Bus!HandlersOf, Bus!InMode, Gates!Bus!InMode, Bus!Acts, Gates!Bus!Acts,
      Bus!Outranks, Gates!Bus!Outranks
  <1> QED BY <1>7, <1>8

LEMMA BusPart ==
    /\ Bus!Init => Gates!BusInv
    /\ Gates!BusInv /\ [Bus!Next]_Bus!vars => Gates!BusInv'
    /\ Gates!BusInv => Bus!TypeOK /\ Bus!GatesFirst
  <1>1. Gates!BusParameters
    BY BusAssumption, Zenon DEF Gates!BusParameters, Gates!Bus!Modes, Bus!Modes
  <1> QED BY <1>1, BusSame, Gates!BusStart, Gates!BusStep, Gates!BusHolds

-----------------------------------------------------------------------------
(* Who asks and gets what he asked for: Channels_proofs.                   *)

Talks == INSTANCE Channels_proofs WITH
    front <- v1, loop <- v2, shell <- v3, active <- v4, talk <- v5, files <- v6,
    order <- v7, watch <- v8, feed <- v9, entered <- v10, rc <- v11, wrong <- v12,
    ran <- v13, kept <- v14, Fronts <- ForCli.Fronts, Sessions <- ForCli.Sessions,
    MaxTasks <- ForCli.MaxTasks, kind <- v1, wire <- v2, lastId <- v3, serial <- v4,
    rpc <- v5, asked <- v6, notices <- v7, pipe <- v8, buffer <- v9, inbox <- v10,
    stream <- v11, mixed <- v12, Tasks <- ForClient.Tasks, Kinds <- ForClient.Kinds,
    MaxRequests <- ForClient.MaxRequests, MaxNotices <- ForClient.MaxNotices,
    serving <- v1, request <- v2, answer <- v3, tasks <- v4, served <- v5, sse <- v6,
    outputs <- v7, Requests <- ForServer.Requests, Subscriber <- ForServer.Subscriber,
    TaskIds <- ForServer.TaskIds, Inputs <- ForServer.Inputs,
    Outputs <- ForServer.Outputs, typed <- v1, readers <- v2, sending <- v3, room <- v4,
    turn <- v5, questions <- v6, asking <- v7, outcomes <- v8, Lines <- ForTerminal.Lines,
    Questions <- ForTerminal.Questions, Handled <- ForTerminal.Handled,
    MaxLines <- ForTerminal.MaxLines, MaxInbox <- ForTerminal.MaxInbox,
    user <- v1, workspace <- v2, options <- v3, provider <- v4, runtime <- v5, agent <- v6,
    UserFiles <- ForConfig.UserFiles, WorkspaceFiles <- ForConfig.WorkspaceFiles,
    Options <- ForConfig.Options, Directory <- ForConfig.Directory,
    builder <- v1, source <- v2, registries <- v3, builds <- v4,
    AgentKinds <- ForBuilder.Kinds, Configs <- ForBuilder.Configs,
    ServerTools <- ForBuilder.ServerTools, OwnTools <- ForBuilder.OwnTools,
    ManagedHooks <- ForBuilder.ManagedHooks, OwnHooks <- ForBuilder.OwnHooks,
    Slots <- ForBuilder.Slots, MaxBuilds <- ForBuilder.MaxBuilds, MaxTools <- ForBuilder.MaxTools,
    stm <- v2, queue <- v3, advised <- v4, moment <- v5, run <- v6, retained <- v7,
    allowed <- v8, limits <- v1, started <- v2, stage <- v3, requested <- v4, safe <- v5,
    open <- v6, mail <- v7, frames <- v8, granting <- v9, attempted <- v10, watched <- v11,
    shown <- v12, ended <- v13

LEMMA ClientSame ==
    /\ Client!Init <=> Talks!Client!Init
    /\ [Client!Next]_Client!vars <=> [Talks!Client!Next]_Talks!Client!vars
    /\ Client!TypeOK <=> Talks!Client!TypeOK
    /\ Client!OwnAnswer <=> Talks!Client!OwnAnswer
    /\ Client!AnswerNotLost <=> Talks!Client!AnswerNotLost
  BY DEF
      Client!Init, Talks!Client!Init, Client!Next, Talks!Client!Next, Client!vars,
      Talks!Client!vars, Client!TypeOK, Talks!Client!TypeOK, Client!OwnAnswer,
      Talks!Client!OwnAnswer, Client!AnswerNotLost, Talks!Client!AnswerNotLost, Client!Idle,
      Talks!Client!Idle, Client!Connect, Talks!Client!Connect, Client!ConnectFails,
      Talks!Client!ConnectFails, Client!Started, Talks!Client!Started, Client!StartFails,
      Talks!Client!StartFails, Client!Call, Talks!Client!Call, Client!CallFails,
      Talks!Client!CallFails, Client!ReadLine, Talks!Client!ReadLine, Client!ReadChunk,
      Talks!Client!ReadChunk, Client!LoseChunk, Talks!Client!LoseChunk, Client!Park,
      Talks!Client!Park, Client!ReadFails, Talks!Client!ReadFails, Client!PostReturns,
      Talks!Client!PostReturns, Client!PostFails, Talks!Client!PostFails, Client!Receive, Talks!Client!Receive,
      Client!TimesOut, Talks!Client!TimesOut, Client!Cancelled, Talks!Client!Cancelled,
      Client!Disconnect, Talks!Client!Disconnect, Client!Closed, Talks!Client!Closed,
      Client!ListenNotifications, Talks!Client!ListenNotifications, Client!ServerAnswers,
      Talks!Client!ServerAnswers, Client!ServerNotifies, Talks!Client!ServerNotifies,
      Client!ServerDies, Talks!Client!ServerDies, Client!Phases, Talks!Client!Phases,
      Client!Outcomes, Talks!Client!Outcomes, Client!Messages, Talks!Client!Messages,
      Client!Pieces, Talks!Client!Pieces, Client!Reachable, Talks!Client!Reachable,
      Client!UnderWay, Talks!Client!UnderWay, Client!OpenAtOnce, Talks!Client!OpenAtOnce,
      Client!Ask, Talks!Client!Ask, Client!Finish, Talks!Client!Finish, Client!LineEnd,
      Talks!Client!LineEnd, Client!Consider, Talks!Client!Consider, Client!Fail,
      Talks!Client!Fail, Client!Notice, Talks!Client!Notice, Client!ProcessGone,
      Talks!Client!ProcessGone, Client!ClientGone, Talks!Client!ClientGone, Client!Line,
      Talks!Client!Line

LEMMA ClientPart ==
    /\ Client!Init => Talks!ClientInv
    /\ Talks!ClientInv /\ [Client!Next]_Client!vars => Talks!ClientInv'
    /\ Talks!ClientInv => Client!TypeOK /\ Client!OwnAnswer /\ Client!AnswerNotLost
  <1>1. Talks!ClientParameters
    BY ClientAssumption DEF Talks!ClientParameters
  <1> QED BY <1>1, ClientSame, Talks!ClientInit, Talks!ClientStep, Talks!ClientKeeps

LEMMA CliSame ==
    /\ Cli!Init <=> Talks!Cli!Init
    /\ [Cli!Next]_Cli!vars <=> [Talks!Cli!Next]_Talks!Cli!vars
    /\ Cli!TypeOK <=> Talks!Cli!TypeOK
    /\ Cli!SnapshotOwnsMessages <=> Talks!Cli!SnapshotOwnsMessages
    /\ Cli!ExitCodeTrue <=> Talks!Cli!ExitCodeTrue
  BY DEF
      Cli!Init, Talks!Cli!Init, Cli!Next, Talks!Cli!Next, Cli!vars, Talks!Cli!vars,
      Cli!TypeOK, Talks!Cli!TypeOK, Cli!SnapshotOwnsMessages,
      Talks!Cli!SnapshotOwnsMessages, Cli!ExitCodeTrue, Talks!Cli!ExitCodeTrue,
      Cli!NoSession, Talks!Cli!NoSession, Cli!NotRunning, Talks!Cli!NotRunning, Cli!None,
      Talks!Cli!None, Cli!Modes, Talks!Cli!Modes, Cli!Targets, Talks!Cli!Targets,
      Cli!Nobody, Talks!Cli!Nobody, Cli!Start, Talks!Cli!Start, Cli!ResumeFails,
      Talks!Cli!ResumeFails, Cli!ResumeFrame, Talks!Cli!ResumeFrame, Cli!BootFails,
      Talks!Cli!BootFails, Cli!SetMode, Talks!Cli!SetMode, Cli!Asking, Talks!Cli!Asking,
      Cli!CommandDone, Talks!Cli!CommandDone, Cli!CommandFails, Talks!Cli!CommandFails,
      Cli!Reject, Talks!Cli!Reject, Cli!EnterTask, Talks!Cli!EnterTask, Cli!EnterPlan,
      Talks!Cli!EnterPlan, Cli!Previewed, Talks!Cli!Previewed, Cli!PreviewFails,
      Talks!Cli!PreviewFails, Cli!Approve, Talks!Cli!Approve, Cli!PlanOnly,
      Talks!Cli!PlanOnly, Cli!Interrupt, Talks!Cli!Interrupt, Cli!Quit, Talks!Cli!Quit,
      Cli!EndOfInput, Talks!Cli!EndOfInput, Cli!PromptForApproval,
      Talks!Cli!PromptForApproval, Cli!Settle, Talks!Cli!Settle, Cli!ScriptEnds,
      Talks!Cli!ScriptEnds, Cli!Drained, Talks!Cli!Drained, Cli!Finishes,
      Talks!Cli!Finishes, Cli!Cancelled, Talks!Cli!Cancelled, Cli!Asks, Talks!Cli!Asks,
      Cli!Answered, Talks!Cli!Answered, Cli!Pump, Talks!Cli!Pump, Cli!ApprovalTimeout,
      Talks!Cli!ApprovalTimeout, Cli!Killed, Talks!Cli!Killed, Cli!Loops, Talks!Cli!Loops,
      Cli!Tasks, Talks!Cli!Tasks, Cli!Messages, Talks!Cli!Messages, Cli!Cut, Talks!Cli!Cut,
      Cli!Down, Talks!Cli!Down, Cli!Readable, Talks!Cli!Readable, Cli!Loads,
      Talks!Cli!Loads, Cli!Headless, Talks!Cli!Headless, Cli!Busy, Talks!Cli!Busy,
      Cli!Finalized, Talks!Cli!Finalized, Cli!Collected, Talks!Cli!Collected, Cli!After,
      Talks!Cli!After, Cli!Background, Talks!Cli!Background, Cli!Running, Talks!Cli!Running,
      Cli!Refused, Talks!Cli!Refused, Cli!Executes, Talks!Cli!Executes, Cli!Exits,
      Talks!Cli!Exits, Cli!Save, Talks!Cli!Save, Cli!Ended, Talks!Cli!Ended

LEMMA CliPart ==
    /\ Cli!Init => Talks!CliInv
    /\ Talks!CliInv /\ [Cli!Next]_Cli!vars => Talks!CliInv'
    /\ Talks!CliInv => Cli!TypeOK /\ Cli!SnapshotOwnsMessages /\ Cli!ExitCodeTrue
  <1>1. Talks!CliInv => /\ Talks!Cli!TypeOK /\ Talks!Cli!SnapshotOwnsMessages
                        /\ Talks!Cli!ExitCodeTrue
    BY DEF Talks!CliInv, Talks!CliOwn, Talks!CliExit
  <1>2. Talks!CliParameters
    BY CliAssumption, Zenon DEF Talks!CliParameters, Cli!Nobody, Talks!Cli!Nobody
  <1> QED BY <1>1, <1>2, CliSame, Talks!CliInit, Talks!CliStep

LEMMA TerminalSame ==
    /\ Terminal!Init <=> Talks!Terminal!Init
    /\ [Terminal!Next]_Terminal!vars <=> [Talks!Terminal!Next]_Talks!Terminal!vars
    /\ Terminal!TypeOK <=> Talks!Terminal!TypeOK
    /\ Terminal!LinesAccounted <=> Talks!Terminal!LinesAccounted
  BY DEF
      Terminal!Init, Talks!Terminal!Init, Terminal!Next, Talks!Terminal!Next, Terminal!vars,
      Talks!Terminal!vars, Terminal!TypeOK, Talks!Terminal!TypeOK, Terminal!LinesAccounted,
      Talks!Terminal!LinesAccounted, Terminal!Idle, Talks!Terminal!Idle,
      Terminal!TypeForPrompt, Talks!Terminal!TypeForPrompt, Terminal!TypeForQuestion,
      Talks!Terminal!TypeForQuestion, Terminal!TypeForNobody, Talks!Terminal!TypeForNobody,
      Terminal!SendMessage, Talks!Terminal!SendMessage, Terminal!SendAction,
      Talks!Terminal!SendAction, Terminal!ActionTimesOut, Talks!Terminal!ActionTimesOut,
      Terminal!SendControl, Talks!Terminal!SendControl, Terminal!TurnBegins,
      Talks!Terminal!TurnBegins, Terminal!Ask, Talks!Terminal!Ask, Terminal!NeedApproval,
      Talks!Terminal!NeedApproval, Terminal!TurnEnds, Talks!Terminal!TurnEnds, Terminal!Env,
      Talks!Terminal!Env, Terminal!EnvelopeOf, Talks!Terminal!EnvelopeOf,
      Terminal!Interpreted, Talks!Terminal!Interpreted, Terminal!Done, Talks!Terminal!Done,
      Terminal!Routed, Talks!Terminal!Routed, Terminal!Controls, Talks!Terminal!Controls,
      Terminal!SlashAction, Talks!Terminal!SlashAction, Terminal!Decides,
      Talks!Terminal!Decides, Terminal!Of, Talks!Terminal!Of, Terminal!McpOk,
      Talks!Terminal!McpOk, Terminal!Actions, Talks!Terminal!Actions, Terminal!Params,
      Talks!Terminal!Params, Terminal!Scopes, Talks!Terminal!Scopes, Terminal!Cardinality,
      Talks!Terminal!Cardinality, Terminal!Range, Talks!Terminal!Range

LEMMA TerminalPart ==
    /\ Terminal!Init => Talks!TerminalInv
    /\ Talks!TerminalInv /\ [Terminal!Next]_Terminal!vars => Talks!TerminalInv'
    /\ Talks!TerminalInv => Terminal!TypeOK /\ Terminal!LinesAccounted
  <1>1. Talks!TerminalParameters
    BY TerminalAssumption, Zenon DEF Talks!TerminalParameters, Talks!TerminalQuestion
  <1> QED BY <1>1, TerminalSame, Talks!TerminalInit, Talks!TerminalStep, Talks!TerminalHolds

LEMMA ServerSame ==
    /\ Server!Init <=> Talks!Server!Init
    /\ [Server!Next]_Server!vars <=> [Talks!Server!Next]_Talks!Server!vars
    /\ Server!TypeOK <=> Talks!Server!TypeOK
    /\ Server!NothingLost <=> Talks!Server!NothingLost
    /\ Server!OwnArtifact <=> Talks!Server!OwnArtifact
  BY DEF
      Server!Init, Talks!Server!Init, Server!Next, Talks!Server!Next, Server!vars,
      Talks!Server!vars, Server!TypeOK, Talks!Server!TypeOK, Server!NothingLost,
      Talks!Server!NothingLost, Server!OwnArtifact, Talks!Server!OwnArtifact,
      Server!NoAnswer, Talks!Server!NoAnswer, Server!NoStream, Talks!Server!NoStream,
      Server!RunEnds, Talks!Server!RunEnds, Server!Run, Talks!Server!Run, Server!Cancel,
      Talks!Server!Cancel, Server!Chunk, Talks!Server!Chunk, Server!States,
      Talks!Server!States, Server!Files, Talks!Server!Files, Server!InputOf,
      Talks!Server!InputOf, Server!Place, Talks!Server!Place, Server!Copies,
      Talks!Server!Copies, Server!Inline, Talks!Server!Inline, Server!Linked,
      Talks!Server!Linked, Server!Asked, Talks!Server!Asked, Server!Text, Talks!Server!Text,
      Server!Attachment, Talks!Server!Attachment, Server!Cardinality,
      Talks!Server!Cardinality

LEMMA ServerPart ==
    /\ Server!Init => Talks!ServerInv
    /\ Talks!ServerInv /\ [Server!Next]_Server!vars => Talks!ServerInv'
    /\ Talks!ServerInv => Server!TypeOK /\ Server!NothingLost /\ Server!OwnArtifact
  <1>1. Talks!ServerParameters
    BY ServerAssumption, Zenon DEF Talks!ServerParameters, Talks!Server!Files, Server!Files
  <1> QED BY <1>1, ServerSame, Talks!ServerInit, Talks!ServerStep, Talks!ServerHolds

LEMMA ConfigSame ==
    /\ Config!Init <=> Talks!Config!Init
    /\ [Config!Next]_Config!vars <=> [Talks!Config!Next]_Talks!Config!vars
    /\ Config!TypeOK <=> Talks!Config!TypeOK
    /\ Config!FlagsWin <=> Talks!Config!FlagsWin
    /\ Config!PromptAsAsked <=> Talks!Config!PromptAsAsked
    /\ Config!ProxyAsAsked <=> Talks!Config!ProxyAsAsked
    /\ Config!Keys = Talks!Config!Keys /\ Config!Values = Talks!Config!Values
    /\ Config!Configs = Talks!Config!Configs /\ Config!Unset = Talks!Config!Unset
    /\ Config!Broken = Talks!Config!Broken
  <1>1. /\ Config!Keys = Talks!Config!Keys
        /\ Config!Values = Talks!Config!Values
        /\ Config!Configs = Talks!Config!Configs
        /\ Config!Unset = Talks!Config!Unset
        /\ Config!Broken = Talks!Config!Broken
        /\ Config!NoConfig = Talks!Config!NoConfig
        /\ Config!NoPrompt = Talks!Config!NoPrompt
        /\ Config!NoAgent = Talks!Config!NoAgent
        /\ \A n, s : Config!Entry(n, s) = Talks!Config!Entry(n, s)
        /\ Config!Servers = Talks!Config!Servers
    BY Zenon DEF
      Config!Keys, Talks!Config!Keys, Config!Values, Talks!Config!Values, Config!Configs,
      Talks!Config!Configs, Config!Unset, Talks!Config!Unset, Config!Broken,
      Talks!Config!Broken, Config!NoConfig, Talks!Config!NoConfig, Config!NoPrompt,
      Talks!Config!NoPrompt, Config!NoAgent, Talks!Config!NoAgent, Config!Entry,
      Talks!Config!Entry, Config!Servers, Talks!Config!Servers
  <1>2. /\ \A s : Config!FlattenSeq(s) = Talks!Config!FlattenSeq(s)
        /\ \A S : Config!Min(S) = Talks!Config!Min(S)
    BY Zenon DEF
      Config!FlattenSeq, Talks!Config!FlattenSeq, Config!Min, Talks!Config!Min
  <1>3. \A path, servers : Config!MayConnect(path, servers) <=> Talks!Config!MayConnect(path, servers)
    <2>1. \A file : Config!Parsed(file) = Talks!Config!Parsed(file)
      BY <1>1, <1>2, Zenon DEF Config!Parsed, Talks!Config!Parsed, Config!SelectInSeq,
         Talks!Config!SelectInSeq
    <2>2. \A file : Config!FileServers(file) = Talks!Config!FileServers(file)
      BY <1>1, Zenon DEF Config!FileServers, Talks!Config!FileServers
    <2>3. \A path : Config!Found(path) = Talks!Config!Found(path)
      BY <1>2, <2>1, <2>2, Zenon DEF Config!Found, Talks!Config!Found
    <2> QED BY <1>1, <2>3, Zenon DEF Config!MayConnect, Talks!Config!MayConnect
  <1>4. /\ Config!Loads <=> Talks!Config!Loads
        /\ Config!Loaded = Talks!Config!Loaded
    <2>1. /\ \A k, o : Config!Merged(k, o) = Talks!Config!Merged(k, o)
          /\ \A k : Config!WithProxyRule(k) = Talks!Config!WithProxyRule(k)
      BY <1>1, Zenon DEF
        Config!Merged, Talks!Config!Merged, Config!WithProxyRule, Talks!Config!WithProxyRule
    <2>2. Config!Loads <=> Talks!Config!Loads
      BY <1>1, <2>1, Zenon DEF Config!Loads, Talks!Config!Loads, Config!ModeAccepted,
         Talks!Config!ModeAccepted
    <2>3. Config!Loaded = Talks!Config!Loaded
      BY <2>1, Zenon DEF Config!Loaded, Talks!Config!Loaded, Config!FromDict, Talks!Config!FromDict
    <2> QED BY <2>2, <2>3
  <1>9. /\ \A k, o : Config!Overridden(k, o) = Talks!Config!Overridden(k, o)
        /\ \A k : Config!PromptAccepted(k) <=> Talks!Config!PromptAccepted(k)
        /\ \A k : Config!PromptOf(k) = Talks!Config!PromptOf(k)
        /\ \A k : Config!ProxyOf(k) = Talks!Config!ProxyOf(k)
    <2>1. \A k, o : Config!PromptFlags(k, o) = Talks!Config!PromptFlags(k, o)
      BY <1>1, Zenon DEF Config!PromptFlags, Talks!Config!PromptFlags
    <2>2. \A k, o : Config!Overridden(k, o) = Talks!Config!Overridden(k, o)
      BY <1>1, <2>1, Zenon DEF Config!Overridden, Talks!Config!Overridden
    <2>3. /\ \A k : Config!PromptAccepted(k) <=> Talks!Config!PromptAccepted(k)
          /\ \A k : Config!PromptOf(k) = Talks!Config!PromptOf(k)
      BY <1>1, Zenon DEF
        Config!PromptAccepted, Talks!Config!PromptAccepted, Config!PromptOf,
        Talks!Config!PromptOf
    <2>4. \A k : Config!ProxyOf(k) = Talks!Config!ProxyOf(k)
      BY <1>1, Zenon DEF Config!ProxyOf, Talks!Config!ProxyOf
    <2> QED BY <2>2, <2>3, <2>4
  <1>5. /\ \A servers : Config!Start(servers) <=> Talks!Config!Start(servers)
        /\ \A servers : Config!Reload(servers) <=> Talks!Config!Reload(servers)
        /\ \A servers : Config!ReloadPaths(servers) <=> Talks!Config!ReloadPaths(servers)
        /\ Config!Exit <=> Talks!Config!Exit
        /\ Config!UserEdits <=> Talks!Config!UserEdits
    BY <1>1, <1>3, <1>4, <1>9, Zenon DEF
      Config!Start, Talks!Config!Start, Config!Reload, Talks!Config!Reload,
      Config!ReloadPaths, Talks!Config!ReloadPaths, Config!Exit, Talks!Config!Exit,
      Config!UserEdits, Talks!Config!UserEdits
  <1>6. /\ \A S, n : Config!SeqOf(S, n) = Talks!Config!SeqOf(S, n)
        /\ \A S : Config!Cardinality(S) = Talks!Config!Cardinality(S)
    BY Zenon DEF
      Config!SeqOf, Talks!Config!SeqOf, Config!Cardinality, Talks!Config!Cardinality,
      Config!IsFiniteSet, Talks!Config!IsFiniteSet
  <1>7. /\ Config!Init <=> Talks!Config!Init
        /\ [Config!Next]_Config!vars <=> [Talks!Config!Next]_Talks!Config!vars
    BY <1>1, <1>5, <1>6, Zenon DEF
      Config!Init, Talks!Config!Init, Config!Next, Talks!Config!Next, Config!vars,
      Talks!Config!vars
  <1>8. /\ Config!TypeOK <=> Talks!Config!TypeOK
        /\ Config!FlagsWin <=> Talks!Config!FlagsWin
        /\ Config!PromptAsAsked <=> Talks!Config!PromptAsAsked
        /\ Config!ProxyAsAsked <=> Talks!Config!ProxyAsAsked
    BY <1>1, Zenon DEF
      Config!TypeOK, Talks!Config!TypeOK, Config!FlagsWin, Talks!Config!FlagsWin,
      Config!PromptAsAsked, Talks!Config!PromptAsAsked, Config!ProxyAsAsked,
      Talks!Config!ProxyAsAsked, Config!ConfigGet, Talks!Config!ConfigGet
  <1> QED BY <1>1, <1>7, <1>8

LEMMA ConfigPart ==
    /\ Config!Init => Talks!ConfigInv
    /\ Talks!ConfigInv /\ [Config!Next]_Config!vars => Talks!ConfigInv'
    /\ Talks!ConfigInv => /\ Config!TypeOK /\ Config!FlagsWin /\ Config!PromptAsAsked
                          /\ Config!ProxyAsAsked
  <1>1. Talks!ConfigParameters
    BY ConfigAssumption, ConfigSame, Zenon DEF Talks!ConfigParameters, Talks!ConfigFile
  <1> QED BY <1>1, ConfigSame, Talks!ConfigInit, Talks!ConfigStep, Talks!ConfigHolds

LEMMA BuilderSame ==
    /\ Builder!Init <=> Talks!Builder!Init
    /\ [Builder!Next]_Builder!vars <=> [Talks!Builder!Next]_Talks!Builder!vars
    /\ Builder!TypeOK <=> Talks!Builder!TypeOK
    /\ Builder!ExplicitUsed <=> Talks!Builder!ExplicitUsed
    /\ Builder!HooksOrdered <=> Talks!Builder!HooksOrdered
  <1>1. /\ \A n, s : Builder!Part(n, s) = Talks!Builder!Part(n, s)
        /\ Builder!Unset = Talks!Builder!Unset
        /\ Builder!Cached = Talks!Builder!Cached
        /\ Builder!DareOnly = Talks!Builder!DareOnly
        /\ Builder!NoAgent = Talks!Builder!NoAgent
        /\ Builder!Resolved = Talks!Builder!Resolved
        /\ \A f : Builder!Range(f) = Talks!Builder!Range(f)
        /\ \A S : Builder!Min(S) = Talks!Builder!Min(S)
    BY Zenon DEF
      Builder!Part, Talks!Builder!Part, Builder!Unset, Talks!Builder!Unset, Builder!Cached,
      Talks!Builder!Cached, Builder!DareOnly, Talks!Builder!DareOnly, Builder!NoAgent,
      Talks!Builder!NoAgent, Builder!Resolved, Talks!Builder!Resolved, Builder!Range,
      Talks!Builder!Range, Builder!Min, Talks!Builder!Min
  <1>2. /\ \A S, R : Builder!InOrder(S, R) = Talks!Builder!InOrder(S, R)
        /\ \A s, P : Builder!Taken(s, P) = Talks!Builder!Taken(s, P)
    BY Zenon DEF
      Builder!InOrder, Talks!Builder!InOrder, Builder!Cardinality,
      Talks!Builder!Cardinality, Builder!IsFiniteSet, Talks!Builder!IsFiniteSet,
      Builder!Taken, Talks!Builder!Taken, Builder!Places, Talks!Builder!Places
  <1>3. /\ \A c, n : Builder!Built(c, n) = Talks!Builder!Built(c, n)
        /\ \A n : Builder!Served(n) = Talks!Builder!Served(n)
        /\ \A r, ts : Builder!Clashes(r, ts) = Talks!Builder!Clashes(r, ts)
    BY <1>1, Zenon DEF
      Builder!Built, Talks!Builder!Built, Builder!Served, Talks!Builder!Served,
      Builder!Clashes, Talks!Builder!Clashes, Builder!Made, Talks!Builder!Made, Builder!Own,
      Talks!Builder!Own
  <1>4. /\ \A r, ts : Builder!Registered(r, ts) = Talks!Builder!Registered(r, ts)
        /\ \A r, off, ts : Builder!Disabled(r, off, ts) = Talks!Builder!Disabled(r, off, ts)
    <2>1. ASSUME NEW r, NEW ts
          PROVE  Builder!Registered(r, ts) = Talks!Builder!Registered(r, ts)
      <3> DEFINE to(clashes, least) == IF clashes = {} THEN Len(ts) ELSE least - 1
                 filled(until, range) ==
                    LET fresh == {ts[i].name : i \in 1..until} \ DOMAIN r
                    IN [t \in DOMAIN r \union fresh |->
                           IF t \in DOMAIN r THEN r[t]
                           ELSE [object |-> (CHOOSE x \in range : x.name = t).object,
                                 enabled |-> TRUE]]
                 one == to(Builder!Clashes(r, ts), Builder!Min(Builder!Clashes(r, ts)))
                 two == to(Talks!Builder!Clashes(r, ts),
                           Talks!Builder!Min(Talks!Builder!Clashes(r, ts)))
      <3>1. Builder!Registered(r, ts) = filled(one, Builder!Range(SubSeq(ts, 1, one)))
        BY Zenon DEF Builder!Registered
      <3>2. Talks!Builder!Registered(r, ts) = filled(two, Talks!Builder!Range(SubSeq(ts, 1, two)))
        BY Zenon DEF Talks!Builder!Registered
      <3> HIDE DEF filled, to
      <3>3. one = two
        BY <1>1, <1>3
      <3> HIDE DEF one, two
      <3>4. Builder!Range(SubSeq(ts, 1, one)) = Talks!Builder!Range(SubSeq(ts, 1, two))
        BY <1>1, <3>3
      <3> QED BY <3>1, <3>2, <3>3, <3>4
    <2>2. \A r, off, ts : Builder!Disabled(r, off, ts) = Talks!Builder!Disabled(r, off, ts)
      BY Zenon DEF
        Builder!Disabled, Talks!Builder!Disabled, Builder!Spared, Talks!Builder!Spared
    <2> QED BY <2>1, <2>2
  <1>5. /\ \A c : Builder!Managed(c) = Talks!Builder!Managed(c)
        /\ \A r, ns, c : Builder!Group(r, ns, c) = Talks!Builder!Group(r, ns, c)
    BY <1>2, Zenon DEF
      Builder!Managed, Talks!Builder!Managed, Builder!Group, Talks!Builder!Group
  <1>6. \A c : Builder!System(c) = Talks!Builder!System(c)
    BY <1>1, <1>5, Zenon DEF
      Builder!System, Talks!Builder!System
  <1>7. /\ \A c : Builder!Candidates(c) = Talks!Builder!Candidates(c)
        /\ \A C : Builder!FirstOf(C) = Talks!Builder!FirstOf(C)
        /\ \A C : Builder!InTurn(C) = Talks!Builder!InTurn(C)
    BY <1>5, <1>6, Zenon DEF
      Builder!Candidates, Talks!Builder!Candidates, Builder!FirstOf, Talks!Builder!FirstOf,
      Builder!InTurn, Talks!Builder!InTurn, Builder!Before, Talks!Builder!Before
  <1>8. \A c : Builder!HooksOf(c) = Talks!Builder!HooksOf(c)
    BY <1>2, <1>7, Zenon DEF
      Builder!HooksOf, Talks!Builder!HooksOf
  <1>9. /\ \A s, c : Builder!Resolve(s, c) = Talks!Builder!Resolve(s, c)
        /\ \A ss : Builder!ContextOf(ss) = Talks!Builder!ContextOf(ss)
        /\ \A c, fails : Builder!SlotsOf(c, fails) = Talks!Builder!SlotsOf(c, fails)
    BY <1>1, Zenon DEF
      Builder!Resolve, Talks!Builder!Resolve, Builder!ContextOf, Talks!Builder!ContextOf,
      Builder!SlotsOf, Talks!Builder!SlotsOf
  <1>10. \A c, r, ss, n : Builder!Agent(c, r, ss, n) = Talks!Builder!Agent(c, r, ss, n)
    BY <1>1, <1>8, <1>9, Zenon DEF
      Builder!Agent, Talks!Builder!Agent
  <1>11. Builder!Build <=> Talks!Builder!Build
    \* What a build makes, stage by stage: 1 here, 2 in the instance of the proofs.
    <2> DEFINE c == Builder!Resolved
               n == Len(v4) + 1
               r == IF v1.registry = 0 THEN Len(v3) + 1 ELSE v1.registry
               old == IF v1.registry = 0 THEN <<>> ELSE v3[r]
               s1 == IF ForBuilder.Configs[c].servers THEN Builder!Served(n) ELSE <<>>
               s2 == IF ForBuilder.Configs[c].servers THEN Talks!Builder!Served(n) ELSE <<>>
               w1 == Builder!Registered(old, s1)
               w2 == Talks!Builder!Registered(old, s2)
               f1 == Builder!Registered(w1, Builder!Built(c, n))
               f2 == Talks!Builder!Registered(w2, Talks!Builder!Built(c, n))
               e1 == Builder!Clashes(old, s1) # {}
               e2 == Talks!Builder!Clashes(old, s2) # {}
               d1 == e1 \/ Builder!Clashes(w1, Builder!Built(c, n)) # {}
               d2 == e2 \/ Talks!Builder!Clashes(w2, Talks!Builder!Built(c, n)) # {}
               o1 == Builder!Disabled(f1, ForBuilder.Configs[c].off, Builder!Built(c, n))
               o2 == Talks!Builder!Disabled(f2, ForBuilder.Configs[c].off, Talks!Builder!Built(c, n))
               p1 == Builder!SlotsOf(c, d1)
               p2 == Talks!Builder!SlotsOf(c, d2)
               a1 == IF d1 THEN Builder!NoAgent ELSE Builder!Agent(c, r, p1, n)
               a2 == IF d2 THEN Talks!Builder!NoAgent ELSE Talks!Builder!Agent(c, r, p2, n)
               k1 == CASE e1 -> w1 [] d1 -> f1 [] OTHER -> o1
               k2 == CASE e2 -> w2 [] d2 -> f2 [] OTHER -> o2
               y1 == [s \in ForBuilder.Slots |-> IF s \in Builder!Cached THEN p1[s] ELSE v1.slots[s]]
               y2 == [s \in ForBuilder.Slots |-> IF s \in Talks!Builder!Cached THEN p2[s] ELSE v1.slots[s]]
               does(k, y, a) ==
                  /\ Len(v4) < ForBuilder.MaxBuilds
                  /\ v3' = [i \in DOMAIN v3 \union {r} |-> IF i = r THEN k ELSE v3[i]]
                  /\ v1' = [v1 EXCEPT !.config = c, !.registry = r, !.slots = y]
                  /\ v4' = Append(v4, a)
                  /\ UNCHANGED v2
    <2>1. Builder!Build <=> does(k1, y1, a1)
      BY Zenon DEF Builder!Build
    <2>2. Talks!Builder!Build <=> does(k2, y2, a2)
      BY Zenon DEF Talks!Builder!Build, Builder!Resolved, Talks!Builder!Resolved
    <2>3. s1 = s2
      BY <1>3
    <2> HIDE DEF s1, s2, does, old
    <2>4. w1 = w2 /\ (e1 <=> e2)
      BY <1>3, <1>4, <2>3
    <2> HIDE DEF w1, w2, e1, e2
    <2>5. f1 = f2 /\ (d1 <=> d2)
      BY <1>3, <1>4, <2>4
    <2> HIDE DEF f1, f2, d1, d2
    <2>6. o1 = o2
      BY <1>3, <1>4, <2>5
    <2>7. p1 = p2
      <3>1. CASE d1
        BY <3>1, <1>9, <2>5, Zenon
      <3>2. CASE ~d1
        BY <3>2, <1>9, <2>5, Zenon
      <3> QED BY <3>1, <3>2
    <2> HIDE DEF o1, o2, p1, p2
    <2>8. k1 = k2 /\ y1 = y2 /\ a1 = a2
      BY <1>1, <1>10, <2>4, <2>5, <2>6, <2>7
    <2> HIDE DEF k1, k2, y1, y2, a1, a2
    <2> QED BY <2>1, <2>2, <2>8
  <1>12. /\ Builder!WithConfig <=> Talks!Builder!WithConfig
         /\ \A s : Builder!Given(s) <=> Talks!Builder!Given(s)
         /\ Builder!AddTool <=> Talks!Builder!AddTool
         /\ Builder!AddHook <=> Talks!Builder!AddHook
         /\ Builder!WithGateway <=> Talks!Builder!WithGateway
         /\ Builder!ProviderReloads <=> Talks!Builder!ProviderReloads
    BY <1>1, Zenon DEF
      Builder!WithConfig, Talks!Builder!WithConfig, Builder!Given, Talks!Builder!Given,
      Builder!AddTool, Talks!Builder!AddTool, Builder!AddHook, Talks!Builder!AddHook,
      Builder!WithGateway, Talks!Builder!WithGateway, Builder!ProviderReloads,
      Talks!Builder!ProviderReloads
  <1>13. /\ Builder!Init <=> Talks!Builder!Init
         /\ [Builder!Next]_Builder!vars <=> [Talks!Builder!Next]_Talks!Builder!vars
    BY <1>1, <1>11, <1>12, Zenon DEF
      Builder!Init, Talks!Builder!Init, Builder!Next, Talks!Builder!Next, Builder!vars,
      Talks!Builder!vars
  <1>14. /\ Builder!TypeOK <=> Talks!Builder!TypeOK
         /\ Builder!ExplicitUsed <=> Talks!Builder!ExplicitUsed
         /\ Builder!HooksOrdered <=> Talks!Builder!HooksOrdered
    BY <1>1, <1>5, Zenon DEF
      Builder!TypeOK, Talks!Builder!TypeOK, Builder!ExplicitUsed,
      Talks!Builder!ExplicitUsed, Builder!HooksOrdered, Talks!Builder!HooksOrdered,
      Builder!Agents, Talks!Builder!Agents
  <1> QED BY <1>13, <1>14

LEMMA BuilderPart ==
    /\ Builder!Init => Talks!BuilderInv
    /\ Talks!BuilderInv /\ [Builder!Next]_Builder!vars => Talks!BuilderInv'
    /\ Talks!BuilderInv => /\ Builder!TypeOK /\ Builder!ExplicitUsed
                           /\ Builder!HooksOrdered
  <1>1. Talks!BuilderParameters
    BY BuilderAssumption, Zenon DEF Talks!BuilderParameters, Talks!Transport
  <1> QED BY <1>1, BuilderSame, Talks!BuilderInit, Talks!BuilderStep, Talks!BuilderHolds

LEMMA LoopSame ==
    /\ Loop!Init <=> Talks!Loop!Init
    /\ [Loop!Next]_Loop!vars <=> [Talks!Loop!Next]_Talks!Loop!vars
    /\ Loop!TypeOK <=> Talks!Loop!TypeOK
    /\ Loop!ModelSeesPairs <=> Talks!Loop!ModelSeesPairs
    /\ Loop!ToolsAfterManage <=> Talks!Loop!ToolsAfterManage
  <1>1. \A S : Loop!Cardinality(S) = Talks!Loop!Cardinality(S)
    BY Zenon DEF
      Loop!Cardinality, Talks!Loop!Cardinality, Loop!IsFiniteSet, Talks!Loop!IsFiniteSet
  <1>2. \A s, P : Loop!Taken(s, P) = Talks!Loop!Taken(s, P)
    <2>1. \A S, R : Loop!InOrder(S, R) = Talks!Loop!InOrder(S, R)
      BY Zenon DEF Loop!InOrder, Talks!Loop!InOrder, Loop!Cardinality,
         Talks!Loop!Cardinality, Loop!IsFiniteSet, Talks!Loop!IsFiniteSet
    <2>2. \A P : Loop!Places(P) = Talks!Loop!Places(P)
      BY <2>1 DEF Loop!Places, Talks!Loop!Places
    <2> QED BY <2>2 DEF Loop!Taken, Talks!Loop!Taken
  <1>3. /\ \A is, of, no, size : Loop!Message(is, of, no, size) = Talks!Loop!Message(is, of, no, size)
        /\ \A is : Loop!Note(is) = Talks!Loop!Note(is)
        /\ Loop!Marks = Talks!Loop!Marks
        /\ Loop!Results = Talks!Loop!Results
        /\ Loop!MessageKinds = Talks!Loop!MessageKinds
        /\ Loop!IdleRun = Talks!Loop!IdleRun
    BY Zenon DEF
      Loop!Message, Talks!Loop!Message, Loop!Note, Talks!Loop!Note, Loop!Marks,
      Talks!Loop!Marks, Loop!Results, Talks!Loop!Results, Loop!MessageKinds,
      Talks!Loop!MessageKinds, Loop!IdleRun, Talks!Loop!IdleRun
  <1>4. \A ms : Loop!Tokens(ms) = Talks!Loop!Tokens(ms)
    BY <1>1, Zenon DEF
      Loop!Tokens, Talks!Loop!Tokens
  <1>5. \A ms : Loop!FirstChunk(ms) = Talks!Loop!FirstChunk(ms)
    <2> SUFFICES ASSUME NEW ms
                 PROVE  Loop!FirstChunk(ms) = Talks!Loop!FirstChunk(ms)
      OBVIOUS
    <2> DEFINE over == {i \in 2..Len(ms) : 2 * Loop!Tokens(SubSeq(ms, 1, i)) > Loop!Tokens(ms)}
               past == {i \in 2..Len(ms) :
                            2 * Talks!Loop!Tokens(SubSeq(ms, 1, i)) > Talks!Loop!Tokens(ms)}
    <2>1. over = past
      BY <1>4
    <2>2. /\ Loop!FirstChunk(ms) = IF over = {} THEN Len(ms)
                                   ELSE (CHOOSE i \in over : \A j \in over : i <= j) - 1
          /\ Talks!Loop!FirstChunk(ms) = IF past = {} THEN Len(ms)
                                         ELSE (CHOOSE i \in past : \A j \in past : i <= j) - 1
      BY Zenon DEF Loop!FirstChunk, Talks!Loop!FirstChunk
    <2> HIDE DEF over, past
    <2> QED BY <2>1, <2>2, Zenon
  <1>6. \A ms : Loop!Dropped(ms) = Talks!Loop!Dropped(ms)
    BY <1>4, <1>5, ZenonT(80) DEF
      Loop!Dropped, Talks!Loop!Dropped
  <1>7. /\ \A ms, n : Loop!Keep(ms, n) = Talks!Loop!Keep(ms, n)
        /\ \A ms, n : Loop!Drained(ms, n) = Talks!Loop!Drained(ms, n)
        /\ \A ms, kinds : Loop!Only(ms, kinds) = Talks!Loop!Only(ms, kinds)
    BY <1>2, <1>3, Zenon DEF
      Loop!Keep, Talks!Loop!Keep, Loop!Drained, Talks!Loop!Drained, Loop!Only,
      Talks!Loop!Only
  <1>8. \A ms, is : Loop!Holds(ms, is) <=> Talks!Loop!Holds(ms, is)
    BY Zenon DEF
      Loop!Holds, Talks!Loop!Holds, Loop!Range, Talks!Loop!Range
  <1>9. /\ \A ms : Loop!WithCore(ms) = Talks!Loop!WithCore(ms)
        /\ \A ms, value : Loop!WithComplete(ms, value) = Talks!Loop!WithComplete(ms, value)
        /\ \A ms : Loop!Ordered(ms) = Talks!Loop!Ordered(ms)
    BY <1>3, <1>7, <1>8, Zenon DEF
      Loop!WithCore, Talks!Loop!WithCore, Loop!WithComplete, Talks!Loop!WithComplete,
      Loop!Ordered, Talks!Loop!Ordered
  <1>10. Loop!Init <=> Talks!Loop!Init
    BY <1>3, Zenon DEF
      Loop!Init, Talks!Loop!Init
  <1>11. /\ Loop!Ends <=> Talks!Loop!Ends
         /\ Loop!MayRunTools <=> Talks!Loop!MayRunTools
         /\ \A is, size : Loop!Result(is, size) = Talks!Loop!Result(is, size)
         /\ Loop!Shown = Talks!Loop!Shown
         /\ Loop!Assembling <=> Talks!Loop!Assembling
    BY <1>1, <1>2, <1>3, <1>4, <1>5, <1>6, <1>7, <1>8, <1>9, Zenon DEF
      Loop!Ends, Talks!Loop!Ends, Loop!MayRunTools, Talks!Loop!MayRunTools, Loop!Result,
      Talks!Loop!Result, Loop!Shown, Talks!Loop!Shown, Loop!Assembling,
      Talks!Loop!Assembling
  <1>12. /\ Loop!Execute <=> Talks!Loop!Execute
         /\ Loop!Compress <=> Talks!Loop!Compress
         /\ Loop!Summarised <=> Talks!Loop!Summarised
         /\ Loop!GivesUp <=> Talks!Loop!GivesUp
         /\ Loop!Chats <=> Talks!Loop!Chats
         /\ Loop!AnswersText <=> Talks!Loop!AnswersText
    BY <1>3, <1>4, <1>6, <1>7, <1>8, <1>9, <1>11, Zenon DEF
      Loop!Execute, Talks!Loop!Execute, Loop!Compress, Talks!Loop!Compress, Loop!Summarised,
      Talks!Loop!Summarised, Loop!GivesUp, Talks!Loop!GivesUp, Loop!Chats, Talks!Loop!Chats,
      Loop!AnswersText, Talks!Loop!AnswersText
  <1>13. /\ Loop!AnswersCalls <=> Talks!Loop!AnswersCalls
         /\ Loop!AnswersManaged <=> Talks!Loop!AnswersManaged
         /\ Loop!Managed <=> Talks!Loop!Managed
         /\ Loop!ToolAnswers <=> Talks!Loop!ToolAnswers
         /\ Loop!Breaks <=> Talks!Loop!Breaks
         /\ Loop!Guide <=> Talks!Loop!Guide
    BY <1>3, <1>7, <1>8, <1>9, <1>11, ZenonT(80) DEF
      Loop!AnswersCalls, Talks!Loop!AnswersCalls, Loop!AnswersManaged,
      Talks!Loop!AnswersManaged, Loop!Managed, Talks!Loop!Managed, Loop!ToolAnswers,
      Talks!Loop!ToolAnswers, Loop!Breaks, Talks!Loop!Breaks, Loop!Guide, Talks!Loop!Guide
  <1>14. [Loop!Next]_Loop!vars <=> [Talks!Loop!Next]_Talks!Loop!vars
    BY <1>12, <1>13 DEF
      Loop!Next, Talks!Loop!Next, Loop!Step, Talks!Loop!Step, Loop!vars, Talks!Loop!vars
  <1>15. /\ Loop!TypeOK <=> Talks!Loop!TypeOK
         /\ Loop!ModelSeesPairs <=> Talks!Loop!ModelSeesPairs
         /\ Loop!ToolsAfterManage <=> Talks!Loop!ToolsAfterManage
    <2>1. Loop!TypeOK <=> Talks!Loop!TypeOK
      BY <1>3, Zenon DEF Loop!TypeOK, Talks!Loop!TypeOK, Loop!Range, Talks!Loop!Range
    <2>2. Loop!ModelSeesPairs <=> Talks!Loop!ModelSeesPairs
      BY <1>1, <1>3, <1>4, <1>11, Zenon DEF Loop!ModelSeesPairs, Talks!Loop!ModelSeesPairs
    <2>3. Loop!ToolsAfterManage <=> Talks!Loop!ToolsAfterManage
      BY Zenon DEF Loop!ToolsAfterManage, Talks!Loop!ToolsAfterManage
    <2> QED BY <2>1, <2>2, <2>3
  <1> QED BY <1>10, <1>14, <1>15

LEMMA LoopPart ==
    /\ Loop!Init => Talks!ReactInv
    /\ Talks!ReactInv /\ [Loop!Next]_Loop!vars => Talks!ReactInv'
    /\ Talks!ReactInv => Loop!TypeOK /\ Loop!ModelSeesPairs /\ Loop!ToolsAfterManage
  <1>1. Talks!LoopParameters
    BY LoopAssumption DEF Talks!LoopParameters
  <1> QED BY <1>1, LoopSame, Talks!ReactStart, Talks!ReactMoves, Talks!ReactTyped, Talks!ReactSees

LEMMA ApprovalsSame ==
    /\ Approvals!Init <=> Talks!Approvals!Init
    /\ [Approvals!Next]_Approvals!vars <=> [Talks!Approvals!Next]_Talks!Approvals!vars
    /\ Approvals!TypeOK <=> Talks!Approvals!TypeOK
  <1>1. /\ Approvals!Setups = Talks!Approvals!Setups
        /\ Approvals!NoGrant = Talks!Approvals!NoGrant
        /\ Approvals!Off = Talks!Approvals!Off
    <2>1. Approvals!Common = Talks!Approvals!Common
      BY Zenon DEF Approvals!Common, Talks!Approvals!Common
    <2>2. /\ \A o : Approvals!Script(o) = Talks!Approvals!Script(o)
          /\ \A o, a : Approvals!RunOf(o, a) = Talks!Approvals!RunOf(o, a)
      BY Zenon DEF Approvals!Script, Talks!Approvals!Script, Approvals!RunOf, Talks!Approvals!RunOf
    <2>3. Approvals!Commands = Talks!Approvals!Commands
      BY <2>1, <2>2 DEF Approvals!Commands, Talks!Approvals!Commands
    <2>4. /\ \A c : Approvals!Accepted(c) <=> Talks!Approvals!Accepted(c)
          /\ \A c, p : Approvals!Setup(c, p) = Talks!Approvals!Setup(c, p)
      BY Zenon DEF Approvals!Accepted, Talks!Approvals!Accepted, Approvals!Setup,
         Talks!Approvals!Setup, Approvals!LimitsWaits, Talks!Approvals!LimitsWaits
    <2>5. Approvals!Setups = Talks!Approvals!Setups
      BY <2>3, <2>4 DEF Approvals!Setups, Talks!Approvals!Setups
    <2>6. Approvals!NoGrant = Talks!Approvals!NoGrant /\ Approvals!Off = Talks!Approvals!Off
      BY Zenon DEF Approvals!NoGrant, Talks!Approvals!NoGrant, Approvals!Off, Talks!Approvals!Off
    <2> QED BY <2>5, <2>6
  <1>2. /\ \A id : Approvals!Watched(id) = Talks!Approvals!Watched(id)
        /\ \A id : Approvals!Unwatched(id) = Talks!Approvals!Unwatched(id)
        /\ \A id : Approvals!Allowed(id) <=> Talks!Approvals!Allowed(id)
        /\ \A id : Approvals!Announced(id) = Talks!Approvals!Announced(id)
        /\ \A id : Approvals!AnswerTold(id) = Talks!Approvals!AnswerTold(id)
    BY <1>1, Zenon DEF
      Approvals!Watched, Talks!Approvals!Watched, Approvals!Unwatched,
      Talks!Approvals!Unwatched, Approvals!Allowed, Talks!Approvals!Allowed,
      Approvals!AskEvent, Talks!Approvals!AskEvent, Approvals!AnsweredEvent,
      Talks!Approvals!AnsweredEvent, Approvals!Announced, Talks!Approvals!Announced,
      Approvals!AnswerTold, Talks!Approvals!AnswerTold, Approvals!Requests,
      Talks!Approvals!Requests, Approvals!Off, Talks!Approvals!Off
  <1>3. /\ \A id : Approvals!Pending(id) <=> Talks!Approvals!Pending(id)
        /\ \A how : Approvals!Over(how) <=> Talks!Approvals!Over(how)
    BY <1>1, <1>2, Zenon DEF
      Approvals!Pending, Talks!Approvals!Pending, Approvals!Over, Talks!Approvals!Over
  <1>4. /\ Approvals!Begin <=> Talks!Approvals!Begin
        /\ Approvals!TakeAsk <=> Talks!Approvals!TakeAsk
        /\ Approvals!TakeAnswered <=> Talks!Approvals!TakeAnswered
        /\ Approvals!Grant <=> Talks!Approvals!Grant
        /\ Approvals!Granted <=> Talks!Approvals!Granted
        /\ Approvals!HostWrites <=> Talks!Approvals!HostWrites
        /\ Approvals!HandleFrame <=> Talks!Approvals!HandleFrame
        /\ Approvals!Elapses <=> Talks!Approvals!Elapses
        /\ Approvals!TimesOut <=> Talks!Approvals!TimesOut
        /\ Approvals!Asks <=> Talks!Approvals!Asks
        /\ Approvals!Resumes <=> Talks!Approvals!Resumes
        /\ Approvals!Finishes <=> Talks!Approvals!Finishes
    BY <1>1, <1>2, <1>3, Zenon DEF
      Approvals!Begin, Talks!Approvals!Begin, Approvals!TakeAsk, Talks!Approvals!TakeAsk,
      Approvals!TakeAnswered, Talks!Approvals!TakeAnswered, Approvals!Grant,
      Talks!Approvals!Grant, Approvals!Granted, Talks!Approvals!Granted,
      Approvals!HostWrites, Talks!Approvals!HostWrites, Approvals!HandleFrame,
      Talks!Approvals!HandleFrame, Approvals!Elapses, Talks!Approvals!Elapses,
      Approvals!TimesOut, Talks!Approvals!TimesOut, Approvals!Asks, Talks!Approvals!Asks,
      Approvals!Resumes, Talks!Approvals!Resumes, Approvals!Finishes,
      Talks!Approvals!Finishes, Approvals!Requests, Talks!Approvals!Requests,
      Approvals!Range, Talks!Approvals!Range
  <1>5. [Approvals!Next]_Approvals!vars <=> [Talks!Approvals!Next]_Talks!Approvals!vars
    BY <1>4 DEF
      Approvals!Next, Talks!Approvals!Next, Approvals!Pump, Talks!Approvals!Pump,
      Approvals!Agent, Talks!Approvals!Agent, Approvals!vars, Talks!Approvals!vars
  <1>6. /\ Approvals!Init <=> Talks!Approvals!Init
        /\ Approvals!TypeOK <=> Talks!Approvals!TypeOK
    BY <1>1, Zenon DEF
      Approvals!Init, Talks!Approvals!Init, Approvals!TypeOK, Talks!Approvals!TypeOK,
      Approvals!Requests, Talks!Approvals!Requests, Approvals!Range, Talks!Approvals!Range
  <1> QED BY <1>5, <1>6

LEMMA ApprovalsPart ==
    /\ Approvals!Init => Talks!WaitInv
    /\ Talks!WaitInv /\ [Approvals!Next]_Approvals!vars => Talks!WaitInv'
    /\ Talks!WaitInv => Approvals!TypeOK
  <1>1. Talks!WaitParameters
    BY ApprovalsAssumption DEF Talks!WaitParameters
  <1> QED BY <1>1, ApprovalsSame, Talks!WaitStart, Talks!WaitMoves, Talks!WaitTyped

-----------------------------------------------------------------------------
(* What is recorded: Records_proofs.                                       *)

Records == INSTANCE Records_proofs WITH
    rows <- v1, open <- v2, step <- v3, mine <- v4, created <- v5, returned <- v6,
    verdict <- v7, replayed <- v8, overlap <- v9, Connections <- ForLog.Connections,
    MaxEvents <- ForLog.MaxEvents, inFile <- v1, signal <- v2, made <- v3, resumed <- v4,
    pending <- v5, events <- v6, wait <- v7, crowded <- v8, Workers <- ForControl.Workers,
    MaxCheckpoints <- ForControl.MaxCheckpoints, backend <- v1, clock <- v2,
    setBack <- v3, used <- v4, store <- v5, stm <- v6, idx <- v7, job <- v8, legacy <- v9,
    saved <- v10, erased <- v11, Processes <- ForSaves.Processes,
    Backends <- ForSaves.Backends, Kept <- ForSaves.Kept, MaxSaves <- ForSaves.MaxSaves,
    Memories <- ForSaves.Memories, separate <- v1, runNo <- v2, path <- v3,
    iteration <- v4, hook <- v5, capture <- v6, Separate <- ForTraces.Separate,
    MaxRuns <- ForTraces.MaxRuns, MaxSpans <- ForTraces.MaxSpans,
    roots <- v1, disk <- v2, debris <- v3, told <- v4, command <- v5,
    Names <- ForTools.Names, Texts <- ForTools.Texts, Saved <- ForTools.Saved,
    MaxLines <- ForTools.MaxLines, MaxRoots <- ForTools.MaxRoots,
    bank <- v1, entries <- v2, embedder <- v3, Stores <- ForKnowledge.Stores,
    Fronts <- ForKnowledge.Fronts, Words <- ForKnowledge.Texts,
    Similar <- ForKnowledge.Similar, Models <- ForKnowledge.Models,
    MaxRows <- ForKnowledge.MaxRows, MaxTop <- ForKnowledge.MaxTop,
    shelf <- v1, setup <- v2, skills <- v3, loads <- v4, catalogue <- v5, mounted <- v6,
    promised <- v7, Dirs <- ForLibrary.Dirs, Queries <- ForLibrary.Queries,
    Disabled <- ForLibrary.Disabled, MaxLoads <- ForLibrary.MaxLoads,
    adapter <- v1, talk <- v2, todo <- v3, request <- v4, bill <- v5,
    Apis <- ForAdapters.Adapters, Answers <- ForAdapters.Answers,
    MaxTalk <- ForAdapters.MaxTalk

LEMMA ToolsSame ==
    /\ Tools!Init <=> Records!Tools!Init
    /\ [Tools!Next]_Tools!vars <=> [Records!Tools!Next]_Records!Tools!vars
    /\ Tools!TypeOK <=> Records!Tools!TypeOK
    /\ Tools!EditsAreExact <=> Records!Tools!EditsAreExact
    /\ Tools!PathsLeadBack <=> Records!Tools!PathsLeadBack
    /\ Tools!AnsweredIsOver <=> Records!Tools!AnsweredIsOver
    /\ Tools!Files = Records!Tools!Files
  <1>1. /\ \A ls, ends, cut : Tools!Content(ls, ends, cut) = Records!Tools!Content(ls, ends, cut)
        /\ Tools!Lines = Records!Tools!Lines /\ Tools!Absent = Records!Tools!Absent
        /\ Tools!Torn = Records!Tools!Torn /\ Tools!Paths = Records!Tools!Paths
        /\ Tools!Nothing = Records!Tools!Nothing /\ Tools!NoCommand = Records!Tools!NoCommand
    BY DEF Tools!Content, Records!Tools!Content, Tools!Lines, Records!Tools!Lines, Tools!Absent,
       Records!Tools!Absent, Tools!Torn, Records!Tools!Torn, Tools!Paths, Records!Tools!Paths,
       Tools!Nothing, Records!Tools!Nothing, Tools!NoCommand, Records!Tools!NoCommand,
       Tools!Relative, Records!Tools!Relative
  <1>2. \A S, n : Tools!SeqOf(S, n) = Records!Tools!SeqOf(S, n)
    BY DEF Tools!SeqOf, Records!Tools!SeqOf
  <1>3. Tools!Files = Records!Tools!Files
    BY <1>1, <1>2 DEF Tools!Files, Records!Tools!Files
  <1>4. /\ \A s, n, x : Tools!InsertAt(s, n, x) = Records!Tools!InsertAt(s, n, x)
        /\ \A s, n : Tools!RemoveAt(s, n) = Records!Tools!RemoveAt(s, n)
        /\ \A s : Tools!Front(s) = Records!Tools!Front(s)
    BY DEF Tools!InsertAt, Records!Tools!InsertAt, Tools!RemoveAt, Records!Tools!RemoveAt,
       Tools!Front, Records!Tools!Front
  <1>5. /\ \A c, n, x : Tools!Inserted(c, n, x) = Records!Tools!Inserted(c, n, x)
        /\ \A c, n : Tools!Deleted(c, n) = Records!Tools!Deleted(c, n)
        /\ \A c, n, s, x : Tools!MayDelete(c, n, s, x) <=> Records!Tools!MayDelete(c, n, s, x)
        /\ \A c : Tools!Exists(c) <=> Records!Tools!Exists(c)
    BY <1>1, <1>4, Zenon DEF Tools!Inserted, Records!Tools!Inserted, Tools!Deleted,
       Records!Tools!Deleted, Tools!MayDelete, Records!Tools!MayDelete, Tools!Exists,
       Records!Tools!Exists
  <1>6. /\ \A p : Tools!Allowed(p) <=> Records!Tools!Allowed(p)
        /\ \A p : Tools!Root(p) = Records!Tools!Root(p)
        /\ \A tool, r, name : Tools!Tell(tool, r, name) <=> Records!Tools!Tell(tool, r, name)
    BY DEF Tools!Allowed, Records!Tools!Allowed, Tools!Root, Records!Tools!Root, Tools!Tell,
       Records!Tools!Tell, Tools!Display, Records!Tools!Display, Tools!Relative,
       Records!Tools!Relative
  <1>7. /\ \A r, name, c, tool : Tools!AtomicWrite(r, name, c, tool)
                                   <=> Records!Tools!AtomicWrite(r, name, c, tool)
        /\ \A tool, p : Tools!Found(tool, p) <=> Records!Tools!Found(tool, p)
    BY <1>5, <1>6, Zenon DEF Tools!AtomicWrite, Records!Tools!AtomicWrite, Tools!Found,
       Records!Tools!Found
  <1>8. /\ \A p : Tools!Write(p) <=> Records!Tools!Write(p)
        /\ \A p, n, x : Tools!Edit(p, n, x) <=> Records!Tools!Edit(p, n, x)
        /\ \A p : Tools!ReadFile(p) <=> Records!Tools!ReadFile(p)
        /\ \A p : Tools!SearchCode(p) <=> Records!Tools!SearchCode(p)
        /\ \A p : Tools!SearchFile(p) <=> Records!Tools!SearchFile(p)
        /\ \A r, name : Tools!UserSaves(r, name) <=> Records!Tools!UserSaves(r, name)
    <2>1. \A p : Tools!Write(p) <=> Records!Tools!Write(p)
      <3> SUFFICES ASSUME NEW p
                   PROVE  Tools!Write(p) <=> Records!Tools!Write(p)
        OBVIOUS
      <3>1. \A c : Tools!AtomicWrite(Tools!Root(p), p.name, c, "write_file")
                     <=> Records!Tools!AtomicWrite(Records!Tools!Root(p), p.name, c, "write_file")
        BY <1>6, <1>7, ZenonT(40)
      <3>2. Tools!Allowed(p) <=> Records!Tools!Allowed(p)
        BY <1>6, Zenon
      <3> QED BY <3>1, <3>2, ZenonT(40) DEF Tools!Write, Records!Tools!Write
    <2>2. \A p, n, x : Tools!Edit(p, n, x) <=> Records!Tools!Edit(p, n, x)
      BY <1>5, <1>6, <1>7, ZenonT(80) DEF Tools!Edit, Records!Tools!Edit
    <2>3. \A p : Tools!ReadFile(p) <=> Records!Tools!ReadFile(p)
      BY <1>7, Zenon DEF Tools!ReadFile, Records!Tools!ReadFile
    <2>4. \A p : Tools!SearchCode(p) <=> Records!Tools!SearchCode(p)
      BY <1>7, Zenon DEF Tools!SearchCode, Records!Tools!SearchCode
    <2>5. \A p : Tools!SearchFile(p) <=> Records!Tools!SearchFile(p)
      BY <1>7, Zenon DEF Tools!SearchFile, Records!Tools!SearchFile
    <2>6. \A r, name : Tools!UserSaves(r, name) <=> Records!Tools!UserSaves(r, name)
      BY <1>1, Zenon DEF Tools!UserSaves, Records!Tools!UserSaves
    <2> QED BY <2>1, <2>2, <2>3, <2>4, <2>5, <2>6
  <1>9. /\ Tools!Launch <=> Records!Tools!Launch
        /\ Tools!ProcessEnds <=> Records!Tools!ProcessEnds
        /\ Tools!CommandReturns <=> Records!Tools!CommandReturns
        /\ Tools!TimesOut <=> Records!Tools!TimesOut
        /\ Tools!Interrupted <=> Records!Tools!Interrupted
    BY <1>1, Zenon DEF Tools!Launch, Records!Tools!Launch, Tools!ProcessEnds,
       Records!Tools!ProcessEnds, Tools!CommandReturns, Records!Tools!CommandReturns,
       Tools!TimesOut, Records!Tools!TimesOut, Tools!Interrupted, Records!Tools!Interrupted,
       Tools!MayRunIn, Records!Tools!MayRunIn
  <1>10. /\ Tools!Init <=> Records!Tools!Init
         /\ [Tools!Next]_Tools!vars <=> [Records!Tools!Next]_Records!Tools!vars
    BY <1>1, <1>8, <1>9, Zenon DEF Tools!Init, Records!Tools!Init, Tools!Next,
       Records!Tools!Next, Tools!vars, Records!Tools!vars
  <1>11. /\ Tools!TypeOK <=> Records!Tools!TypeOK
         /\ Tools!EditsAreExact <=> Records!Tools!EditsAreExact
         /\ Tools!PathsLeadBack <=> Records!Tools!PathsLeadBack
         /\ Tools!AnsweredIsOver <=> Records!Tools!AnsweredIsOver
    BY <1>1, <1>3, <1>5, <1>6, ZenonT(80) DEF Tools!TypeOK, Records!Tools!TypeOK,
       Tools!EditsAreExact, Records!Tools!EditsAreExact, Tools!PathsLeadBack,
       Records!Tools!PathsLeadBack, Tools!AnsweredIsOver, Records!Tools!AnsweredIsOver
  <1> QED BY <1>3, <1>10, <1>11

LEMMA ToolsPart ==
    /\ Tools!Init => Records!ToolsInv
    /\ Records!ToolsInv /\ [Tools!Next]_Tools!vars => Records!ToolsInv'
    /\ Records!ToolsInv => /\ Tools!TypeOK /\ Tools!EditsAreExact /\ Tools!PathsLeadBack
                           /\ Tools!AnsweredIsOver
  <1>1. Records!ToolsParameters
    BY ToolsAssumption, ToolsSame DEF Records!ToolsParameters
  <1> QED BY <1>1, ToolsSame, Records!ToolsInit, Records!ToolsStep, Records!ToolsHolds

LEMMA LogSame ==
    /\ Log!Init <=> Records!Init
    /\ [Log!Next]_Log!vars <=> [Records!Next]_Records!vars
    /\ Log!TypeOK <=> Records!TypeOK
    /\ Log!ChainVerifies <=> Records!ChainVerifies
    /\ Log!AppendsLast <=> Records!AppendsLast
  BY DEF
      Log!Init, Records!Init, Log!Next, Records!Next, Log!vars, Records!vars, Log!TypeOK,
      Records!TypeOK, Log!ChainVerifies, Records!ChainVerifies, Log!AppendsLast,
      Records!AppendsLast, Log!NoRow, Records!NoRow, Log!ReadLast, Records!ReadLast,
      Log!Insert, Records!Insert, Log!InsertFails, Records!InsertFails, Log!Commit,
      Records!Commit, Log!CommitFails, Records!CommitFails, Log!Close, Records!Close,
      Log!Reopen, Records!Reopen, Log!Verify, Records!Verify, Log!Replay, Records!Replay,
      Log!Rows, Records!Rows, Log!NoEvent, Records!NoEvent, Log!LastHash, Records!LastHash,
      Log!Locked, Records!Locked, Log!Intact, Records!Intact, Log!View, Records!View

LEMMA LogPart ==
    /\ Log!Init => Records!LogInv
    /\ Records!LogInv /\ [Log!Next]_Log!vars => Records!LogInv'
    /\ Records!LogInv => Log!TypeOK /\ Log!ChainVerifies /\ Log!AppendsLast
  <1>1. Records!LogAssumption
    BY LogAssumption DEF Records!LogAssumption
  <1> QED BY <1>1, LogSame, Records!LogInit, Records!LogStep, Records!LogHolds

LEMMA ControlSame ==
    /\ Control!Init <=> Records!Control!Init
    /\ [Control!Next]_Control!vars <=> [Records!Control!Next]_Records!Control!vars
    /\ Control!TypeOK <=> Records!Control!TypeOK
    /\ Control!WaiterReachable <=> Records!Control!WaiterReachable
  BY DEF
      Control!Init, Records!Control!Init, Control!Next, Records!Control!Next, Control!vars,
      Records!Control!vars, Control!TypeOK, Records!Control!TypeOK, Control!WaiterReachable,
      Records!Control!WaiterReachable, Control!Checkpoints, Records!Control!Checkpoints,
      Control!NoWorker, Records!Control!NoWorker, Control!Free, Records!Control!Free,
      Control!Pause, Records!Control!Pause, Control!Checkpoint, Records!Control!Checkpoint,
      Control!RequestCancel, Records!Control!RequestCancel, Control!ClearSignal,
      Records!Control!ClearSignal, Control!FilePause, Records!Control!FilePause,
      Control!FileRequest, Records!Control!FileRequest, Control!FileResume,
      Records!Control!FileResume, Control!Resume, Records!Control!Resume, Control!BeginWait,
      Records!Control!BeginWait, Control!EndWait, Records!Control!EndWait,
      Control!CancelWait, Records!Control!CancelWait, Control!Signals,
      Records!Control!Signals

LEMMA ControlPart ==
    /\ Control!Init => Records!ControlInv
    /\ Records!ControlInv /\ [Control!Next]_Control!vars => Records!ControlInv'
    /\ Records!ControlInv => Control!TypeOK /\ Control!WaiterReachable
  <1>1. Records!ControlInv => Records!Control!TypeOK /\ Records!Control!WaiterReachable
    BY DEF Records!ControlInv
  <1>2. Records!ControlAssumption
    BY ControlAssumption DEF Records!ControlAssumption, Records!Control!NoWorker, Control!NoWorker
  <1> QED BY <1>1, <1>2, ControlSame, Records!ControlInit, Records!ControlStep

LEMMA SavesSame ==
    /\ Saves!Init <=> Records!Saves!Init
    /\ [Saves!Next]_Saves!vars <=> [Records!Saves!Next]_Records!Saves!vars
    /\ Saves!TypeOK <=> Records!Saves!TypeOK
    /\ Saves!SavedIsKept <=> Records!Saves!SavedIsKept
  BY DEF
      Saves!Init, Records!Saves!Init, Saves!Next, Records!Saves!Next, Saves!vars,
      Records!Saves!vars, Saves!TypeOK, Records!Saves!TypeOK, Saves!SavedIsKept,
      Records!Saves!SavedIsKept, Saves!Ids, Records!Saves!Ids, Saves!None,
      Records!Saves!None, Saves!Empty, Records!Saves!Empty, Saves!Idle, Records!Saves!Idle,
      Saves!Active, Records!Saves!Active, Saves!Talk, Records!Saves!Talk, Saves!Save,
      Records!Saves!Save, Saves!List, Records!Saves!List, Saves!Trim, Records!Saves!Trim,
      Saves!SaveReturns, Records!Saves!SaveReturns, Saves!Kill, Records!Saves!Kill,
      Saves!Clear, Records!Saves!Clear, Saves!Restore, Records!Saves!Restore, Saves!Delete,
      Records!Saves!Delete, Saves!Scopes, Records!Saves!Scopes, Saves!LegacySave,
      Records!Saves!LegacySave, Saves!LegacyRestore, Records!Saves!LegacyRestore,
      Saves!Stored, Records!Saves!Stored, Saves!Cut, Records!Saves!Cut, Saves!Payloads,
      Records!Saves!Payloads, Saves!Main, Records!Saves!Main, Saves!Snapshot,
      Records!Saves!Snapshot, Saves!Killed, Records!Saves!Killed, Saves!Tick,
      Records!Saves!Tick, Saves!Oldest, Records!Saves!Oldest, Saves!Readable,
      Records!Saves!Readable, Saves!Restored, Records!Saves!Restored, Saves!StmSaved,
      Records!Saves!StmSaved, Saves!IdxSaved, Records!Saves!IdxSaved, Saves!StmBack,
      Records!Saves!StmBack, Saves!IdxBack, Records!Saves!IdxBack, Saves!Min,
      Records!Saves!Min, Saves!Cardinality, Records!Saves!Cardinality

LEMMA SavesPart ==
    /\ Saves!Init => Records!SavesInv
    /\ Records!SavesInv /\ [Saves!Next]_Saves!vars => Records!SavesInv'
    /\ Records!SavesInv => Saves!TypeOK /\ Saves!SavedIsKept
  <1>1. Records!SavesParameters
    BY SavesAssumption, Zenon DEF Records!SavesParameters
  <1> QED BY <1>1, SavesSame, Records!SavesTypeInit, Records!SavesStep, Records!SavesHolds

LEMMA AdaptersSame ==
    /\ Adapters!Init <=> Records!Chat!Init
    /\ [Adapters!Next]_Adapters!vars <=> [Records!Chat!Next]_Records!Chat!vars
    /\ Adapters!TypeOK <=> Records!Chat!TypeOK
    /\ Adapters!ResultsKeepTheirCalls <=> Records!Chat!ResultsKeepTheirCalls
    /\ Adapters!TokensCharged <=> Records!Chat!TokensCharged
    /\ Adapters!RawCall = Records!Chat!RawCall
  <1>1. /\ Adapters!RawCall = Records!Chat!RawCall
        /\ Adapters!NoId = Records!Chat!NoId
        /\ Adapters!Ids = Records!Chat!Ids
        /\ Adapters!Reports = Records!Chat!Reports
        /\ Adapters!Tokens = Records!Chat!Tokens
        /\ Adapters!Images = Records!Chat!Images
        /\ Adapters!User = Records!Chat!User
        /\ Adapters!Calls = Records!Chat!Calls
        /\ Adapters!Messages = Records!Chat!Messages
        /\ Adapters!Unknown = Records!Chat!Unknown
        /\ \A a, n : Adapters!Given(a, n) = Records!Chat!Given(a, n)
        /\ \A s, n : Adapters!Other(s, n) = Records!Chat!Other(s, n)
        /\ \A f : Adapters!Range(f) = Records!Chat!Range(f)
        /\ \A f : Adapters!Last(f) = Records!Chat!Last(f)
        /\ \A S : Adapters!Max(S) = Records!Chat!Max(S)
    BY Zenon DEF
      Adapters!RawCall, Records!Chat!RawCall, Adapters!Given, Records!Chat!Given,
      Adapters!Other, Records!Chat!Other, Adapters!NoId, Records!Chat!NoId, Adapters!Ids,
      Records!Chat!Ids, Adapters!Reports, Records!Chat!Reports, Adapters!Tokens,
      Records!Chat!Tokens, Adapters!Images, Records!Chat!Images, Adapters!User,
      Records!Chat!User, Adapters!Calls, Records!Chat!Calls, Adapters!Messages,
      Records!Chat!Messages, Adapters!Unknown, Records!Chat!Unknown, Adapters!Range,
      Records!Chat!Range, Adapters!Last, Records!Chat!Last, Adapters!Max, Records!Chat!Max
  <1>2. /\ \A S, R : Adapters!InOrder(S, R) = Records!Chat!InOrder(S, R)
        /\ \A s, P : Adapters!Taken(s, P) = Records!Chat!Taken(s, P)
        /\ \A S : Adapters!Cardinality(S) = Records!Chat!Cardinality(S)
    BY Zenon DEF
      Adapters!InOrder, Records!Chat!InOrder, Adapters!Cardinality,
      Records!Chat!Cardinality, Adapters!IsFiniteSet, Records!Chat!IsFiniteSet,
      Adapters!Taken, Records!Chat!Taken, Adapters!Places, Records!Chat!Places
  <1>3. /\ \A c : Adapters!Assistant(c) = Records!Chat!Assistant(c)
        /\ \A i, n : Adapters!Tool(i, n) = Records!Chat!Tool(i, n)
        /\ \A a, b : Adapters!ReadArgs(a, b) = Records!Chat!ReadArgs(a, b)
        /\ \A a, b, n, c : Adapters!ReadCall(a, b, n, c) = Records!Chat!ReadCall(a, b, n, c)
        /\ \A c, i : Adapters!WriteCall(c, i) = Records!Chat!WriteCall(c, i)
        /\ \A c : Adapters!Named(c) = Records!Chat!Named(c)
        /\ Adapters!LastRole = Records!Chat!LastRole
        /\ \A a, m : Adapters!Writable(a, m) <=> Records!Chat!Writable(a, m)
    BY <1>1, <1>2, Zenon DEF
      Adapters!Assistant, Records!Chat!Assistant, Adapters!Tool, Records!Chat!Tool,
      Adapters!ReadArgs, Records!Chat!ReadArgs, Adapters!ReadCall, Records!Chat!ReadCall,
      Adapters!WriteCall, Records!Chat!WriteCall, Adapters!Named, Records!Chat!Named,
      Adapters!LastRole, Records!Chat!LastRole, Adapters!Writable, Records!Chat!Writable
  <1>4. /\ \A a, r : Adapters!AnthropicReads(a, r) = Records!Chat!AnthropicReads(a, r)
        /\ \A a, r : Adapters!OpenAIReads(a, r) = Records!Chat!OpenAIReads(a, r)
        /\ \A a, r : Adapters!OpenRouterReads(a, r) = Records!Chat!OpenRouterReads(a, r)
        /\ \A a, r : Adapters!HuaweiReads(a, r) = Records!Chat!HuaweiReads(a, r)
    BY <1>2, <1>3, Zenon DEF
      Adapters!AnthropicReads, Records!Chat!AnthropicReads, Adapters!OpenAIReads,
      Records!Chat!OpenAIReads, Adapters!OpenRouterReads, Records!Chat!OpenRouterReads,
      Adapters!HuaweiReads, Records!Chat!HuaweiReads
  <1>5. \A b, a, r : Adapters!Reads(b, a, r) = Records!Chat!Reads(b, a, r)
    BY <1>4, Zenon DEF
      Adapters!Reads, Records!Chat!Reads
  <1>6. /\ \A r : Adapters!AnthropicUsage(r) = Records!Chat!AnthropicUsage(r)
        /\ \A r : Adapters!OpenAIUsage(r) = Records!Chat!OpenAIUsage(r)
        /\ \A r : Adapters!OpenRouterUsage(r) = Records!Chat!OpenRouterUsage(r)
        /\ \A u : Adapters!ChargedByParts(u) = Records!Chat!ChargedByParts(u)
        /\ \A u : Adapters!ChargedByTotal(u) = Records!Chat!ChargedByTotal(u)
        /\ \A u : Adapters!Recorded(u) = Records!Chat!Recorded(u)
        /\ \A r : Adapters!Summary(r) = Records!Chat!Summary(r)
    BY <1>1, Zenon DEF
      Adapters!AnthropicUsage, Records!Chat!AnthropicUsage, Adapters!OpenAIUsage,
      Records!Chat!OpenAIUsage, Adapters!OpenRouterUsage, Records!Chat!OpenRouterUsage,
      Adapters!ChargedByParts, Records!Chat!ChargedByParts, Adapters!ChargedByTotal,
      Records!Chat!ChargedByTotal, Adapters!Recorded, Records!Chat!Recorded,
      Adapters!Summary, Records!Chat!Summary
  <1>7. \A a, r : Adapters!UsageOf(a, r) = Records!Chat!UsageOf(a, r)
    BY <1>6, Zenon DEF
      Adapters!UsageOf, Records!Chat!UsageOf
  <1>8. /\ \A c : Adapters!AnthropicCalls(c) = Records!Chat!AnthropicCalls(c)
        /\ \A c : Adapters!OpenAICalls(c) = Records!Chat!OpenAICalls(c)
        /\ \A c : Adapters!OpenRouterCalls(c) = Records!Chat!OpenRouterCalls(c)
        /\ \A c : Adapters!HuaweiCalls(c) = Records!Chat!HuaweiCalls(c)
    BY <1>1, <1>3, Zenon DEF
      Adapters!AnthropicCalls, Records!Chat!AnthropicCalls, Adapters!OpenAICalls,
      Records!Chat!OpenAICalls, Adapters!OpenRouterCalls, Records!Chat!OpenRouterCalls,
      Adapters!HuaweiCalls, Records!Chat!HuaweiCalls
  <1>9. /\ \A m : Adapters!AnthropicWrites(m) = Records!Chat!AnthropicWrites(m)
        /\ \A m : Adapters!OpenAIWrites(m) = Records!Chat!OpenAIWrites(m)
        /\ \A m : Adapters!OpenRouterWrites(m) = Records!Chat!OpenRouterWrites(m)
        /\ \A m : Adapters!HuaweiWrites(m) = Records!Chat!HuaweiWrites(m)
    BY <1>1, <1>8, Zenon DEF
      Adapters!AnthropicWrites, Records!Chat!AnthropicWrites, Adapters!OpenAIWrites,
      Records!Chat!OpenAIWrites, Adapters!OpenRouterWrites, Records!Chat!OpenRouterWrites,
      Adapters!HuaweiWrites, Records!Chat!HuaweiWrites
  <1>10. \A a, m : Adapters!Writes(a, m) = Records!Chat!Writes(a, m)
    BY <1>9, Zenon DEF
      Adapters!Writes, Records!Chat!Writes
  <1>11. /\ Adapters!UserSays <=> Records!Chat!UserSays
         /\ Adapters!Generate <=> Records!Chat!Generate
         /\ Adapters!ToolResult <=> Records!Chat!ToolResult
         /\ Adapters!Interrupted <=> Records!Chat!Interrupted
         /\ Adapters!Resume <=> Records!Chat!Resume
    BY <1>1, <1>3, <1>5, <1>6, <1>7, <1>10, Zenon DEF
      Adapters!UserSays, Records!Chat!UserSays, Adapters!Generate, Records!Chat!Generate,
      Adapters!ToolResult, Records!Chat!ToolResult, Adapters!Interrupted,
      Records!Chat!Interrupted, Adapters!Resume, Records!Chat!Resume
  <1>12. /\ Adapters!Init <=> Records!Chat!Init
         /\ [Adapters!Next]_Adapters!vars <=> [Records!Chat!Next]_Records!Chat!vars
    BY <1>1, <1>11, Zenon DEF
      Adapters!Init, Records!Chat!Init, Adapters!Next, Records!Chat!Next, Adapters!vars,
      Records!Chat!vars
  <1>13. \A m, i, j : Adapters!Together(m, i, j) <=> Records!Chat!Together(m, i, j)
    BY Zenon DEF
      Adapters!Together, Records!Chat!Together
  <1>14. \A m, j : Adapters!CallsFor(m, j) = Records!Chat!CallsFor(m, j)
    BY <1>13, Zenon DEF
      Adapters!CallsFor, Records!Chat!CallsFor, Adapters!Together, Records!Chat!Together
  <1>15. /\ Adapters!TypeOK <=> Records!Chat!TypeOK
         /\ Adapters!ResultsKeepTheirCalls <=> Records!Chat!ResultsKeepTheirCalls
         /\ Adapters!TokensCharged <=> Records!Chat!TokensCharged
    BY <1>1, <1>2, <1>6, <1>14, Zenon DEF
      Adapters!TypeOK, Records!Chat!TypeOK, Adapters!ResultsKeepTheirCalls,
      Records!Chat!ResultsKeepTheirCalls, Adapters!TokensCharged, Records!Chat!TokensCharged
  <1> QED BY <1>1, <1>12, <1>15

LEMMA AdaptersPart ==
    /\ Adapters!Init => Records!ChatInv
    /\ Records!ChatInv /\ [Adapters!Next]_Adapters!vars => Records!ChatInv'
    /\ Records!ChatInv => /\ Adapters!TypeOK /\ Adapters!ResultsKeepTheirCalls
                          /\ Adapters!TokensCharged
  <1>1. Records!ChatParameters
    BY AdaptersAssumption, AdaptersSame, Zenon DEF Records!ChatParameters
  <1> QED BY <1>1, AdaptersSame, Records!ChatInit, Records!ChatStep, Records!ChatHolds

LEMMA KnowledgeSame ==
    /\ Knowledge!Init <=> Records!Knowledge!Init
    /\ [Knowledge!Next]_Knowledge!vars <=> [Records!Knowledge!Next]_Records!Knowledge!vars
    /\ Knowledge!TypeOK <=> Records!Knowledge!TypeOK
    /\ Knowledge!AnswersBest <=> Records!Knowledge!AnswersBest
    /\ Knowledge!ReadBack <=> Records!Knowledge!ReadBack
    /\ Knowledge!Raw = Records!Knowledge!Raw /\ Knowledge!Vector = Records!Knowledge!Vector
    /\ Knowledge!NoText = Records!Knowledge!NoText /\ Knowledge!Blank = Records!Knowledge!Blank
  <1>1. /\ Knowledge!Raw = Records!Knowledge!Raw
        /\ Knowledge!Vector = Records!Knowledge!Vector
        /\ Knowledge!Durable = Records!Knowledge!Durable
        /\ Knowledge!NoText = Records!Knowledge!NoText
        /\ Knowledge!Blank = Records!Knowledge!Blank
        /\ Knowledge!Forms = Records!Knowledge!Forms
        /\ Knowledge!Least = Records!Knowledge!Least
        /\ \A t, f : Knowledge!AsMessage(t, f) = Records!Knowledge!AsMessage(t, f)
        /\ \A m : Knowledge!Content(m) = Records!Knowledge!Content(m)
        /\ \A k, m : Knowledge!Fields(k, m) = Records!Knowledge!Fields(k, m)
        /\ \A s, k : Knowledge!Prefix(s, k) = Records!Knowledge!Prefix(s, k)
        /\ \A s, n : Knowledge!RemoveAt(s, n) = Records!Knowledge!RemoveAt(s, n)
        /\ \A f : Knowledge!Range(f) = Records!Knowledge!Range(f)
    BY Zenon DEF
      Knowledge!Raw, Records!Knowledge!Raw, Knowledge!Vector, Records!Knowledge!Vector,
      Knowledge!Durable, Records!Knowledge!Durable, Knowledge!NoText,
      Records!Knowledge!NoText, Knowledge!Blank, Records!Knowledge!Blank, Knowledge!Forms,
      Records!Knowledge!Forms, Knowledge!Least, Records!Knowledge!Least,
      Knowledge!AsMessage, Records!Knowledge!AsMessage, Knowledge!Content,
      Records!Knowledge!Content, Knowledge!Fields, Records!Knowledge!Fields,
      Knowledge!Prefix, Records!Knowledge!Prefix, Knowledge!RemoveAt,
      Records!Knowledge!RemoveAt, Knowledge!Range, Records!Knowledge!Range
  <1>2. /\ \A S, R : Knowledge!InOrder(S, R) = Records!Knowledge!InOrder(S, R)
        /\ \A s, P : Knowledge!Taken(s, P) = Records!Knowledge!Taken(s, P)
    BY Zenon DEF
      Knowledge!InOrder, Records!Knowledge!InOrder, Knowledge!Cardinality,
      Records!Knowledge!Cardinality, Knowledge!IsFiniteSet, Records!Knowledge!IsFiniteSet,
      Knowledge!Taken, Records!Knowledge!Taken, Knowledge!Places, Records!Knowledge!Places
  <1>3. /\ \A q, r : Knowledge!Score(q, r) = Records!Knowledge!Score(q, r)
        /\ \A q, i, j : Knowledge!Better(q, i, j) <=> Records!Knowledge!Better(q, i, j)
        /\ \A q, r : Knowledge!Matches(q, r) <=> Records!Knowledge!Matches(q, r)
        /\ \A k, l : Knowledge!Pool(k, l) = Records!Knowledge!Pool(k, l)
        /\ Knowledge!Comparable <=> Records!Knowledge!Comparable
        /\ \A r : Knowledge!Shown(r) = Records!Knowledge!Shown(r)
        /\ \A r : Knowledge!Restored(r) = Records!Knowledge!Restored(r)
    BY <1>1, Zenon DEF
      Knowledge!Score, Records!Knowledge!Score, Knowledge!Better, Records!Knowledge!Better,
      Knowledge!Matches, Records!Knowledge!Matches, Knowledge!Inside,
      Records!Knowledge!Inside, Knowledge!HasAt, Records!Knowledge!HasAt, Knowledge!Like,
      Records!Knowledge!Like, Knowledge!Fold, Records!Knowledge!Fold, Knowledge!Exactly,
      Records!Knowledge!Exactly, Knowledge!Pool, Records!Knowledge!Pool,
      Knowledge!Comparable, Records!Knowledge!Comparable, Knowledge!Shown,
      Records!Knowledge!Shown, Knowledge!Restored, Records!Knowledge!Restored,
      Knowledge!AsMessage, Records!Knowledge!AsMessage
  <1>4. /\ \A q, a : Knowledge!Ranked(q, a) = Records!Knowledge!Ranked(q, a)
        /\ \A s, q, l : Knowledge!Above(s, q, l) = Records!Knowledge!Above(s, q, l)
    BY <1>2, <1>3, Zenon DEF
      Knowledge!Ranked, Records!Knowledge!Ranked, Knowledge!Above, Records!Knowledge!Above
  <1>5. /\ \A q, k : Knowledge!RawAnswer(q, k) = Records!Knowledge!RawAnswer(q, k)
        /\ \A q, k, l : Knowledge!ScanAnswer(q, k, l) = Records!Knowledge!ScanAnswer(q, k, l)
        /\ \A q, k, l : Knowledge!ChromaAnswer(q, k, l) = Records!Knowledge!ChromaAnswer(q, k, l)
    BY <1>1, <1>2, <1>3, <1>4, Zenon DEF
      Knowledge!RawAnswer, Records!Knowledge!RawAnswer, Knowledge!ScanAnswer,
      Records!Knowledge!ScanAnswer, Knowledge!ChromaAnswer, Records!Knowledge!ChromaAnswer
  <1>6. /\ \A q, k, l : Knowledge!Answer(q, k, l) = Records!Knowledge!Answer(q, k, l)
        /\ Knowledge!Fails <=> Records!Knowledge!Fails
    BY <1>1, <1>3, <1>5, Zenon DEF
      Knowledge!Answer, Records!Knowledge!Answer, Knowledge!Fails, Records!Knowledge!Fails
  <1>7. /\ \A q, k : Knowledge!KnowledgeGet(q, k) = Records!Knowledge!KnowledgeGet(q, k)
        /\ \A q, l, r : Knowledge!Fits(q, l, r) <=> Records!Knowledge!Fits(q, l, r)
        /\ \A q, a : Knowledge!BestFirst(q, a) <=> Records!Knowledge!BestFirst(q, a)
    BY <1>1, <1>3, <1>6, Zenon DEF
      Knowledge!KnowledgeGet, Records!Knowledge!KnowledgeGet, Knowledge!Fits,
      Records!Knowledge!Fits, Knowledge!BestFirst, Records!Knowledge!BestFirst,
      Knowledge!Inside, Records!Knowledge!Inside, Knowledge!HasAt, Records!Knowledge!HasAt,
      Knowledge!Exactly, Records!Knowledge!Exactly
  <1>8. /\ \A m : Knowledge!Row(m) = Records!Knowledge!Row(m)
        /\ \A r : Knowledge!Accepts(r) <=> Records!Knowledge!Accepts(r)
    BY <1>1, Zenon DEF
      Knowledge!Row, Records!Knowledge!Row, Knowledge!Accepts, Records!Knowledge!Accepts
  <1>9. /\ Knowledge!AddKnowledge <=> Records!Knowledge!AddKnowledge
        /\ Knowledge!Persist <=> Records!Knowledge!Persist
        /\ Knowledge!RemoveOne <=> Records!Knowledge!RemoveOne
        /\ Knowledge!Clear <=> Records!Knowledge!Clear
        /\ Knowledge!Restart <=> Records!Knowledge!Restart
    BY <1>1, <1>8, Zenon DEF
      Knowledge!AddKnowledge, Records!Knowledge!AddKnowledge, Knowledge!Persist,
      Records!Knowledge!Persist, Knowledge!RemoveOne, Records!Knowledge!RemoveOne,
      Knowledge!Clear, Records!Knowledge!Clear, Knowledge!Restart,
      Records!Knowledge!Restart, Knowledge!Write, Records!Knowledge!Write
  <1>10. /\ Knowledge!Init <=> Records!Knowledge!Init
         /\ [Knowledge!Next]_Knowledge!vars <=> [Records!Knowledge!Next]_Records!Knowledge!vars
    BY <1>1, <1>9, Zenon DEF
      Knowledge!Init, Records!Knowledge!Init, Knowledge!Next, Records!Knowledge!Next,
      Knowledge!vars, Records!Knowledge!vars
  <1>11. /\ Knowledge!TypeOK <=> Records!Knowledge!TypeOK
         /\ Knowledge!ReadBack <=> Records!Knowledge!ReadBack
    BY <1>1, <1>3, Zenon DEF
      Knowledge!TypeOK, Records!Knowledge!TypeOK, Knowledge!ReadBack,
      Records!Knowledge!ReadBack
  <1>12. Knowledge!AnswersBest <=> Records!Knowledge!AnswersBest
    BY <1>1, <1>3, <1>6, <1>7, ZenonT(60) DEF
      Knowledge!AnswersBest, Records!Knowledge!AnswersBest
  <1> QED BY <1>1, <1>10, <1>11, <1>12

LEMMA KnowledgePart ==
    /\ Knowledge!Init => Records!KnowledgeInv
    /\ Records!KnowledgeInv /\ [Knowledge!Next]_Knowledge!vars => Records!KnowledgeInv'
    /\ Records!KnowledgeInv => /\ Knowledge!TypeOK /\ Knowledge!AnswersBest
                               /\ Knowledge!ReadBack
  <1>1. Records!KnowledgeParameters
    BY KnowledgeAssumption, KnowledgeSame, Zenon DEF Records!KnowledgeParameters
  <1> QED BY <1>1, KnowledgeSame, Records!KnowledgeInit, Records!KnowledgeStep,
             Records!KnowledgeHolds

LEMMA LibrarySame ==
    /\ Library!Init <=> Records!Library!Init
    /\ [Library!Next]_Library!vars <=> [Records!Library!Next]_Records!Library!vars
    /\ Library!TypeOK <=> Records!Library!TypeOK
    /\ Library!NamedIsServed <=> Records!Library!NamedIsServed
    /\ \A S : Library!IsFiniteSet(S) <=> Records!IsFiniteSet(S)
  <1>1. /\ Library!Ids = Records!Library!Ids
        /\ Library!Roots = Records!Library!Roots
        /\ \A f : Library!Range(f) = Records!Library!Range(f)
    BY Zenon DEF
      Library!Ids, Records!Library!Ids, Library!Roots, Records!Library!Roots, Library!Range,
      Records!Library!Range
  <1>2. /\ \A S, R : Library!InOrder(S, R) = Records!Library!InOrder(S, R)
        /\ \A s, P : Library!Taken(s, P) = Records!Library!Taken(s, P)
        /\ \A S : Library!Orders(S) = Records!Library!Orders(S)
        /\ \A S : Library!Cardinality(S) = Records!Library!Cardinality(S)
        /\ \A S : Library!IsFiniteSet(S) <=> Records!IsFiniteSet(S)
    BY Zenon DEF
      Library!InOrder, Records!Library!InOrder, Library!Cardinality,
      Records!Library!Cardinality, Library!IsFiniteSet, Records!Library!IsFiniteSet,
      Library!Taken, Records!Library!Taken, Library!Places, Records!Library!Places,
      Library!Orders, Records!Library!Orders, Records!IsFiniteSet
  <1>3. /\ \A r : Library!Loaded(r) = Records!Library!Loaded(r)
        /\ \A s : Library!FirstOfId(s) = Records!Library!FirstOfId(s)
        /\ \A s : Library!Store(s) = Records!Library!Store(s)
        /\ \A d : Library!Mounted(d) = Records!Library!Mounted(d)
        /\ \A q : Library!Selected(q) = Records!Library!Selected(q)
    BY <1>1, <1>2, Zenon DEF
      Library!Loaded, Records!Library!Loaded, Library!FirstOfId, Records!Library!FirstOfId,
      Library!Store, Records!Library!Store, Library!Mounted, Records!Library!Mounted,
      Library!Selected, Records!Library!Selected
  <1>4. \A q : Library!Resolved(q) = Records!Library!Resolved(q)
    BY <1>1, <1>3, Zenon DEF
      Library!Resolved, Records!Library!Resolved
  <1>5. /\ Library!Edit <=> Records!Library!Edit
        /\ Library!Build <=> Records!Library!Build
        /\ Library!Reload <=> Records!Library!Reload
        /\ Library!CallTool <=> Records!Library!CallTool
        /\ Library!CallModel <=> Records!Library!CallModel
    BY <1>1, <1>3, <1>4, Zenon DEF
      Library!Edit, Records!Library!Edit, Library!Build, Records!Library!Build,
      Library!Reload, Records!Library!Reload, Library!CallTool, Records!Library!CallTool,
      Library!CallModel, Records!Library!CallModel
  <1>6. /\ Library!Init <=> Records!Library!Init
        /\ [Library!Next]_Library!vars <=> [Records!Library!Next]_Records!Library!vars
    BY <1>1, <1>5, Zenon DEF
      Library!Init, Records!Library!Init, Library!Next, Records!Library!Next, Library!vars,
      Records!Library!vars
  <1>7. /\ Library!TypeOK <=> Records!Library!TypeOK
        /\ Library!NamedIsServed <=> Records!Library!NamedIsServed
    BY <1>1, <1>2, <1>4, Zenon DEF
      Library!TypeOK, Records!Library!TypeOK, Library!NamedIsServed,
      Records!Library!NamedIsServed
  <1> QED BY <1>2, <1>6, <1>7

LEMMA LibraryPart ==
    /\ Library!Init => Records!LibraryInv
    /\ Records!LibraryInv /\ [Library!Next]_Library!vars => Records!LibraryInv'
    /\ Records!LibraryInv => Library!TypeOK /\ Library!NamedIsServed
  <1>1. Records!LibraryParameters
    BY LibraryAssumption, LibrarySame, Zenon DEF Records!LibraryParameters
  <1> QED BY <1>1, LibrarySame, Records!LibraryInit, Records!LibraryStep, Records!LibraryHolds

LEMMA TracesSame ==
    /\ Traces!Init <=> Records!Traces!Init
    /\ [Traces!Next]_Traces!vars <=> [Records!Traces!Next]_Records!Traces!vars
    /\ Traces!TypeOK <=> Records!Traces!TypeOK
    /\ Traces!OwnAttribution <=> Records!Traces!OwnAttribution
  <1>1. /\ Traces!Init <=> Records!Traces!Init
        /\ [Traces!Next]_Traces!vars <=> [Records!Traces!Next]_Records!Traces!vars
        /\ Traces!TypeOK <=> Records!Traces!TypeOK
    BY Zenon DEF
      Traces!Init, Records!Traces!Init, Traces!Next, Records!Traces!Next, Traces!vars,
      Records!Traces!vars, Traces!TypeOK, Records!Traces!TypeOK, Traces!NoHook,
      Records!Traces!NoHook, Traces!RunBegins, Records!Traces!RunBegins,
      Traces!SessionBegins, Records!Traces!SessionBegins, Traces!MilestoneBegins,
      Records!Traces!MilestoneBegins, Traces!PlanBegins, Records!Traces!PlanBegins,
      Traces!ExecuteBegins, Records!Traces!ExecuteBegins, Traces!ToolBegins,
      Records!Traces!ToolBegins, Traces!VerifyBegins, Records!Traces!VerifyBegins,
      Traces!RunEnds, Records!Traces!RunEnds, Traces!SessionEnds,
      Records!Traces!SessionEnds, Traces!MilestoneEnds, Records!Traces!MilestoneEnds,
      Traces!PlanEnds, Records!Traces!PlanEnds, Traces!ExecuteEnds,
      Records!Traces!ExecuteEnds, Traces!ToolEnds, Records!Traces!ToolEnds,
      Traces!VerifyEnds, Records!Traces!VerifyEnds, Traces!ModelBegins,
      Records!Traces!ModelBegins, Traces!ModelEnds, Records!Traces!ModelEnds,
      Traces!ModelRefused, Records!Traces!ModelRefused, Traces!VerifyRefused,
      Records!Traces!VerifyRefused, Traces!Unwinds, Records!Traces!Unwinds, Traces!Phases,
      Records!Traces!Phases, Traces!Room, Records!Traces!Room, Traces!Reset,
      Records!Traces!Reset, Traces!Put, Records!Traces!Put, Traces!Begins,
      Records!Traces!Begins, Traces!Closes, Records!Traces!Closes, Traces!Top,
      Records!Traces!Top, Traces!CountModel, Records!Traces!CountModel, Traces!StartSpan,
      Records!Traces!StartSpan, Traces!Asks, Records!Traces!Asks, Traces!Pending,
      Records!Traces!Pending, Traces!EndSpan, Records!Traces!EndSpan, Traces!Answers,
      Records!Traces!Answers, Traces!Inner, Records!Traces!Inner, Traces!KeyOf,
      Records!Traces!KeyOf, Traces!Task, Records!Traces!Task, Traces!Detach,
      Records!Traces!Detach, Traces!Front, Records!Traces!Front, Traces!Last,
      Records!Traces!Last, Traces!Cardinality, Records!Traces!Cardinality
  <1>2. Traces!OwnAttribution <=> Records!Traces!OwnAttribution
    BY Zenon DEF
      Traces!OwnAttribution, Records!Traces!OwnAttribution, Traces!TraceOfEvents,
      Records!Traces!TraceOfEvents, Traces!Front, Records!Traces!Front, Traces!Last,
      Records!Traces!Last, Traces!Cardinality, Records!Traces!Cardinality
  <1> QED BY <1>1, <1>2

LEMMA TracesPart ==
    /\ Traces!Init => Records!TracesInv
    /\ Records!TracesInv /\ [Traces!Next]_Traces!vars => Records!TracesInv'
    /\ Records!TracesInv => Traces!TypeOK /\ Traces!OwnAttribution
  <1>1. Records!TracesParameters
    BY TracesAssumption DEF Records!TracesParameters
  <1> QED BY <1>1, TracesSame, Records!TracesInit, Records!TracesStep, Records!TracesHolds

-----------------------------------------------------------------------------
(* The components together.                                                *)

\* A step of the sum is one of the component that runs, or leaves it as it is.
LEMMA PartSteps ==
    ASSUME [Next]_vars
    PROVE  /\ part' = part
           /\ part = "client" => [Client!Next]_Client!vars
           /\ part = "guard" => [Guard!Next]_Guard!vars
           /\ part = "log" => [Log!Next]_Log!vars
           /\ part = "control" => [Control!Next]_Control!vars
           /\ part = "checkpoints" => [Saves!Next]_Saves!vars
           /\ part = "cli" => [Cli!Next]_Cli!vars
           /\ part = "traces" => [Traces!Next]_Traces!vars
           /\ part = "console" => [Terminal!Next]_Terminal!vars
           /\ part = "a2a" => [Server!Next]_Server!vars
           /\ part = "planner" => [Planner!Next]_Planner!vars
           /\ part = "steps" => [Steps!Next]_Steps!vars
           /\ part = "registry" => [Registry!Next]_Registry!vars
           /\ part = "bus" => [Bus!Next]_Bus!vars
           /\ part = "tools" => [Tools!Next]_Tools!vars
           /\ part = "config" => [Config!Next]_Config!vars
           /\ part = "builder" => [Builder!Next]_Builder!vars
           /\ part = "knowledge" => [Knowledge!Next]_Knowledge!vars
           /\ part = "skills" => [Library!Next]_Library!vars
           /\ part = "adapters" => [Adapters!Next]_Adapters!vars
           /\ part = "loop" => [Loop!Next]_Loop!vars
           /\ part = "approvals" => [Approvals!Next]_Approvals!vars
  <1>1. CASE Next
    BY <1>1 DEF Next
  <1>2. CASE UNCHANGED vars
    BY <1>2 DEF vars, Client!vars, Guard!vars, Log!vars, Control!vars, Saves!vars, Cli!vars,
       Traces!vars, Terminal!vars, Server!vars, Planner!vars, Steps!vars,
       Registry!vars, Bus!vars, Tools!vars, Config!vars, Builder!vars,
       Knowledge!vars, Library!vars, Adapters!vars, Loop!vars, Approvals!vars
  <1> QED BY <1>1, <1>2

LEMMA PartStarts ==
    ASSUME Init
    PROVE  /\ part = "client" => Client!Init
           /\ part = "guard" => Guard!Init
           /\ part = "log" => Log!Init
           /\ part = "control" => Control!Init
           /\ part = "checkpoints" => Saves!Init
           /\ part = "cli" => Cli!Init
           /\ part = "traces" => Traces!Init
           /\ part = "console" => Terminal!Init
           /\ part = "a2a" => Server!Init
           /\ part = "planner" => Planner!Init
           /\ part = "steps" => Steps!Init
           /\ part = "registry" => Registry!Init
           /\ part = "bus" => Bus!Init
           /\ part = "tools" => Tools!Init
           /\ part = "config" => Config!Init
           /\ part = "builder" => Builder!Init
           /\ part = "knowledge" => Knowledge!Init
           /\ part = "skills" => Library!Init
           /\ part = "adapters" => Adapters!Init
           /\ part = "loop" => Loop!Init
           /\ part = "approvals" => Approvals!Init
  BY SMTT(40) DEF Init

\* The inductive invariant of the sum.
PartsInv ==
    /\ part = "registry" => Gates!RegistryInv
    /\ part = "client" => Talks!ClientInv
    /\ part = "guard" => Gates!GuardInv
    /\ part = "tools" => Records!ToolsInv
    /\ part = "log" => Records!LogInv
    /\ part = "control" => Records!ControlInv
    /\ part = "checkpoints" => Records!SavesInv
    /\ part = "cli" => Talks!CliInv
    /\ part = "console" => Talks!TerminalInv
    /\ part = "a2a" => Talks!ServerInv
    /\ part = "planner" => Gates!PlannerInv
    /\ part = "steps" => Gates!WorkInv
    /\ part = "adapters" => Records!ChatInv
    /\ part = "config" => Talks!ConfigInv
    /\ part = "builder" => Talks!BuilderInv
    /\ part = "knowledge" => Records!KnowledgeInv
    /\ part = "skills" => Records!LibraryInv
    /\ part = "bus" => Gates!BusInv
    /\ part = "traces" => Records!TracesInv
    /\ part = "loop" => Talks!ReactInv
    /\ part = "approvals" => Talks!WaitInv

LEMMA PartsStart == Init => PartsInv
  BY PartStarts, RegistryPart, ClientPart, GuardPart, ToolsPart, LogPart, ControlPart, SavesPart,
     CliPart, TerminalPart, ServerPart, PlannerPart, StepsPart, AdaptersPart,
     ConfigPart, BuilderPart, KnowledgePart, LibraryPart, BusPart, TracesPart,
     LoopPart, ApprovalsPart
     DEF PartsInv

LEMMA PartsStep == PartsInv /\ [Next]_vars => PartsInv'
  BY PartSteps, RegistryPart, ClientPart, GuardPart, ToolsPart, LogPart, ControlPart, SavesPart,
     CliPart, TerminalPart, ServerPart, PlannerPart, StepsPart, AdaptersPart,
     ConfigPart, BuilderPart, KnowledgePart, LibraryPart, BusPart, TracesPart,
     LoopPart, ApprovalsPart
     DEF PartsInv

\* The state of every component is of its type, for every value of its parameters.
THEOREM TypesStay == Spec => []TypeOK
  <1>1. PartsInv => TypeOK
    BY RegistryPart, ClientPart, GuardPart, ToolsPart, LogPart, ControlPart, SavesPart,
       CliPart, TerminalPart, ServerPart, PlannerPart, StepsPart, AdaptersPart,
       ConfigPart, BuilderPart, KnowledgePart, LibraryPart, BusPart, TracesPart,
       LoopPart, ApprovalsPart
       DEF PartsInv, TypeOK
  <1> QED BY <1>1, PartsStart, PartsStep, PTL DEF Spec

\* Snapshots hold one conversation and the exit code says what happened, in every
\* front, with any sessions and any number of tasks (client/session_store, client/main).
THEOREM SessionsTrue == Spec => []SessionTrue
  <1>1. PartsInv => SessionTrue
    BY CliPart DEF PartsInv, SessionTrue
  <1> QED BY <1>1, PartsStart, PartsStep, PTL DEF Spec

\* What was recorded stays recorded, with any number of processes, events, workers,
\* checkpoints and spans (event_log, execution_control, checkpoint, observability).
THEOREM RecordsStay == Spec => []RecordsKept
  <1>1. PartsInv => RecordsKept
    BY LogPart, SavesPart, ControlPart, TracesPart DEF PartsInv, RecordsKept
  <1> QED BY <1>1, PartsStart, PartsStep, PTL DEF Spec

\* A tool runs only when everything that guards it has cleared this attempt and its spans
\* are closed, and the event bus calls interceptors before observers, for any
\* configuration, hooks, registrations and emissions (tool_executor, events).
THEOREM CallsStayCleared == Spec => []CallsCleared
  <1>1. PartsInv => CallsCleared
    BY GuardPart, BusPart DEF PartsInv, CallsCleared
  <1> QED BY <1>1, PartsStart, PartsStep, PTL DEF Spec

\* An edit changes the line it was asked to and its inverse takes that back, a path in
\* an answer leads back to its file, no file is torn, and an answered command is over, for
\* any files, texts and roots (read_file, write_file, edit_line, search_file, run_command).
THEOREM FilesStayExact == Spec => []FilesExact
  <1>1. PartsInv => FilesExact
    BY ToolsPart DEF PartsInv, FilesExact
  <1> QED BY <1>1, PartsStart, PartsStep, PTL DEF Spec

\* The agent that runs is the one its flags, files and program ask for, for any files,
\* flags, MCP directories, configurations, tools and hooks, and any number of reloads and
\* builds (client/runtime/bootstrap, config/file_config_provider, agent/builder).
THEOREM AgentsAreAsAsked == Spec => []AsAsked
  <1>1. PartsInv => AsAsked
    BY ConfigPart, BuilderPart DEF PartsInv, AsAsked
  <1> QED BY <1>1, PartsStart, PartsStep, PTL DEF Spec

\* A named call that had an id goes to the models with its own result, and an answer is
\* charged and reported, for any of the adapters, any answers of up to two calls, and
\* conversations of any length (model/adapters, _record_token_usage).
THEOREM ConversationsAreWhole == Spec => []ConversationWhole
  <1>1. PartsInv => ConversationWhole
    BY AdaptersPart DEF PartsInv, ConversationWhole
  <1> QED BY <1>1, PartsStart, PartsStep, PTL DEF Spec

\* A query, or a skill asked for by name, gets the best match there is, and a memory what
\* was put into it, for any texts and similarities, any number of records, any of the
\* stores, and any directories of skills, edits and reloads (knowledge, memory,
\* skill/_internal).
THEOREM BestStaysFound == Spec => []BestFound
  <1>1. PartsInv => BestFound
    BY KnowledgePart, LibraryPart DEF PartsInv, BestFound
  <1> QED BY <1>1, PartsStart, PartsStep, PTL DEF Spec

\* In what a model is called with, results named by a call stand behind it, and calls of
\* this execution that are still there have their results behind them, through guidance,
\* compressions and summaries, what the compressor kept fits the window, and no other tool
\* runs before manage_context, for any sizes of messages, window, rounds, tasks and calls
\* (agent/react_agent.py, compression/moving_compression.py, context/manage_context.py).
THEOREM PairsStaySeen == Spec => []ModelSeesPairs
  <1>1. PartsInv => ModelSeesPairs
    BY LoopPart DEF PartsInv, ModelSeesPairs
  <1> QED BY <1>1, PartsStart, PartsStep, PTL DEF Spec

\* Whoever asks through the terminal or the A2A server gets one answer, his own, and
\* nothing of what he sent is lost, with any lines, questions, requests and files
\* (client_channel, ask_user, a2a).
THEOREM ChannelsStayHonest == Spec => []ChannelsHonest
  <1>1. PartsInv => ChannelsHonest
    BY TerminalPart, ServerPart DEF PartsInv, ChannelsHonest
  <1> QED BY <1>1, PartsStart, PartsStep, PTL DEF Spec

\* The planner's advice can be followed, and validated steps are judged by what the
\* registry has said of them since the validation, however it changes while they wait,
\* for any proposals, attempts and delegations (plan_v2, dare_agent, validators).
THEOREM PlansStayHeld == Spec => []PlansHeld
  <1>1. PartsInv => PlansHeld
    BY PlannerPart, StepsPart DEF PartsInv, PlansHeld
  <1> QED BY <1>1, PartsStart, PartsStep, PTL DEF Spec

\* The registry of tools agrees with itself and with the servers that are connected,
\* and a call of an MCP tool gets its own answer, with any names, providers, callers,
\* requests and notices (tool_manager, mcp manager, mcp client).
THEOREM McpStaysTrue == Spec => []McpTrue
  <1>1. PartsInv => McpTrue
    BY RegistryPart, ClientPart DEF PartsInv, McpTrue
  <1> QED BY <1>1, PartsStart, PartsStep, PTL DEF Spec

\* No step lets a reload report success with tools missing, or opens what a plan has
\* finished (mcp manager, plan_v2).
THEOREM StepsStayTrue == Spec => StepsTrue
  <1> DEFINE Step == /\ part = "registry" => Registry!SuccessIsTrue
                     /\ part = "planner" => Planner!FinishedStays
  <1>1. PartsInv /\ [Next]_vars => Step
    BY PartSteps, RegistryPart, PlannerPart DEF PartsInv
  <1>2. PartsInv /\ [Next]_vars => [Step]_vars
    BY <1>1
  <1> QED BY <1>2, PartsStart, PartsStep, PTL DEF Spec, StepsTrue
=============================================================================
