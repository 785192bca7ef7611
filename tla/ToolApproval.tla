---------------------------- MODULE ToolApproval ----------------------------
(***************************************************************************)
(* Tool approval: the ToolApprovalManager and the GovernedToolGateway that *)
(* asks it before every tool invocation that needs approval.               *)
(*                                                                         *)
(* A call is one GovernedToolGateway.invoke.  It evaluates the remembered  *)
(* rules; if none applies it joins the pending request of its fingerprint  *)
(* (capability and parameters), announces it, and waits for a human to     *)
(* grant or deny.  Every critical section of the manager runs under one    *)
(* asyncio lock and awaits nothing inside, so it is one action here; the   *)
(* awaits between them are where the actions of others interleave.         *)
(***************************************************************************)
EXTENDS Naturals, FiniteSets, SequencesExt

CONSTANTS
    Calls,          \* the governed invocations
    Invocation,     \* what each call invokes: capability, hash, command, session
    Requests,       \* ids of pending requests (uuid4 in the code: never reused)
    RuleIds,        \* ids of rules (uuid4)
    Sessions, NoSession,
    Pollers,        \* clients blocked in poll_pending
    SavedRules,     \* the approvals.json files found at the first start
    Options,        \* the scope, matcher, value and actor a human may pick
    NoCall, NoRequest, NoRule,
    MaxRestarts,    \* bound on process restarts
    MaxInterrupts   \* bound on cancelled calls

VARIABLES
    rules,          \* the four rule lists of the manager, by bucket
    files,          \* contents of the workspace and user approvals.json
    issued,         \* every rule ever made or loaded (history)
    asker,          \* the call whose evaluate() created a request, or NoCall
    sessions,       \* _PendingApproval.session_ids
    resolution,     \* _PendingApproval.resolution
    byId,           \* keys of _pending_by_id
    byFingerprint,  \* _pending_by_fingerprint
    resolved,       \* _resolved_by_id
    pc,             \* where each call is
    ticket,         \* the request it joined
    basis,          \* the rule a call was let through or refused by (logged)
    poll,           \* poll_pending callers
    dirty,          \* persisted scopes whose last save failed (history)
    restarts, interrupts

memory   == <<rules, byId, byFingerprint, resolved, sessions>>
record   == <<asker, resolution>>
callers  == <<pc, ticket, basis>>
vars == <<memory, record, callers, files, issued, poll, dirty, restarts, interrupts>>

Buckets   == {"once", "session", "workspace", "user"}
Persisted == {"workspace", "user"}
Verdicts  == {"allow", "deny"}
Matchers  == {"capability", "exact_params", "command_prefix"}

\* "announcing": between evaluate() and wait_for_resolution(), awaiting the
\* observer, the transport and the event log; "allowed": cleared, the delegate
\* not yet invoked.
Asking   == {"announcing", "waiting"}
InFlight == Asking \cup {"allowed"}
Phases   == InFlight \cup {"idle", "ran", "denied", "error", "cancelled", "lost"}

Fingerprint(c) == <<Invocation[c].capability, Invocation[c].hash>>
Fingerprints   == {Fingerprint(c) : c \in Calls}

\* The hash is taken over all parameters, the command among them.
ASSUME InvocationAssumption ==
    /\ \A c, d \in Calls : Fingerprint(c) = Fingerprint(d) =>
            Invocation[c].command = Invocation[d].command
    /\ \A c \in Calls : Invocation[c].session \in Sessions \cup {NoSession}

ASSUME SentinelAssumption ==
    /\ NoSession \notin Sessions
    /\ NoCall \notin Calls
    /\ NoRequest \notin Requests

\* What from_dict() lets through: any scope in either file.
IsRule(x) ==
    /\ x.id \in RuleIds
    /\ x.decision \in Verdicts
    /\ x.scope \in Buckets
    /\ x.matcher \in Matchers
    /\ x.session \in Sessions \cup {NoSession}

Saved == UNION {SavedRules[s] : s \in Persisted}

\* An id names one rule, though both files may list it.  ONCE is not among the
\* options of a human: it has an action of its own.
ASSUME RuleAssumption ==
    /\ SavedRules = [s \in Persisted |-> SavedRules[s]]
    /\ \A x \in Saved : IsRule(x) /\ \A y \in Saved : x.id = y.id => x = y
    /\ \A o \in Options : /\ o.scope \in Buckets \ {"once"}
                          /\ o.matcher \in Matchers
                          /\ o.actor \in Sessions \cup {NoSession}

ASSUME BoundAssumption == MaxRestarts \in Nat /\ MaxInterrupts \in Nat

----------------------------------------------------------------------------
(* Rules *)

\* A command is its sequence of words, <<>> when the call has none: matching
\* "prefix or prefix followed by a space" compares whole words.
RuleMatches(x, i) ==
    /\ x.capability = i.capability
    /\ \/ x.matcher = "capability"
       \/ x.matcher = "exact_params" /\ x.value = i.hash
       \/ /\ x.matcher = "command_prefix"
          /\ x.value # <<>>
          /\ IsPrefix(x.value, i.command)

\* Session rules count only in their session; a rule without one in all.
Applicable(i) ==
    {x \in rules["once"] \cup rules["workspace"] \cup rules["user"] \cup
           {y \in rules["session"] : y.session \in {NoSession, i.session}} :
        RuleMatches(x, i)}

\* Mutant of Matching: rules in the order of the lists, deny not first.
AnyMatching(i) == Applicable(i)

\* Deny wins over allow whatever list it is in; which of several is reported
\* is left open.
Matching(i) ==
    LET denials == {x \in Applicable(i) : x.decision = "deny"}
    IN  IF denials # {} THEN denials ELSE Applicable(i)

AllRules(held) == UNION {held[b] : b \in Buckets}

\* _remove_rule() goes through the lists in this order ...
Before(b) == CASE b = "once"      -> {}
               [] b = "session"   -> {"once"}
               [] b = "workspace" -> {"once", "session"}
               [] b = "user"      -> {"once", "session", "workspace"}

\* ... and takes the rule out of the first that holds it.
Without(held, x) ==
    [b \in Buckets |-> IF \E d \in Before(b) : x \in held[d] THEN held[b] ELSE held[b] \ {x}]

\* The rule a decision leaves behind.  EXACT_PARAMS takes the hash of the
\* request; COMMAND_PREFIX the given value, or else the whole command.
RuleFor(id, r, d, choice) ==
    LET i == Invocation[asker[r]] IN
    [id |-> id, capability |-> i.capability, decision |-> d,
     scope |-> choice.scope, matcher |-> choice.matcher,
     value |-> CASE choice.matcher = "exact_params"   -> i.hash
                 [] choice.matcher = "command_prefix" ->
                        IF choice.value # <<>> THEN choice.value ELSE i.command
                 [] OTHER -> <<>>,
     session |-> IF choice.scope # "session" THEN NoSession
                 ELSE IF choice.actor # NoSession THEN choice.actor ELSE i.session]

----------------------------------------------------------------------------
(* Pending requests and their pollers *)

Concerns(r, s) == s = NoSession \/ s \in sessions[r] \/ Invocation[asker[r]].session = s

\* notify_all on _pending_state_changed
Notified == [p \in Pollers |->
                IF poll[p].at = "waiting" THEN [poll[p] EXCEPT !.at = "notified"] ELSE poll[p]]

Init ==
    /\ rules = [b \in Buckets |-> IF b \in Persisted THEN SavedRules[b] ELSE {}]
    /\ files = SavedRules
    /\ issued = AllRules(rules)
    /\ asker = [r \in Requests |-> NoCall]
    /\ sessions = [r \in Requests |-> {}]
    /\ resolution = [r \in Requests |-> "none"]
    /\ byId = {}
    /\ byFingerprint = [f \in Fingerprints |-> NoRequest]
    /\ resolved = [r \in Requests |-> "none"]
    /\ pc = [c \in Calls |-> "idle"]
    /\ ticket = [c \in Calls |-> NoRequest]
    /\ basis = [c \in Calls |-> NoRule]
    /\ poll = [p \in Pollers |-> [at |-> "idle", filter |-> NoSession]]
    /\ dirty = {}
    /\ restarts = 0
    /\ interrupts = 0

----------------------------------------------------------------------------
(* A call *)

Goto(c, phase) == pc' = [pc EXCEPT ![c] = phase]

Outcome(d) == IF d = "allow" THEN "allowed" ELSE "denied"

\* Mutants of EvaluateByRule: a once rule is not spent; any rule clears the call.
EvaluateByRuleUnspent(c) ==
    /\ pc[c] = "idle"
    /\ \E x \in Matching(Invocation[c]) :
        /\ basis' = [basis EXCEPT ![c] = x]
        /\ Goto(c, Outcome(x.decision))
    /\ UNCHANGED <<memory, record, ticket, files, issued, poll, dirty, restarts, interrupts>>

EvaluateByRuleAllows(c) ==
    /\ pc[c] = "idle"
    /\ \E x \in Matching(Invocation[c]) : basis' = [basis EXCEPT ![c] = x]
    /\ Goto(c, "allowed")
    /\ UNCHANGED <<memory, record, ticket, files, issued, poll, dirty, restarts, interrupts>>

\* evaluate(): a rule applies.  A ONCE rule is spent, in memory only.
EvaluateByRule(c) ==
    /\ pc[c] = "idle"
    /\ \E x \in Matching(Invocation[c]) :
        /\ rules' = IF x.scope = "once" THEN Without(rules, x) ELSE rules
        /\ basis' = [basis EXCEPT ![c] = x]
        /\ Goto(c, Outcome(x.decision))
    /\ UNCHANGED <<byId, byFingerprint, resolved, sessions, record, ticket,
                   files, issued, poll, dirty, restarts, interrupts>>

\* Mutant of EvaluateAsk: a missing session is tracked like any other.
EvaluateAskTracksNone(c) ==
    /\ pc[c] = "idle"
    /\ Matching(Invocation[c]) = {}
    /\ byFingerprint[Fingerprint(c)] = NoRequest
    /\ \E r \in Requests :
        /\ asker[r] = NoCall
        /\ asker' = [asker EXCEPT ![r] = c]
        /\ sessions' = [sessions EXCEPT ![r] = {Invocation[c].session}]
        /\ byId' = byId \cup {r}
        /\ byFingerprint' = [byFingerprint EXCEPT ![Fingerprint(c)] = r]
        /\ ticket' = [ticket EXCEPT ![c] = r]
    /\ poll' = Notified
    /\ Goto(c, "announcing")
    /\ UNCHANGED <<rules, resolved, resolution, basis, files, issued, dirty,
                   restarts, interrupts>>

\* evaluate(): no rule applies and no request of this fingerprint is pending.
EvaluateAsk(c) ==
    LET i == Invocation[c] IN
    /\ pc[c] = "idle"
    /\ Matching(i) = {}
    /\ byFingerprint[Fingerprint(c)] = NoRequest
    /\ \E r \in Requests :
        /\ asker[r] = NoCall
        /\ asker' = [asker EXCEPT ![r] = c]
        /\ sessions' = [sessions EXCEPT ![r] = {i.session} \ {NoSession}]
        /\ byId' = byId \cup {r}
        /\ byFingerprint' = [byFingerprint EXCEPT ![Fingerprint(c)] = r]
        /\ ticket' = [ticket EXCEPT ![c] = r]
    /\ poll' = Notified
    /\ Goto(c, "announcing")
    /\ UNCHANGED <<rules, resolved, resolution, basis, files, issued, dirty,
                   restarts, interrupts>>

\* Mutant of EvaluateJoin: a session that joins wakes no poller.
EvaluateJoinSilent(c) ==
    LET r == byFingerprint[Fingerprint(c)] IN
    /\ pc[c] = "idle"
    /\ Matching(Invocation[c]) = {}
    /\ r # NoRequest
    /\ sessions' = [sessions EXCEPT ![r] = @ \cup ({Invocation[c].session} \ {NoSession})]
    /\ ticket' = [ticket EXCEPT ![c] = r]
    /\ Goto(c, "announcing")
    /\ UNCHANGED <<rules, byId, byFingerprint, resolved, record, basis, files,
                   issued, poll, dirty, restarts, interrupts>>

\* evaluate(): the call joins the request already pending.  Pollers are woken
\* only when a session is added to it.
EvaluateJoin(c) ==
    LET r == byFingerprint[Fingerprint(c)]
        added == {Invocation[c].session} \ ({NoSession} \cup sessions[r]) IN
    /\ pc[c] = "idle"
    /\ Matching(Invocation[c]) = {}
    /\ r # NoRequest
    /\ sessions' = [sessions EXCEPT ![r] = @ \cup added]
    /\ poll' = IF added # {} THEN Notified ELSE poll
    /\ ticket' = [ticket EXCEPT ![c] = r]
    /\ Goto(c, "announcing")
    /\ UNCHANGED <<rules, byId, byFingerprint, resolved, record, basis, files,
                   issued, dirty, restarts, interrupts>>

\* wait_for_resolution(): the buffered decision if there is one; the event of
\* the pending request if it still is pending; KeyError otherwise.
BeginWait(c) ==
    LET r == ticket[c] IN
    /\ pc[c] = "announcing"
    /\ resolved' = [resolved EXCEPT ![r] = "none"]
    /\ \/ resolved[r] # "none" /\ Goto(c, Outcome(resolved[r]))
       \/ resolved[r] = "none" /\ r \in byId /\ Goto(c, "waiting")
       \/ resolved[r] = "none" /\ r \notin byId /\ Goto(c, "error")
    /\ UNCHANGED <<rules, byId, byFingerprint, sessions, record, ticket, basis,
                   files, issued, poll, dirty, restarts, interrupts>>

\* Mutant of EndWait: the waiter takes its decision from the shared buffer.
EndWaitFromBuffer(c) ==
    /\ pc[c] = "waiting"
    /\ resolved[ticket[c]] # "none"
    /\ resolved' = [resolved EXCEPT ![ticket[c]] = "none"]
    /\ Goto(c, Outcome(resolved[ticket[c]]))
    /\ UNCHANGED <<rules, byId, byFingerprint, sessions, record, ticket, basis,
                   files, issued, poll, dirty, restarts, interrupts>>

\* The event is set: the waiter resumes and clears the buffered decision.
EndWait(c) ==
    /\ pc[c] = "waiting"
    /\ resolution[ticket[c]] # "none"
    /\ resolved' = [resolved EXCEPT ![ticket[c]] = "none"]
    /\ Goto(c, Outcome(resolution[ticket[c]]))
    /\ UNCHANGED <<rules, byId, byFingerprint, sessions, record, ticket, basis,
                   files, issued, poll, dirty, restarts, interrupts>>

\* The cleared call reaches the delegate gateway.
InvokeDelegate(c) ==
    /\ pc[c] = "allowed"
    /\ Goto(c, "ran")
    /\ UNCHANGED <<memory, record, ticket, basis, files, issued, poll, dirty,
                   restarts, interrupts>>

\* The turn that made the call is interrupted at one of its awaits.
Interrupt(c) ==
    /\ interrupts < MaxInterrupts
    /\ pc[c] \in InFlight
    /\ Goto(c, "cancelled")
    /\ interrupts' = interrupts + 1
    /\ UNCHANGED <<memory, record, ticket, basis, files, issued, poll, dirty, restarts>>

----------------------------------------------------------------------------
(* A human *)

\* _persist_rules_for_scope() rewrites the whole file from memory.  When it
\* raises, the file is as it was (the open failed) or truncated, which load()
\* reads as no rules.
Save(scope) ==
    /\ files' = IF scope \in Persisted THEN [files EXCEPT ![scope] = rules'[scope]] ELSE files
    /\ dirty' = dirty \ {scope}

SaveFails(scope) ==
    /\ scope \in Persisted
    /\ files' \in {files, [files EXCEPT ![scope] = {}]}
    /\ dirty' = dirty \cup {scope}

FreshRule(x) == \A y \in issued : y.id # x.id

Remember(x) ==
    /\ rules' = [rules EXCEPT ![x.scope] = @ \cup {x}]
    /\ issued' = issued \cup {x}

\* Mutant of Settle: the fingerprint still leads to the decided request.
SettleKeepsFingerprint(r, d) ==
    /\ resolution' = [resolution EXCEPT ![r] = d]
    /\ resolved' = [resolved EXCEPT ![r] = d]
    /\ byId' = byId \ {r}
    /\ poll' = Notified
    /\ UNCHANGED byFingerprint

\* The decision reaches the request: it leaves both maps, is buffered for a
\* waiter that has not begun, and every waiter and poller is woken.
Settle(r, d) ==
    /\ resolution' = [resolution EXCEPT ![r] = d]
    /\ resolved' = [resolved EXCEPT ![r] = d]
    /\ byId' = byId \ {r}
    /\ byFingerprint' = [byFingerprint EXCEPT ![Fingerprint(asker[r])] = NoRequest]
    /\ poll' = Notified

\* Mutant of DecideOnce: a request already decided may be decided again.
DecideOnceAgain(r, d) ==
    /\ asker[r] # NoCall
    /\ Settle(r, d)
    /\ UNCHANGED <<rules, sessions, asker, callers, files, issued, dirty, restarts, interrupts>>

\* grant()/deny() with scope ONCE: only the pending request is decided.
DecideOnce(r, d) ==
    /\ r \in byId
    /\ Settle(r, d)
    /\ UNCHANGED <<rules, sessions, asker, callers, files, issued, dirty, restarts, interrupts>>

\* grant()/deny() that also leaves a rule.  COMMAND_PREFIX without any command
\* is refused with ValueError before anything changes.
Decide(r, d, choice) ==
    /\ r \in byId
    /\ \E id \in RuleIds :
        LET x == RuleFor(id, r, d, choice) IN
        /\ x.matcher = "command_prefix" => x.value # <<>>
        /\ FreshRule(x)
        /\ Remember(x)
    /\ Save(choice.scope)
    /\ Settle(r, d)
    /\ UNCHANGED <<sessions, asker, callers, restarts, interrupts>>

\* Mutants of DecideSaveFails: the decision is buffered, or the request taken
\* off the maps, before the save that fails.
DecideSaveFailsBuffered(r, d, choice) ==
    /\ r \in byId
    /\ \E id \in RuleIds : LET x == RuleFor(id, r, d, choice) IN FreshRule(x) /\ Remember(x)
    /\ resolved' = [resolved EXCEPT ![r] = d]
    /\ SaveFails(choice.scope)
    /\ UNCHANGED <<byId, byFingerprint, sessions, record, callers, poll, restarts, interrupts>>

DecideSaveFailsUnlisted(r, d, choice) ==
    /\ r \in byId
    /\ \E id \in RuleIds : LET x == RuleFor(id, r, d, choice) IN FreshRule(x) /\ Remember(x)
    /\ byId' = byId \ {r}
    /\ byFingerprint' = [byFingerprint EXCEPT ![Fingerprint(asker[r])] = NoRequest]
    /\ SaveFails(choice.scope)
    /\ UNCHANGED <<resolved, sessions, record, callers, poll, restarts, interrupts>>

\* The same, the save raising OSError: the rule is already in memory and the
\* request is still pending.
DecideSaveFails(r, d, choice) ==
    /\ r \in byId
    /\ \E id \in RuleIds :
        LET x == RuleFor(id, r, d, choice) IN
        /\ x.matcher = "command_prefix" => x.value # <<>>
        /\ FreshRule(x)
        /\ Remember(x)
    /\ SaveFails(choice.scope)
    /\ UNCHANGED <<byId, byFingerprint, resolved, sessions, record, callers,
                   poll, restarts, interrupts>>

\* Mutant of Revoke: the file keeps the rule.
RevokeInMemory(x) ==
    /\ x \in AllRules(rules)
    /\ rules' = Without(rules, x)
    /\ UNCHANGED <<byId, byFingerprint, resolved, sessions, record, callers, files,
                   dirty, issued, poll, restarts, interrupts>>

\* revoke(): the rule leaves the list that holds it, then the file of its scope
\* is rewritten, which need not be the file it was read from.
Revoke(x) ==
    /\ x \in AllRules(rules)
    /\ rules' = Without(rules, x)
    /\ Save(x.scope) \/ SaveFails(x.scope)
    /\ UNCHANGED <<byId, byFingerprint, resolved, sessions, record, callers,
                   issued, poll, restarts, interrupts>>

----------------------------------------------------------------------------
(* poll_pending() *)

Answerable(s) == \E r \in byId : Concerns(r, s)

Poll(p) ==
    /\ poll[p].at = "idle"
    /\ \E s \in Sessions \cup {NoSession} :
        poll' = [poll EXCEPT ![p] = [filter |-> s,
                                     at |-> IF Answerable(s) THEN "served" ELSE "waiting"]]
    /\ UNCHANGED <<memory, record, callers, files, issued, dirty, restarts, interrupts>>

PollAgain(p) ==
    /\ poll[p].at = "notified"
    /\ poll' = [poll EXCEPT ![p].at = IF Answerable(poll[p].filter) THEN "served" ELSE "waiting"]
    /\ UNCHANGED <<memory, record, callers, files, issued, dirty, restarts, interrupts>>

\* The request was handed over, or the timeout ran out: the client may poll anew.
PollReturns(p) ==
    /\ poll[p].at # "idle"
    /\ poll' = [poll EXCEPT ![p].at = "idle"]
    /\ UNCHANGED <<memory, record, callers, files, issued, dirty, restarts, interrupts>>

----------------------------------------------------------------------------
(* The process *)

\* The process dies and a new manager is built: rules come back from the
\* files, pending requests and the calls that wait for them are gone.
Restart ==
    /\ restarts < MaxRestarts
    /\ restarts' = restarts + 1
    /\ rules' = [b \in Buckets |-> IF b \in Persisted THEN files[b] ELSE {}]
    /\ sessions' = [r \in Requests |-> {}]
    /\ byId' = {}
    /\ byFingerprint' = [f \in Fingerprints |-> NoRequest]
    /\ resolved' = [r \in Requests |-> "none"]
    /\ pc' = [c \in Calls |-> IF pc[c] \in InFlight THEN "lost" ELSE pc[c]]
    /\ poll' = [p \in Pollers |-> [poll[p] EXCEPT !.at = "idle"]]
    /\ dirty' = {}
    /\ UNCHANGED <<record, ticket, basis, files, issued, interrupts>>

Call(c) ==
    \/ EvaluateByRule(c) \/ EvaluateAsk(c) \/ EvaluateJoin(c)
    \/ BeginWait(c) \/ EndWait(c) \/ InvokeDelegate(c)

Human ==
    \/ \E r \in Requests, d \in Verdicts :
        \/ DecideOnce(r, d)
        \/ \E choice \in Options : Decide(r, d, choice) \/ DecideSaveFails(r, d, choice)
    \/ \E x \in issued : Revoke(x)

Next ==
    \/ \E c \in Calls : Call(c) \/ Interrupt(c)
    \/ Human
    \/ \E p \in Pollers : Poll(p) \/ PollAgain(p) \/ PollReturns(p)
    \/ Restart

\* The event loop runs every ready task: a call and a notified poller go on.
Fairness ==
    /\ \A c \in Calls : WF_vars(Call(c))
    /\ \A p \in Pollers : WF_vars(PollAgain(p))

Spec == Init /\ [][Next]_vars /\ Fairness

----------------------------------------------------------------------------
(* Properties *)

\* Every variable keeps the shape the code gives it.
TypeOK ==
    /\ rules \in [Buckets -> SUBSET issued]
    /\ files \in [Persisted -> SUBSET issued]
    /\ \A x \in issued : IsRule(x)
    /\ asker \in [Requests -> Calls \cup {NoCall}]
    /\ sessions \in [Requests -> SUBSET Sessions]
    /\ resolution \in [Requests -> Verdicts \cup {"none"}]
    /\ resolved \in [Requests -> Verdicts \cup {"none"}]
    /\ byId \subseteq Requests
    /\ byFingerprint \in [Fingerprints -> Requests \cup {NoRequest}]
    /\ pc \in [Calls -> Phases]
    /\ ticket \in [Calls -> Requests \cup {NoRequest}]
    /\ basis \in [Calls -> issued \cup {NoRule}]
    /\ poll \in [Pollers -> [at: {"idle", "waiting", "notified", "served"},
                             filter: Sessions \cup {NoSession}]]
    /\ dirty \subseteq Persisted
    /\ restarts \in 0..MaxRestarts
    /\ interrupts \in 0..MaxInterrupts

Created(r) == asker[r] # NoCall

\* The two indexes of pending requests agree: an id is pending exactly when
\* the fingerprint of its request leads to it, and it is still undecided.
\* evaluate() deduplicates on one map, grant() and the waiters use the other.
PendingIndexed ==
    /\ \A r \in byId : /\ Created(r)
                       /\ resolution[r] = "none"
                       /\ byFingerprint[Fingerprint(asker[r])] = r
    /\ \A f \in Fingerprints : byFingerprint[f] # NoRequest =>
            byFingerprint[f] \in byId /\ Fingerprint(asker[byFingerprint[f]]) = f
    /\ \A r \in Requests : ~Created(r) => resolution[r] = "none"

\* A buffered decision is the decision of its request, which is not pending
\* any more: a late waiter never takes a decision meant for a live request.
BufferFaithful ==
    \A r \in Requests : resolved[r] # "none" =>
        resolved[r] = resolution[r] /\ r \notin byId

\* A call holds the ticket of a request of its own fingerprint, and while it
\* asks that request can still be answered or has been: no waiter is left
\* behind on a request no human can see.
NobodyStranded ==
    \A c \in Calls : LET r == ticket[c] IN
        /\ r # NoRequest => Created(r) /\ Fingerprint(asker[r]) = Fingerprint(c)
        /\ pc[c] \in Asking => r # NoRequest /\ (r \in byId \/ resolution[r] # "none")

\* The books on requests are in order: what is pending, what is decided and who
\* waits for what (_pending_by_id, _pending_by_fingerprint, _resolved).
Books == PendingIndexed /\ BufferFaithful /\ NobodyStranded

\* A call gets to the tool only on the strength of an allow rule that applies
\* to it, or of a human who allowed a request for the same capability and
\* parameters; and it is refused only by a matching denial.
AllowedBy(c, d) ==
    \/ /\ basis[c] \in issued
       /\ basis[c].decision = d
       /\ RuleMatches(basis[c], Invocation[c])
    \/ /\ ticket[c] # NoRequest
       /\ resolution[ticket[c]] = d
       /\ Fingerprint(asker[ticket[c]]) = Fingerprint(c)

Authorised ==
    \A c \in Calls :
        /\ pc[c] \in {"allowed", "ran"} => AllowedBy(c, "allow")
        /\ pc[c] = "denied" => AllowedBy(c, "deny")

\* The inductive invariant of the proofs.
IInv == TypeOK /\ PendingIndexed /\ BufferFaithful /\ NobodyStranded /\ Authorised

\* Except where a save failed, a file holds every rule of its list in memory,
\* and more only of another scope than its own: a spent ONCE rule, or one that
\* was revoked and whose scope names another file.  What a human granted or
\* denied, or revoked where its scope puts it, is what the next start will load.
MemoryMatchesFiles ==
    \A s \in Persisted \ dirty :
        /\ rules[s] \subseteq files[s]
        /\ \A x \in files[s] \ rules[s] : x.scope # s

\* No poller sleeps un-notified over a request it asked for: a new request, or
\* a session joining a deduplicated one, wakes it.
NoLostWakeup ==
    \A p \in Pollers : poll[p].at = "waiting" => ~Answerable(poll[p].filter)

\* Of two humans who decide the same request, and of all calls that share it,
\* one decision is taken, once, and it never changes.
DecisionIsFinal ==
    [][\A r \in Requests : resolution[r] # "none" => resolution'[r] = resolution[r]]_vars

\* A rule of scope once, which only a hand-written approvals.json can hold, is
\* spent by one call for every file that lists it; it counts again only after a
\* restart reloads the files.
OnceSpentOnce ==
    \A x \in issued : x.scope = "once" =>
        Cardinality({c \in Calls : basis[c] = x}) + Cardinality({b \in Buckets : x \in rules[b]})
            <= (restarts + 1) * Cardinality({s \in Persisted : x \in SavedRules[s]})

\* What the specification of the core runtime says of a call no rule applies
\* to: it waits for an explicit grant or deny, and does not fail on its own.
WaitsForDecision == \A c \in Calls : pc[c] # "error"

\* A waiter whose request is decided gets that decision, unless it is
\* interrupted or the process dies first.
DecisionDelivered ==
    \A c \in Calls, d \in Verdicts :
        (pc[c] = "waiting" /\ resolution[ticket[c]] = d)
            ~> pc[c] \in {Outcome(d), "cancelled", "lost"}

----------------------------------------------------------------------------
(* The contract this implements *)

Covered(d) == {c \in Calls : \E x \in Applicable(Invocation[c]) : x.decision = d}

\* A call is decided as soon as its request is, before it learns of it.
ContractPhase(c) ==
    CASE pc[c] = "idle" -> "new"
      [] pc[c] = "allowed" -> "cleared"
      [] pc[c] = "denied" -> "refused"
      [] pc[c] = "ran" -> "ran"
      [] pc[c] \in Asking -> (CASE resolution[ticket[c]] = "allow" -> "cleared"
                                [] resolution[ticket[c]] = "deny"  -> "refused"
                                [] OTHER -> "asking")
      [] OTHER -> "failed"

Promise == INSTANCE ApprovalContract WITH
    Calls <- Calls,
    Question <- [c \in Calls |-> Fingerprint(c)],
    law <- [allow |-> Covered("allow"), deny |-> Covered("deny")],
    phase <- [c \in Calls |-> ContractPhase(c)]

\* The manager and the gateway implement the contract: one answer settles all
\* calls that ask the same, at the moment it is given; remembered denials come
\* first; and no refusal or failure ever turns into a run of the tool.
ImplementsContract == Promise!Contract
=============================================================================
