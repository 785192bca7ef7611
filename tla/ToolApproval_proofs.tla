------------------------ MODULE ToolApproval_proofs ------------------------
(***************************************************************************)
(* Theorems about ToolApproval, for any number of calls, requests, rules,  *)
(* sessions, pollers, restarts and interrupts.                             *)
(***************************************************************************)
EXTENDS ToolApproval, FiniteSetTheorems, TLAPS

USE DEF memory, record, callers

\* _remove_rule takes a rule out of one list at most ...
LEMMA WithoutOne ==
    ASSUME NEW held, NEW x
    PROVE  /\ Without(held, x) = [b \in Buckets |-> Without(held, x)[b]]
           /\ \A b \in Buckets : /\ Without(held, x)[b] \subseteq held[b]
                                 /\ \A y \in held[b] \ Without(held, x)[b] : y = x
  BY DEF Without

\* ... and out of one if any holds it.
LEMMA WithoutFirst ==
    ASSUME NEW held, NEW x, \E b \in Buckets : x \in held[b]
    PROVE  \E b \in Buckets : x \in held[b] /\ x \notin Without(held, x)[b]
  <1>1. PICK b \in Buckets : x \in held[b] /\ \A d \in Before(b) : x \notin held[d]
    BY DEF Buckets, Before
  <1>2. Without(held, x)[b] = held[b] \ {x}
    BY <1>1 DEF Without
  <1> QED BY <1>1, <1>2

\* Init gives every variable its shape.
LEMMA TypeInit == Init => TypeOK
  <1> SUFFICES ASSUME Init PROVE TypeOK
    OBVIOUS
  <1>1. \A b \in Buckets : rules[b] = IF b \in Persisted THEN SavedRules[b] ELSE {}
    BY DEF Init
  <1>2. \A b \in Buckets : rules[b] \subseteq issued
    BY DEF Init, AllRules
  <1>3. rules \in [Buckets -> SUBSET issued]
    BY <1>2 DEF Init
  <1>4. files \in [Persisted -> SUBSET issued]
    <2>1. \A s \in Persisted : SavedRules[s] \subseteq issued
      BY <1>1, <1>2 DEF Buckets, Persisted
    <2> QED BY <2>1, RuleAssumption DEF Init
  <1>5. \A x \in issued : IsRule(x)
    <2>1. \A x \in issued : x \in Saved
      BY <1>1 DEF Init, AllRules, Saved
    <2> QED BY <2>1, RuleAssumption
  <1> QED
    BY <1>3, <1>4, <1>5, BoundAssumption DEF Init, TypeOK, Phases, Persisted

\* Notified keeps the shape of poll.
LEMMA NotifiedType ==
    ASSUME TypeOK
    PROVE  Notified \in [Pollers -> [at: {"idle", "waiting", "notified", "served"},
                                     filter: Sessions \cup {NoSession}]]
  BY DEF TypeOK, Notified

\* A decision keeps rules, files and the rules ever issued well-formed.
LEMMA RememberType ==
    ASSUME TypeOK, NEW r \in byId, asker[r] \in Calls, NEW d \in Verdicts, NEW o \in Options,
           NEW id \in RuleIds, Remember(RuleFor(id, r, d, o))
    PROVE  /\ rules' \in [Buckets -> SUBSET issued']
           /\ issued \subseteq issued'
           /\ \A x \in issued' : IsRule(x)
  <1> DEFINE x == RuleFor(id, r, d, o)
  <1>1. IsRule(x) /\ x.scope \in Buckets
    BY RuleAssumption, InvocationAssumption DEF RuleFor, IsRule
  <1>2. issued' = issued \cup {x} /\ rules' = [rules EXCEPT ![x.scope] = @ \cup {x}]
    BY DEF Remember
  <1> QED BY <1>1, <1>2 DEF TypeOK

\* Saving, or failing to, keeps the files well-formed.
LEMMA SaveType ==
    ASSUME TypeOK, rules' \in [Buckets -> SUBSET issued'], issued \subseteq issued',
           NEW scope \in Buckets, Save(scope) \/ SaveFails(scope)
    PROVE  files' \in [Persisted -> SUBSET issued'] /\ dirty' \subseteq Persisted
  <1>1. Persisted \subseteq Buckets
    BY DEF Persisted, Buckets
  <1>2. CASE Save(scope)
    BY <1>1, <1>2 DEF TypeOK, Save
  <1>3. CASE SaveFails(scope)
    BY <1>1, <1>3 DEF TypeOK, SaveFails
  <1> QED BY <1>2, <1>3

\* A pending request has been created, so its first caller is known.
LEMMA PendingCreated ==
    ASSUME TypeOK, PendingIndexed, NEW r \in byId
    PROVE  r \in Requests /\ asker[r] \in Calls /\ Fingerprint(asker[r]) \in Fingerprints
  BY DEF TypeOK, PendingIndexed, Created, Fingerprints

\* Every step keeps the shape of every variable.
LEMMA TypeNext == TypeOK /\ PendingIndexed /\ [Next]_vars => TypeOK'
  <1> SUFFICES ASSUME TypeOK, PendingIndexed, [Next]_vars PROVE TypeOK'
    OBVIOUS
  <1> USE DEF TypeOK, Goto
  <1>1. ASSUME NEW c \in Calls, EvaluateByRule(c) PROVE TypeOK'
    <2>1. PICK x \in Matching(Invocation[c]) :
              /\ rules' = IF x.scope = "once" THEN Without(rules, x) ELSE rules
              /\ basis' = [basis EXCEPT ![c] = x]
              /\ Goto(c, Outcome(x.decision))
      BY <1>1 DEF EvaluateByRule
    <2>2. x \in issued
      BY <2>1 DEF Matching, Applicable, Buckets
    <2>3. rules' \in [Buckets -> SUBSET issued]
      BY <2>1, WithoutOne
    <2>4. Outcome(x.decision) \in Phases
      BY DEF Outcome, Phases, InFlight
    <2> QED BY <1>1, <2>1, <2>2, <2>3, <2>4 DEF EvaluateByRule
  <1>2. ASSUME NEW c \in Calls, EvaluateAsk(c) PROVE TypeOK'
    <2>1. "announcing" \in Phases
      BY DEF Phases, InFlight, Asking
    <2>2. Fingerprint(c) \in Fingerprints /\ {Invocation[c].session} \ {NoSession} \subseteq Sessions
      BY InvocationAssumption DEF Fingerprints
    <2> QED BY <1>2, <2>1, <2>2, NotifiedType DEF EvaluateAsk
  <1>3. ASSUME NEW c \in Calls, EvaluateJoin(c) PROVE TypeOK'
    <2>1. "announcing" \in Phases
      BY DEF Phases, InFlight, Asking
    <2>2. byFingerprint[Fingerprint(c)] \in Requests
      BY <1>3 DEF EvaluateJoin, Fingerprints
    <2>3. {Invocation[c].session} \ ({NoSession} \cup sessions[byFingerprint[Fingerprint(c)]]) \subseteq Sessions
      BY InvocationAssumption
    <2> QED BY <1>3, <2>1, <2>2, <2>3, NotifiedType DEF EvaluateJoin
  <1>4. ASSUME NEW c \in Calls, BeginWait(c) PROVE TypeOK'
    BY <1>4 DEF BeginWait, Outcome, Phases, InFlight, Asking
  <1>5. ASSUME NEW c \in Calls, EndWait(c) PROVE TypeOK'
    BY <1>5 DEF EndWait, Outcome, Phases, InFlight
  <1>6. ASSUME NEW c \in Calls, InvokeDelegate(c) PROVE TypeOK'
    BY <1>6 DEF InvokeDelegate, Phases
  <1>7. ASSUME NEW c \in Calls, Interrupt(c) PROVE TypeOK'
    BY <1>7, BoundAssumption DEF Interrupt, Phases
  <1>8. ASSUME NEW r \in Requests, NEW d \in Verdicts, DecideOnce(r, d) PROVE TypeOK'
    BY <1>8, NotifiedType DEF DecideOnce, Settle
  <1>9. ASSUME NEW r \in Requests, NEW d \in Verdicts, NEW o \in Options, Decide(r, d, o)
        PROVE  TypeOK'
    <2>1. PICK id \in RuleIds : Remember(RuleFor(id, r, d, o))
      BY <1>9 DEF Decide
    <2>2. r \in byId /\ asker[r] \in Calls
      BY <1>9, PendingCreated DEF Decide
    <2>3. /\ rules' \in [Buckets -> SUBSET issued']
          /\ issued \subseteq issued'
          /\ \A x \in issued' : IsRule(x)
      BY <2>1, <2>2, RememberType
    <2>4. files' \in [Persisted -> SUBSET issued'] /\ dirty' \subseteq Persisted
      BY <1>9, <2>3, SaveType, RuleAssumption DEF Decide
    <2> QED BY <1>9, <2>3, <2>4, NotifiedType DEF Decide, Settle
  <1>10. ASSUME NEW r \in Requests, NEW d \in Verdicts, NEW o \in Options, DecideSaveFails(r, d, o)
         PROVE  TypeOK'
    <2>1. PICK id \in RuleIds : Remember(RuleFor(id, r, d, o))
      BY <1>10 DEF DecideSaveFails
    <2>2. r \in byId /\ asker[r] \in Calls
      BY <1>10, PendingCreated DEF DecideSaveFails
    <2>3. /\ rules' \in [Buckets -> SUBSET issued']
          /\ issued \subseteq issued'
          /\ \A x \in issued' : IsRule(x)
      BY <2>1, <2>2, RememberType
    <2>4. files' \in [Persisted -> SUBSET issued'] /\ dirty' \subseteq Persisted
      BY <1>10, <2>3, SaveType, RuleAssumption DEF DecideSaveFails
    <2> QED BY <1>10, <2>3, <2>4 DEF DecideSaveFails
  <1>11. ASSUME NEW x \in issued, Revoke(x) PROVE TypeOK'
    <2>1. rules' \in [Buckets -> SUBSET issued']
      BY <1>11, WithoutOne DEF Revoke
    <2>2. files' \in [Persisted -> SUBSET issued'] /\ dirty' \subseteq Persisted
      BY <1>11, <2>1, SaveType DEF Revoke, IsRule
    <2> QED BY <1>11, <2>1, <2>2 DEF Revoke
  <1>12. ASSUME NEW p \in Pollers, Poll(p) \/ PollAgain(p) \/ PollReturns(p) PROVE TypeOK'
    BY <1>12 DEF Poll, PollAgain, PollReturns
  <1>13. CASE Restart
    <2>1. rules' \in [Buckets -> SUBSET issued]
      BY <1>13 DEF Restart
    <2>2. pc' \in [Calls -> Phases]
      BY <1>13 DEF Restart, Phases
    <2>3. poll' \in [Pollers -> [at: {"idle", "waiting", "notified", "served"},
                                filter: Sessions \cup {NoSession}]]
      BY <1>13 DEF Restart
    <2> QED BY <1>13, <2>1, <2>2, <2>3, BoundAssumption DEF Restart
  <1>14. CASE UNCHANGED vars
    BY <1>14 DEF vars
  <1> QED
    BY <1>1, <1>2, <1>3, <1>4, <1>5, <1>6, <1>7, <1>8, <1>9, <1>10, <1>11, <1>12, <1>13, <1>14
    DEF Next, Call, Human

----------------------------------------------------------------------------
(* The bookkeeping of requests *)

\* What the actions that touch no request leave alone.
LEMMA BooksStutter ==
    ASSUME TypeOK, Books,
           UNCHANGED <<byId, byFingerprint, resolved, resolution, asker, ticket>>,
           \A c \in Calls : pc'[c] \in Asking => pc[c] \in Asking
    PROVE  Books'
  BY DEF Books, TypeOK, PendingIndexed, BufferFaithful, NobodyStranded, Created, Fingerprint

\* A request that was never created is in none of the books.
LEMMA FreshIsBlank ==
    ASSUME TypeOK, Books, NEW r \in Requests, asker[r] = NoCall
    PROVE  /\ r \notin byId /\ resolution[r] = "none" /\ resolved[r] = "none"
           /\ \A f \in Fingerprints : byFingerprint[f] # r
           /\ \A c \in Calls : ticket[c] # r
  BY SentinelAssumption
  DEF Books, TypeOK, PendingIndexed, BufferFaithful, NobodyStranded, Created

\* Deciding a pending request keeps the books: it leaves both indexes, its
\* decision is buffered, and whoever holds its ticket can still learn it.
LEMMA SettleBooks ==
    ASSUME TypeOK, Books, NEW r \in byId, NEW d \in Verdicts, Settle(r, d),
           UNCHANGED <<asker, ticket, pc>>
    PROVE  Books'
  <1> DEFINE f0 == Fingerprint(asker[r])
  <1>1. r \in Requests /\ asker[r] \in Calls /\ f0 \in Fingerprints /\ byFingerprint[f0] = r
    BY PendingCreated DEF Books, PendingIndexed
  <1>2. d # "none"
    BY DEF Verdicts
  <1>3. /\ resolution' = [resolution EXCEPT ![r] = d]
        /\ resolved' = [resolved EXCEPT ![r] = d]
        /\ byId' = byId \ {r}
        /\ byFingerprint' = [byFingerprint EXCEPT ![f0] = NoRequest]
    BY DEF Settle
  <1>4. \A q \in Requests : q # r => resolution'[q] = resolution[q] /\ resolved'[q] = resolved[q]
    BY <1>3 DEF TypeOK
  <1>5. resolution'[r] = d /\ resolved'[r] = d
    BY <1>1, <1>3 DEF TypeOK
  <1>6. byFingerprint'[f0] = NoRequest /\ \A f \in Fingerprints : f # f0 => byFingerprint'[f] = byFingerprint[f]
    BY <1>1, <1>3 DEF TypeOK
  <1>7. \A q \in byId : q # r => Fingerprint(asker[q]) \in Fingerprints /\ Fingerprint(asker[q]) # f0
    BY <1>1, PendingCreated DEF Books, PendingIndexed
  <1>8. \A c : Fingerprint(c)' = Fingerprint(c)
    BY DEF Fingerprint
  <1>9. PendingIndexed'
    BY <1>1, <1>2, <1>3, <1>4, <1>5, <1>6, <1>7, <1>8, SentinelAssumption
    DEF Books, TypeOK, PendingIndexed, Created, Fingerprint
  <1>10. BufferFaithful'
    BY <1>3, <1>4, <1>5 DEF Books, BufferFaithful
  <1>11. NobodyStranded'
    BY <1>2, <1>3, <1>4, <1>5, <1>8 DEF Books, TypeOK, NobodyStranded, Created
  <1> QED BY <1>9, <1>10, <1>11 DEF Books

\* The books are in order at the start.
LEMMA BooksInit == Init => Books
  BY SentinelAssumption
  DEF Init, Books, PendingIndexed, BufferFaithful, NobodyStranded, Asking, Created

\* Every step keeps the books in order.
LEMMA BooksNext == TypeOK /\ Books /\ [Next]_vars => Books'
  <1> SUFFICES ASSUME TypeOK, Books, [Next]_vars PROVE Books'
    OBVIOUS
  <1>1. ASSUME NEW c \in Calls, EvaluateByRule(c) PROVE Books'
    BY <1>1, BooksStutter DEF EvaluateByRule, Goto, Outcome, Asking, TypeOK
  <1>2. ASSUME NEW c \in Calls, EvaluateAsk(c) PROVE Books'
    <2> DEFINE f0 == Fingerprint(c)
    <2>1. PICK r \in Requests :
              /\ asker[r] = NoCall
              /\ asker' = [asker EXCEPT ![r] = c]
              /\ byId' = byId \cup {r}
              /\ byFingerprint' = [byFingerprint EXCEPT ![f0] = r]
              /\ ticket' = [ticket EXCEPT ![c] = r]
      BY <1>2 DEF EvaluateAsk
    <2>2. /\ pc' = [pc EXCEPT ![c] = "announcing"]
          /\ UNCHANGED <<resolved, resolution>>
          /\ byFingerprint[f0] = NoRequest
      BY <1>2 DEF EvaluateAsk, Goto
    <2>3. /\ r \notin byId /\ resolution[r] = "none" /\ resolved[r] = "none"
          /\ \A f \in Fingerprints : byFingerprint[f] # r
          /\ \A e \in Calls : ticket[e] # r
      BY <2>1, FreshIsBlank
    <2>4. f0 \in Fingerprints /\ c # NoCall /\ r # NoRequest
      BY SentinelAssumption DEF Fingerprints
    <2>5. \A q \in byId : Fingerprint(asker[q]) \in Fingerprints /\ Fingerprint(asker[q]) # f0
      BY <2>2, PendingCreated, SentinelAssumption DEF Books, PendingIndexed, TypeOK
    <2>6. asker'[r] = c /\ \A q \in Requests : q # r => asker'[q] = asker[q]
      BY <2>1 DEF TypeOK
    <2>7. byFingerprint'[f0] = r /\ \A f \in Fingerprints : f # f0 => byFingerprint'[f] = byFingerprint[f]
      BY <2>1, <2>4 DEF TypeOK
    <2>8. ticket'[c] = r /\ \A e \in Calls : e # c => ticket'[e] = ticket[e] /\ pc'[e] = pc[e]
      BY <2>1, <2>2 DEF TypeOK
    <2>9. PendingIndexed'
      BY <2>1, <2>2, <2>3, <2>4, <2>5, <2>6, <2>7
      DEF Books, TypeOK, PendingIndexed, Created, Fingerprint
    <2>10. BufferFaithful'
      BY <2>1, <2>2, <2>3 DEF Books, BufferFaithful
    <2>11. NobodyStranded'
      BY <2>1, <2>2, <2>3, <2>4, <2>6, <2>8
      DEF Books, TypeOK, NobodyStranded, Created, Fingerprint
    <2> QED BY <2>9, <2>10, <2>11 DEF Books
  <1>3. ASSUME NEW c \in Calls, EvaluateJoin(c) PROVE Books'
    <2> DEFINE r == byFingerprint[Fingerprint(c)]
    <2>1. /\ UNCHANGED <<byId, byFingerprint, resolved, resolution, asker>>
          /\ ticket' = [ticket EXCEPT ![c] = r]
          /\ pc' = [pc EXCEPT ![c] = "announcing"]
      BY <1>3 DEF EvaluateJoin, Goto
    <2>2. r # NoRequest /\ r \in byId /\ Created(r) /\ Fingerprint(asker[r]) = Fingerprint(c)
      BY <1>3 DEF EvaluateJoin, Books, PendingIndexed, Fingerprints
    <2>3. PendingIndexed' /\ BufferFaithful'
      BY <2>1 DEF Books, PendingIndexed, BufferFaithful, Created, Fingerprint
    <2>4. NobodyStranded'
      BY <2>1, <2>2 DEF Books, TypeOK, NobodyStranded, Created, Fingerprint
    <2> QED BY <2>3, <2>4 DEF Books
  <1>4. ASSUME NEW c \in Calls, BeginWait(c) \/ EndWait(c) PROVE Books'
    <2>1. /\ UNCHANGED <<byId, byFingerprint, resolution, asker, ticket>>
          /\ resolved' = [resolved EXCEPT ![ticket[c]] = "none"]
          /\ pc[c] \in Asking
          /\ \A e \in Calls : e # c => pc'[e] = pc[e]
      BY <1>4 DEF BeginWait, EndWait, Goto, TypeOK, Asking
    <2>2. PendingIndexed' /\ BufferFaithful'
      BY <2>1 DEF Books, TypeOK, PendingIndexed, BufferFaithful, Created, Fingerprint
    <2>3. NobodyStranded'
      BY <2>1 DEF Books, NobodyStranded, Created, Fingerprint
    <2> QED BY <2>2, <2>3 DEF Books
  <1>5. ASSUME NEW c \in Calls, InvokeDelegate(c) \/ Interrupt(c) PROVE Books'
    BY <1>5, BooksStutter DEF InvokeDelegate, Interrupt, Goto, Asking, TypeOK
  <1>6. ASSUME NEW r \in Requests, NEW d \in Verdicts,
               DecideOnce(r, d) \/ \E o \in Options : Decide(r, d, o)
        PROVE  Books'
    BY <1>6, SettleBooks DEF DecideOnce, Decide
  <1>7. ASSUME NEW r \in Requests, NEW d \in Verdicts, NEW o \in Options, DecideSaveFails(r, d, o)
        PROVE  Books'
    BY <1>7, BooksStutter DEF DecideSaveFails
  <1>8. ASSUME NEW x \in issued, Revoke(x) PROVE Books'
    BY <1>8, BooksStutter DEF Revoke
  <1>9. ASSUME NEW p \in Pollers, Poll(p) \/ PollAgain(p) \/ PollReturns(p) PROVE Books'
    BY <1>9, BooksStutter DEF Poll, PollAgain, PollReturns
  <1>10. CASE Restart
    <2>1. \A c \in Calls : pc'[c] \notin Asking
      BY <1>10 DEF Restart, Asking, InFlight
    <2>2. UNCHANGED <<resolution, asker, ticket>> /\ byId' = {}
      BY <1>10 DEF Restart
    <2>3. /\ byFingerprint' = [f \in Fingerprints |-> NoRequest]
          /\ resolved' = [r \in Requests |-> "none"]
      BY <1>10 DEF Restart
    <2> QED BY <2>1, <2>2, <2>3
            DEF Books, PendingIndexed, BufferFaithful, NobodyStranded, Created, Fingerprint
  <1>11. CASE UNCHANGED vars
    BY <1>11, BooksStutter DEF vars
  <1> QED
    BY <1>1, <1>2, <1>3, <1>4, <1>5, <1>6, <1>7, <1>8, <1>9, <1>10, <1>11
    DEF Next, Call, Human

----------------------------------------------------------------------------
(* Decisions *)

\* A step that decides a request decides one that was pending.
LEMMA DecisionStep ==
    ASSUME TypeOK, Books, [Next]_vars, NEW r \in Requests, resolution[r] # "none"
    PROVE  resolution'[r] = resolution[r]
  <1>1. \A q \in byId : q # r
    BY DEF Books, PendingIndexed
  <1>2. ASSUME NEW q \in Requests, NEW d \in Verdicts,
               DecideOnce(q, d) \/ \E o \in Options : Decide(q, d, o)
        PROVE  resolution'[r] = resolution[r]
    BY <1>1, <1>2 DEF DecideOnce, Decide, Settle, TypeOK
  <1>3. ASSUME NEW q \in Requests, NEW d \in Verdicts, NEW o \in Options, DecideSaveFails(q, d, o)
        PROVE  resolution'[r] = resolution[r]
    BY <1>3 DEF DecideSaveFails
  <1>4. ASSUME NEW c \in Calls, Call(c) \/ Interrupt(c) PROVE resolution'[r] = resolution[r]
    BY <1>4 DEF Call, Interrupt, EvaluateByRule, EvaluateAsk, EvaluateJoin, BeginWait,
                EndWait, InvokeDelegate
  <1>5. ASSUME NEW x \in issued, Revoke(x) PROVE resolution'[r] = resolution[r]
    BY <1>5 DEF Revoke
  <1>6. ASSUME NEW p \in Pollers, Poll(p) \/ PollAgain(p) \/ PollReturns(p)
        PROVE  resolution'[r] = resolution[r]
    BY <1>6 DEF Poll, PollAgain, PollReturns
  <1>7. CASE Restart
    BY <1>7 DEF Restart
  <1>8. CASE UNCHANGED vars
    BY <1>8 DEF vars
  <1> QED BY <1>2, <1>3, <1>4, <1>5, <1>6, <1>7, <1>8 DEF Next, Human

\* The call that created a request never changes, and rules once issued stay
\* in the record.
LEMMA RecordGrows ==
    ASSUME TypeOK, [Next]_vars
    PROVE  /\ \A r \in Requests : asker[r] # NoCall => asker'[r] = asker[r]
           /\ issued \subseteq issued'
  <1>1. ASSUME NEW c \in Calls, Call(c) \/ Interrupt(c)
        PROVE  /\ \A r \in Requests : asker[r] # NoCall => asker'[r] = asker[r]
               /\ issued' = issued
    BY <1>1 DEF Call, Interrupt, EvaluateByRule, EvaluateAsk, EvaluateJoin, BeginWait,
                EndWait, InvokeDelegate, TypeOK
  <1>2. ASSUME Human PROVE asker' = asker /\ issued \subseteq issued'
    BY <1>2 DEF Human, DecideOnce, Decide, DecideSaveFails, Revoke, Remember
  <1>3. ASSUME NEW p \in Pollers, Poll(p) \/ PollAgain(p) \/ PollReturns(p)
        PROVE  asker' = asker /\ issued' = issued
    BY <1>3 DEF Poll, PollAgain, PollReturns
  <1>4. CASE Restart
    BY <1>4 DEF Restart
  <1>5. CASE UNCHANGED vars
    BY <1>5 DEF vars
  <1> QED BY <1>1, <1>2, <1>3, <1>4, <1>5 DEF Next

\* What authorised a call goes on authorising it.
LEMMA AllowedByStable ==
    ASSUME TypeOK, Books, [Next]_vars, NEW c \in Calls, NEW d \in Verdicts, AllowedBy(c, d),
           basis'[c] = basis[c], ticket'[c] = ticket[c]
    PROVE  AllowedBy(c, d)'
  <1>1. d # "none"
    BY DEF Verdicts
  <1>2. CASE /\ basis[c] \in issued
             /\ basis[c].decision = d
             /\ RuleMatches(basis[c], Invocation[c])
    BY <1>2, RecordGrows DEF AllowedBy, RuleMatches
  <1>3. CASE /\ ticket[c] # NoRequest
             /\ resolution[ticket[c]] = d
             /\ Fingerprint(asker[ticket[c]]) = Fingerprint(c)
    <2>1. ticket[c] \in Requests
      BY <1>3 DEF TypeOK
    <2>2. resolution'[ticket[c]] = d
      BY <1>1, <1>3, <2>1, DecisionStep
    <2>3. asker[ticket[c]] # NoCall
      BY <1>3 DEF Books, NobodyStranded, Created
    <2>4. asker'[ticket[c]] = asker[ticket[c]]
      BY <2>1, <2>3, RecordGrows
    <2> QED BY <1>3, <2>2, <2>4 DEF AllowedBy, Fingerprint
  <1> QED BY <1>2, <1>3 DEF AllowedBy

\* The calls a step does not move stay authorised.
LEMMA AuthorisedStutter ==
    ASSUME TypeOK, Books, Authorised, [Next]_vars, NEW c \in Calls,
           basis'[c] = basis[c], ticket'[c] = ticket[c],
           pc'[c] \in {"allowed", "ran"} => pc[c] \in {"allowed", "ran"},
           pc'[c] = "denied" => pc[c] = "denied"
    PROVE  /\ pc'[c] \in {"allowed", "ran"} => AllowedBy(c, "allow")'
           /\ pc'[c] = "denied" => AllowedBy(c, "deny")'
  BY AllowedByStable DEF Authorised, Verdicts

LEMMA AuthorisedInit == Init => Authorised
  BY DEF Init, Authorised

\* Every step keeps every verdict authorised.
LEMMA AuthorisedNext == TypeOK /\ Books /\ Authorised /\ [Next]_vars => Authorised'
  <1> SUFFICES ASSUME TypeOK, Books, Authorised, [Next]_vars, NEW e \in Calls
               PROVE  /\ pc'[e] \in {"allowed", "ran"} => AllowedBy(e, "allow")'
                      /\ pc'[e] = "denied" => AllowedBy(e, "deny")'
    BY DEF Authorised
  <1>1. ASSUME NEW c \in Calls, EvaluateByRule(c)
        PROVE  /\ pc'[e] \in {"allowed", "ran"} => AllowedBy(e, "allow")'
               /\ pc'[e] = "denied" => AllowedBy(e, "deny")'
    <2>1. CASE e # c
      BY <1>1, <2>1, AuthorisedStutter DEF EvaluateByRule, Goto, TypeOK
    <2>2. CASE e = c
      <3>1. PICK x \in Matching(Invocation[c]) :
                /\ basis' = [basis EXCEPT ![c] = x]
                /\ pc' = [pc EXCEPT ![c] = Outcome(x.decision)]
        BY <1>1 DEF EvaluateByRule, Goto
      <3>2. x \in issued /\ RuleMatches(x, Invocation[c])
        BY <3>1 DEF Matching, Applicable, TypeOK, Buckets
      <3>3. x.decision \in Verdicts
        BY <3>2 DEF TypeOK, IsRule
      <3>4. basis'[c] = x /\ issued' = issued /\ pc'[c] = Outcome(x.decision)
        BY <1>1, <3>1 DEF EvaluateByRule, TypeOK
      <3>5. AllowedBy(c, x.decision)'
        BY <3>2, <3>4 DEF AllowedBy, RuleMatches
      <3> QED BY <2>2, <3>3, <3>4, <3>5 DEF Outcome, Verdicts
    <2> QED BY <2>1, <2>2
  <1>2. ASSUME NEW c \in Calls, EvaluateAsk(c) \/ EvaluateJoin(c)
        PROVE  /\ pc'[e] \in {"allowed", "ran"} => AllowedBy(e, "allow")'
               /\ pc'[e] = "denied" => AllowedBy(e, "deny")'
    <2>1. CASE e # c
      BY <1>2, <2>1, AuthorisedStutter DEF EvaluateAsk, EvaluateJoin, Goto, TypeOK
    <2>2. CASE e = c
      BY <1>2, <2>2 DEF EvaluateAsk, EvaluateJoin, Goto, TypeOK
    <2> QED BY <2>1, <2>2
  <1>3. ASSUME NEW c \in Calls, BeginWait(c) \/ EndWait(c)
        PROVE  /\ pc'[e] \in {"allowed", "ran"} => AllowedBy(e, "allow")'
               /\ pc'[e] = "denied" => AllowedBy(e, "deny")'
    <2>1. CASE e # c
      BY <1>3, <2>1, AuthorisedStutter DEF BeginWait, EndWait, Goto, TypeOK
    <2>2. CASE e = c
      <3> DEFINE r == ticket[c]
      <3>1. r \in Requests /\ Fingerprint(asker[r]) = Fingerprint(c)
        BY <1>3 DEF BeginWait, EndWait, Books, NobodyStranded, TypeOK, Asking
      <3>2. \/ pc'[c] \in {"waiting", "error"}
            \/ resolution[r] # "none" /\ pc'[c] = Outcome(resolution[r])
        BY <1>3, <3>1 DEF BeginWait, EndWait, Goto, Books, BufferFaithful, TypeOK
      <3>3. resolution' = resolution /\ asker' = asker /\ ticket' = ticket
        BY <1>3 DEF BeginWait, EndWait
      <3>4. \A d \in Verdicts : resolution[r] = d => AllowedBy(c, d)'
        BY <3>1, <3>3, SentinelAssumption DEF AllowedBy, Fingerprint
      <3>5. resolution[r] \in Verdicts \cup {"none"}
        BY <3>1 DEF TypeOK
      <3> QED BY <2>2, <3>2, <3>4, <3>5 DEF Outcome, Verdicts
    <2> QED BY <2>1, <2>2
  <1>4. ASSUME NEW c \in Calls, InvokeDelegate(c) \/ Interrupt(c)
        PROVE  /\ pc'[e] \in {"allowed", "ran"} => AllowedBy(e, "allow")'
               /\ pc'[e] = "denied" => AllowedBy(e, "deny")'
    BY <1>4, AuthorisedStutter DEF InvokeDelegate, Interrupt, Goto, TypeOK
  <1>5. ASSUME Human
        PROVE  /\ pc'[e] \in {"allowed", "ran"} => AllowedBy(e, "allow")'
               /\ pc'[e] = "denied" => AllowedBy(e, "deny")'
    BY <1>5, AuthorisedStutter DEF Human, DecideOnce, Decide, DecideSaveFails, Revoke
  <1>6. ASSUME NEW p \in Pollers, Poll(p) \/ PollAgain(p) \/ PollReturns(p)
        PROVE  /\ pc'[e] \in {"allowed", "ran"} => AllowedBy(e, "allow")'
               /\ pc'[e] = "denied" => AllowedBy(e, "deny")'
    BY <1>6, AuthorisedStutter DEF Poll, PollAgain, PollReturns
  <1>7. CASE Restart
    BY <1>7, AuthorisedStutter DEF Restart
  <1>8. CASE UNCHANGED vars
    BY <1>8, AuthorisedStutter DEF vars
  <1> QED BY <1>1, <1>2, <1>3, <1>4, <1>5, <1>6, <1>7, <1>8 DEF Next, Call

----------------------------------------------------------------------------
(* The theorems *)

\* The inductive invariant holds in every reachable state.
THEOREM Invariance == Spec => []IInv
  <1>1. Init => IInv
    BY TypeInit, BooksInit, AuthorisedInit DEF IInv, Books
  <1>2. IInv /\ [Next]_vars => IInv'
    BY TypeNext, BooksNext, AuthorisedNext DEF IInv, Books
  <1> QED BY <1>1, <1>2, PTL DEF Spec

\* Every variable keeps its shape: type correctness of the manager.
THEOREM TypeCorrect == Spec => []TypeOK
  <1>1. IInv => TypeOK
    BY DEF IInv
  <1> QED BY <1>1, Invariance, PTL

\* The books on requests are in order, whatever calls and humans do at once.
THEOREM BooksInOrder == Spec => []Books
  <1>1. IInv => Books
    BY DEF IInv, Books
  <1> QED BY <1>1, Invariance, PTL

\* The two pending indexes of the manager always agree.
THEOREM IndexesAgree == Spec => []PendingIndexed
  <1>1. IInv => PendingIndexed
    BY DEF IInv
  <1> QED BY <1>1, Invariance, PTL

\* A decision waiting in the buffer is the one given for that request.
THEOREM BufferIsFaithful == Spec => []BufferFaithful
  <1>1. IInv => BufferFaithful
    BY DEF IInv
  <1> QED BY <1>1, Invariance, PTL

\* No call waits on a request that can no longer be answered.
THEOREM NobodyIsStranded == Spec => []NobodyStranded
  <1>1. IInv => NobodyStranded
    BY DEF IInv
  <1> QED BY <1>1, Invariance, PTL

\* The tool runs only for a call that an allow rule or a human let through.
THEOREM OnlyAuthorisedCallsRun == Spec => []Authorised
  <1>1. IInv => Authorised
    BY DEF IInv
  <1> QED BY <1>1, Invariance, PTL

\* A decision, once given, is never given again or changed.
THEOREM DecisionsAreFinal == Spec => DecisionIsFinal
  <1>1. IInv /\ [Next]_vars =>
          [\A r \in Requests : resolution[r] # "none" => resolution'[r] = resolution[r]]_vars
    BY DecisionStep DEF IInv, Books
  <1> QED BY <1>1, Invariance, PTL DEF Spec, DecisionIsFinal

----------------------------------------------------------------------------
(* Rules in memory and on disk *)

\* What the actions that touch no rule leave alone.
LEMMA FilesStutter == MemoryMatchesFiles /\ UNCHANGED <<rules, files, dirty>> => MemoryMatchesFiles'
  BY DEF MemoryMatchesFiles

LEMMA FilesInit == Init => MemoryMatchesFiles
  BY DEF Init, MemoryMatchesFiles, Buckets, Persisted

\* A save that succeeds or fails keeps memory and files together, if only the
\* list of its scope gained rules, and lists lost only rules of other scopes.
LEMMA SaveMatches ==
    ASSUME TypeOK, MemoryMatchesFiles, NEW scope \in Buckets, Save(scope) \/ SaveFails(scope),
           \A s \in Persisted : s # scope =>
               /\ rules'[s] \subseteq rules[s]
               /\ \A x \in rules[s] \ rules'[s] : x.scope # s
    PROVE  MemoryMatchesFiles'
  <1>1. SUFFICES ASSUME NEW s \in Persisted \ dirty'
                 PROVE  rules'[s] \subseteq files'[s] /\ \A x \in files'[s] \ rules'[s] : x.scope # s
    BY DEF MemoryMatchesFiles
  <1>2. CASE s = scope
    BY <1>1, <1>2 DEF Save, SaveFails, TypeOK
  <1>3. CASE s # scope
    <2>1. s \notin dirty /\ files'[s] = files[s]
      BY <1>1, <1>3 DEF Save, SaveFails, TypeOK
    <2>2. rules[s] \subseteq files[s] /\ \A x \in files[s] \ rules[s] : x.scope # s
      BY <2>1 DEF MemoryMatchesFiles
    <2> QED BY <1>3, <2>1, <2>2
  <1> QED BY <1>2, <1>3

\* Every step keeps rules and files together.
LEMMA FilesNext == TypeOK /\ MemoryMatchesFiles /\ [Next]_vars => MemoryMatchesFiles'
  <1> SUFFICES ASSUME TypeOK, MemoryMatchesFiles, [Next]_vars PROVE MemoryMatchesFiles'
    OBVIOUS
  <1>0. Persisted \subseteq Buckets
    BY DEF Persisted, Buckets
  <1>1. ASSUME NEW c \in Calls, EvaluateByRule(c) PROVE MemoryMatchesFiles'
    <2>1. PICK x : rules' = IF x.scope = "once" THEN Without(rules, x) ELSE rules
      BY <1>1 DEF EvaluateByRule
    <2>2. ASSUME NEW s \in Persisted
          PROVE  rules'[s] \subseteq rules[s] /\ \A y \in rules[s] \ rules'[s] : y.scope = "once"
      BY <1>0, <2>1, WithoutOne
    <2>3. UNCHANGED <<files, dirty>>
      BY <1>1 DEF EvaluateByRule
    <2>4. \A s \in Persisted : s # "once"
      BY DEF Persisted
    <2> QED BY <2>2, <2>3, <2>4 DEF MemoryMatchesFiles
  <1>2. ASSUME NEW c \in Calls,
               \/ EvaluateAsk(c) \/ EvaluateJoin(c) \/ BeginWait(c) \/ EndWait(c)
               \/ InvokeDelegate(c) \/ Interrupt(c)
        PROVE  MemoryMatchesFiles'
    BY <1>2, FilesStutter DEF EvaluateAsk, EvaluateJoin, BeginWait, EndWait, InvokeDelegate, Interrupt
  <1>3. ASSUME NEW r \in Requests, NEW d \in Verdicts, DecideOnce(r, d) PROVE MemoryMatchesFiles'
    BY <1>3, FilesStutter DEF DecideOnce
  <1>4. ASSUME NEW r \in Requests, NEW d \in Verdicts, NEW o \in Options,
               Decide(r, d, o) \/ DecideSaveFails(r, d, o)
        PROVE  MemoryMatchesFiles'
    <2>1. PICK id \in RuleIds : Remember(RuleFor(id, r, d, o))
      BY <1>4 DEF Decide, DecideSaveFails
    <2>2. Save(o.scope) \/ SaveFails(o.scope)
      BY <1>4 DEF Decide, DecideSaveFails
    <2>3. o.scope \in Buckets /\ RuleFor(id, r, d, o).scope = o.scope
      BY RuleAssumption DEF RuleFor
    <2>4. \A s \in Persisted : s # o.scope => rules'[s] = rules[s]
      BY <1>0, <2>1, <2>3 DEF Remember, TypeOK
    <2> QED BY <2>2, <2>3, <2>4, SaveMatches
  <1>5. ASSUME NEW x \in issued, Revoke(x) PROVE MemoryMatchesFiles'
    <2>1. x.scope \in Buckets
      BY DEF TypeOK, IsRule
    <2>2. ASSUME NEW s \in Persisted
          PROVE  rules'[s] \subseteq rules[s] /\ \A y \in rules[s] \ rules'[s] : y = x
      BY <1>0, <1>5, WithoutOne DEF Revoke
    <2>3. Save(x.scope) \/ SaveFails(x.scope)
      BY <1>5 DEF Revoke
    <2> QED BY <2>1, <2>2, <2>3, SaveMatches
  <1>6. ASSUME NEW p \in Pollers, Poll(p) \/ PollAgain(p) \/ PollReturns(p) PROVE MemoryMatchesFiles'
    BY <1>6, FilesStutter DEF Poll, PollAgain, PollReturns
  <1>7. CASE Restart
    <2>1. \A s \in Persisted : rules'[s] = files'[s]
      BY <1>0, <1>7 DEF Restart
    <2> QED BY <2>1 DEF MemoryMatchesFiles
  <1>8. CASE UNCHANGED vars
    BY <1>8, FilesStutter DEF vars
  <1> QED
    BY <1>1, <1>2, <1>3, <1>4, <1>5, <1>6, <1>7, <1>8 DEF Next, Call, Human

\* Wherever no save failed, a file holds the rules of its list in memory, and
\* of its own scope no others: whatever scopes the rules of hand-written files
\* have, what a human granted or denied is what the next start will load, and
\* what was revoked comes back only if its scope names another file
\* (_persist_rules_for_scope, revoke, __init__).
THEOREM FilesKeepRules == Spec => []MemoryMatchesFiles
  <1>1. Init => MemoryMatchesFiles
    BY FilesInit
  <1>2. TypeOK /\ MemoryMatchesFiles /\ [Next]_vars => MemoryMatchesFiles'
    BY FilesNext
  <1> QED BY <1>1, <1>2, TypeCorrect, PTL DEF Spec

----------------------------------------------------------------------------
(* Pollers *)

\* A step that makes no request pending, changes none that is and puts no
\* poller to sleep wakes none in vain.
LEMMA PollersStutter ==
    ASSUME NoLostWakeup, byId' \subseteq byId, UNCHANGED asker,
           \A r \in byId' : sessions'[r] = sessions[r],
           \A p \in Pollers : poll'[p].at = "waiting" =>
                                  poll[p].at = "waiting" /\ poll'[p].filter = poll[p].filter
    PROVE  NoLostWakeup'
  BY DEF NoLostWakeup, Answerable, Concerns

\* After notify_all nobody sleeps.
LEMMA NotifiedAwake == TypeOK /\ poll' = Notified => NoLostWakeup'
  <1> SUFFICES ASSUME TypeOK, poll' = Notified, NEW p \in Pollers PROVE poll'[p].at # "waiting"
    BY DEF NoLostWakeup
  <1>1. poll[p] \in [at: {"idle", "waiting", "notified", "served"}, filter: Sessions \cup {NoSession}]
    BY DEF TypeOK
  <1> QED BY <1>1 DEF Notified

\* Every step wakes whoever it concerns.
LEMMA PollersNext == TypeOK /\ Books /\ NoLostWakeup /\ [Next]_vars => NoLostWakeup'
  <1> SUFFICES ASSUME TypeOK, Books, NoLostWakeup, [Next]_vars PROVE NoLostWakeup'
    OBVIOUS
  <1>1. ASSUME NEW c \in Calls,
               EvaluateByRule(c) \/ BeginWait(c) \/ EndWait(c) \/ InvokeDelegate(c) \/ Interrupt(c)
        PROVE  NoLostWakeup'
    BY <1>1, PollersStutter DEF EvaluateByRule, BeginWait, EndWait, InvokeDelegate, Interrupt
  <1>2. ASSUME NEW c \in Calls, EvaluateAsk(c) PROVE NoLostWakeup'
    BY <1>2, NotifiedAwake DEF EvaluateAsk
  <1>3. ASSUME NEW c \in Calls, EvaluateJoin(c) PROVE NoLostWakeup'
    <2> DEFINE r == byFingerprint[Fingerprint(c)]
               added == {Invocation[c].session} \ ({NoSession} \cup sessions[r])
    <2>1. CASE added # {}
      BY <1>3, <2>1, NotifiedAwake DEF EvaluateJoin
    <2>2. CASE added = {}
      <3>1. sessions' = [sessions EXCEPT ![r] = @ \cup added]
        BY <1>3 DEF EvaluateJoin
      <3>2. \A q \in Requests : sessions'[q] = sessions[q]
        BY <2>2, <3>1 DEF TypeOK
      <3>3. UNCHANGED <<byId, asker, poll>>
        BY <1>3, <2>2 DEF EvaluateJoin
      <3> QED BY <3>2, <3>3, PollersStutter DEF TypeOK
    <2> QED BY <2>1, <2>2
  <1>4. ASSUME Human PROVE NoLostWakeup'
    <2>1. CASE poll' = Notified
      BY <2>1, NotifiedAwake
    <2>2. CASE UNCHANGED <<byId, asker, sessions, poll>>
      BY <2>2, PollersStutter
    <2> QED BY <1>4, <2>1, <2>2 DEF Human, DecideOnce, Decide, DecideSaveFails, Settle, Revoke
  <1>5. ASSUME NEW p \in Pollers, Poll(p) \/ PollAgain(p) \/ PollReturns(p) PROVE NoLostWakeup'
    <2>1. UNCHANGED <<byId, asker, sessions>>
      BY <1>5 DEF Poll, PollAgain, PollReturns
    <2>2. \A s : Answerable(s)' = Answerable(s)
      BY <2>1 DEF Answerable, Concerns
    <2>3. ASSUME NEW q \in Pollers, poll'[q].at = "waiting" PROVE ~Answerable(poll'[q].filter)
      <3>1. poll[q] \in [at: {"idle", "waiting", "notified", "served"}, filter: Sessions \cup {NoSession}]
        BY DEF TypeOK
      <3>2. CASE q # p
        <4>1. poll'[q] = poll[q]
          BY <1>5, <3>2 DEF Poll, PollAgain, PollReturns, TypeOK
        <4> QED BY <2>3, <4>1 DEF NoLostWakeup
      <3>3. CASE q = p
        BY <1>5, <2>3, <3>1, <3>3 DEF Poll, PollAgain, PollReturns, TypeOK
      <3> QED BY <3>2, <3>3
    <2> QED BY <2>2, <2>3 DEF NoLostWakeup
  <1>6. CASE Restart
    <2>1. byId' = {}
      BY <1>6 DEF Restart
    <2> QED BY <2>1 DEF NoLostWakeup, Answerable
  <1>7. CASE UNCHANGED vars
    BY <1>7, PollersStutter DEF vars
  <1> QED BY <1>1, <1>2, <1>3, <1>4, <1>5, <1>6, <1>7 DEF Next, Call

\* No client sleeps in poll_pending over a request that concerns it, with or
\* without a session filter (_pending_state_changed.notify_all).
THEOREM PollersWake == Spec => []NoLostWakeup
  <1>1. Init => NoLostWakeup
    BY DEF Init, NoLostWakeup
  <1>2. TypeOK /\ Books /\ NoLostWakeup /\ [Next]_vars => NoLostWakeup'
    BY PollersNext
  <1> QED BY <1>1, <1>2, TypeCorrect, BooksInOrder, PTL DEF Spec

----------------------------------------------------------------------------
(* Once rules *)

Users(x) == {c \in Calls : basis[c] = x}
Holders(x) == {b \in Buckets : x \in rules[b]}
Copies(x) == {s \in Persisted : x \in SavedRules[s]}

\* A once rule is only where a hand-written file put it.
OnceSaved ==
    \A x : x.scope = "once" =>
        /\ \A b \in Buckets : x \in rules[b] => b \in Copies(x)
        /\ \A s \in Persisted : x \in files[s] => s \in Copies(x)

LEMMA BucketsFinite == IsFiniteSet(Buckets) /\ IsFiniteSet(Persisted)
  <1>1. Buckets = {"once"} \cup {"session"} \cup {"workspace"} \cup {"user"}
    BY DEF Buckets
  <1>2. Persisted = {"workspace"} \cup {"user"}
    BY DEF Persisted
  <1> QED BY <1>1, <1>2, FS_Singleton, FS_Union

\* The numbers the account is made of.
LEMMA OnceNumbers ==
    ASSUME IsFiniteSet(Calls), NEW x
    PROVE  /\ IsFiniteSet(Users(x)) /\ Cardinality(Users(x)) \in Nat
           /\ IsFiniteSet(Holders(x)) /\ Cardinality(Holders(x)) \in Nat
           /\ IsFiniteSet(Copies(x)) /\ Cardinality(Copies(x)) \in Nat
  BY BucketsFinite, FS_Subset, FS_CardinalityType DEF Users, Holders, Copies

\* Neither the rules a step drops nor those a file is left without bring a once
\* rule anywhere new.
LEMMA OnceSavedShrinks ==
    ASSUME TypeOK, OnceSaved,
           \A b \in Buckets : \A x \in rules'[b] : x.scope = "once" => x \in rules[b],
           \A s \in Persisted : files'[s] \in {files[s], rules'[s], {}}
    PROVE  OnceSaved'
  <1>1. Persisted \subseteq Buckets
    BY DEF Persisted, Buckets
  <1>2. ASSUME NEW x, x.scope = "once", NEW b \in Buckets, x \in rules'[b] PROVE b \in Copies(x)
    BY <1>2 DEF OnceSaved
  <1>3. ASSUME NEW x, x.scope = "once", NEW s \in Persisted, x \in files'[s] PROVE s \in Copies(x)
    BY <1>1, <1>2, <1>3 DEF OnceSaved
  <1>4. \A x : Copies(x)' = Copies(x)
    BY DEF Copies
  <1> QED BY <1>2, <1>3, <1>4 DEF OnceSaved

\* What an action that spends nothing leaves alone: no call leans on a once rule
\* that did not, and none comes back.
LEMMA OnceStutter ==
    ASSUME IsFiniteSet(Calls), OnceSpentOnce, restarts \in Nat,
           \A x \in issued' : x.scope = "once" => x \in issued,
           \A x \in issued : x.scope = "once" =>
               Users(x)' \subseteq Users(x) /\ Holders(x)' \subseteq Holders(x),
           UNCHANGED restarts
    PROVE  OnceSpentOnce'
  <1> SUFFICES ASSUME NEW x \in issued', x.scope = "once"
               PROVE  Cardinality(Users(x)') + Cardinality(Holders(x)')
                          <= (restarts + 1) * Cardinality(Copies(x))
    BY DEF OnceSpentOnce, Users, Holders, Copies
  <1>1. Cardinality(Users(x)) + Cardinality(Holders(x)) <= (restarts + 1) * Cardinality(Copies(x))
    BY DEF OnceSpentOnce, Users, Holders, Copies
  <1>2. /\ Cardinality(Users(x)') <= Cardinality(Users(x)) /\ Cardinality(Users(x)') \in Nat
        /\ Cardinality(Holders(x)') <= Cardinality(Holders(x)) /\ Cardinality(Holders(x)') \in Nat
    BY OnceNumbers, FS_Subset, FS_CardinalityType
  <1>3. (restarts + 1) * Cardinality(Copies(x)) \in Nat
    BY OnceNumbers
  <1> QED BY <1>1, <1>2, <1>3, OnceNumbers

\* Every step keeps the account of once rules.
LEMMA OnceNext ==
    IsFiniteSet(Calls) /\ TypeOK /\ OnceSaved /\ OnceSpentOnce /\ [Next]_vars
        => OnceSaved' /\ OnceSpentOnce'
  <1> SUFFICES ASSUME IsFiniteSet(Calls), TypeOK, OnceSaved, OnceSpentOnce, [Next]_vars
               PROVE  OnceSaved' /\ OnceSpentOnce'
    OBVIOUS
  <1>0. restarts \in Nat /\ Persisted \subseteq Buckets
    BY BoundAssumption DEF TypeOK, Persisted, Buckets
  <1>1. ASSUME NEW c \in Calls, EvaluateByRule(c) PROVE OnceSaved' /\ OnceSpentOnce'
    <2>1. PICK y \in Matching(Invocation[c]) :
              /\ rules' = IF y.scope = "once" THEN Without(rules, y) ELSE rules
              /\ basis' = [basis EXCEPT ![c] = y]
      BY <1>1 DEF EvaluateByRule
    <2>2. \E b \in Buckets : y \in rules[b]
      BY <2>1 DEF Matching, Applicable, Buckets
    <2>3. UNCHANGED <<issued, restarts, files>>
      BY <1>1 DEF EvaluateByRule
    <2>4. \A b \in Buckets : rules'[b] \subseteq rules[b]
      BY <2>1, WithoutOne
    <2>5. OnceSaved'
      BY <2>3, <2>4, OnceSavedShrinks
    <2>6. SUFFICES ASSUME NEW x \in issued, x.scope = "once"
                   PROVE  Cardinality(Users(x)') + Cardinality(Holders(x)')
                              <= (restarts + 1) * Cardinality(Copies(x))
      BY <2>3, <2>5 DEF OnceSpentOnce, Users, Holders, Copies
    <2>7. Cardinality(Users(x)) + Cardinality(Holders(x)) <= (restarts + 1) * Cardinality(Copies(x))
      BY <2>6 DEF OnceSpentOnce, Users, Holders, Copies
    <2>8. (restarts + 1) * Cardinality(Copies(x)) \in Nat
      BY <1>0, OnceNumbers
    <2>9. Holders(x)' \subseteq Holders(x)
      BY <2>4 DEF Holders
    <2>10. CASE x = y
      <3>1. rules' = Without(rules, x)
        BY <2>1, <2>6, <2>10
      <3>2. PICK b \in Buckets : x \in rules[b] /\ x \notin rules'[b]
        BY <2>2, <2>10, <3>1, WithoutFirst
      <3>3. b \in Holders(x) /\ Holders(x)' \subseteq Holders(x) \ {b}
        BY <2>9, <3>2 DEF Holders
      <3>4. /\ IsFiniteSet(Holders(x) \ {b})
            /\ Cardinality(Holders(x) \ {b}) = Cardinality(Holders(x)) - 1
        BY <3>3, OnceNumbers, FS_RemoveElement
      <3>5. Cardinality(Holders(x)') <= Cardinality(Holders(x)) - 1 /\ Cardinality(Holders(x)') \in Nat
        BY <3>3, <3>4, FS_Subset, FS_CardinalityType
      <3>6. Users(x)' \subseteq Users(x) \cup {c}
        BY <2>1 DEF Users, TypeOK
      <3>7. /\ IsFiniteSet(Users(x) \cup {c})
            /\ Cardinality(Users(x) \cup {c}) \in {Cardinality(Users(x)), Cardinality(Users(x)) + 1}
        BY OnceNumbers, FS_AddElement
      <3>8. Cardinality(Users(x)') <= Cardinality(Users(x)) + 1 /\ Cardinality(Users(x)') \in Nat
        BY <3>6, <3>7, OnceNumbers, FS_Subset, FS_CardinalityType
      <3> QED BY <2>7, <2>8, <3>5, <3>8, OnceNumbers
    <2>11. CASE x # y
      <3>1. Users(x)' \subseteq Users(x)
        BY <2>1, <2>11 DEF Users, TypeOK
      <3>2. /\ Cardinality(Users(x)') <= Cardinality(Users(x)) /\ Cardinality(Users(x)') \in Nat
            /\ Cardinality(Holders(x)') <= Cardinality(Holders(x)) /\ Cardinality(Holders(x)') \in Nat
        BY <2>9, <3>1, OnceNumbers, FS_Subset, FS_CardinalityType
      <3> QED BY <2>7, <2>8, <3>2, OnceNumbers
    <2> QED BY <2>10, <2>11
  <1>2. ASSUME UNCHANGED <<rules, files, basis, issued, restarts>> PROVE OnceSaved' /\ OnceSpentOnce'
    BY <1>0, <1>2, OnceStutter, OnceSavedShrinks DEF Users, Holders
  <1>3. ASSUME NEW c \in Calls,
               \/ EvaluateAsk(c) \/ EvaluateJoin(c) \/ BeginWait(c) \/ EndWait(c)
               \/ InvokeDelegate(c) \/ Interrupt(c)
        PROVE  OnceSaved' /\ OnceSpentOnce'
    BY <1>2, <1>3 DEF EvaluateAsk, EvaluateJoin, BeginWait, EndWait, InvokeDelegate, Interrupt
  <1>4. ASSUME NEW r \in Requests, NEW d \in Verdicts, NEW o \in Options,
               Decide(r, d, o) \/ DecideSaveFails(r, d, o)
        PROVE  OnceSaved' /\ OnceSpentOnce'
    <2>1. PICK id \in RuleIds : Remember(RuleFor(id, r, d, o))
      BY <1>4 DEF Decide, DecideSaveFails
    <2> DEFINE y == RuleFor(id, r, d, o)
    <2>2. y.scope = o.scope /\ o.scope \in Buckets \ {"once"}
      BY RuleAssumption DEF RuleFor
    <2>3. issued' = issued \cup {y} /\ \A b \in Buckets : \A x \in rules'[b] : x \in rules[b] \/ x = y
      BY <2>1, <2>2 DEF Remember, TypeOK
    <2>4. UNCHANGED <<basis, restarts>>
      BY <1>4 DEF Decide, DecideSaveFails
    <2>5. \A x : x.scope = "once" => x # y
      BY <2>2
    <2>6. \A s \in Persisted : files'[s] \in {files[s], rules'[s], {}}
      BY <1>4 DEF Decide, DecideSaveFails, Save, SaveFails, TypeOK
    <2> HIDE DEF y
    <2>7. \A b \in Buckets : \A x \in rules'[b] : x.scope = "once" => x \in rules[b]
      BY <2>3, <2>5
    <2>8. OnceSaved'
      BY <2>6, <2>7, OnceSavedShrinks
    <2> QED BY <1>0, <2>3, <2>4, <2>5, <2>7, <2>8, OnceStutter DEF Users, Holders
  <1>5. ASSUME NEW x \in issued, Revoke(x) PROVE OnceSaved' /\ OnceSpentOnce'
    <2>1. \A b \in Buckets : rules'[b] \subseteq rules[b]
      BY <1>5, WithoutOne DEF Revoke
    <2>2. UNCHANGED <<basis, issued, restarts>>
      BY <1>5 DEF Revoke
    <2>3. \A s \in Persisted : files'[s] \in {files[s], rules'[s], {}}
      BY <1>5 DEF Revoke, Save, SaveFails, TypeOK
    <2>4. OnceSaved'
      BY <2>1, <2>3, OnceSavedShrinks
    <2> QED BY <1>0, <2>1, <2>2, <2>4, OnceStutter DEF Users, Holders
  <1>6. ASSUME NEW p \in Pollers, Poll(p) \/ PollAgain(p) \/ PollReturns(p)
        PROVE  OnceSaved' /\ OnceSpentOnce'
    BY <1>2, <1>6 DEF Poll, PollAgain, PollReturns
  <1>7. CASE Restart
    <2>1. UNCHANGED <<basis, issued, files>> /\ restarts' = restarts + 1
      BY <1>7 DEF Restart
    <2>2. \A b \in Buckets : rules'[b] = IF b \in Persisted THEN files[b] ELSE {}
      BY <1>7 DEF Restart
    <2>3. OnceSaved'
      <3>1. ASSUME NEW x, x.scope = "once", NEW b \in Buckets, x \in rules'[b] PROVE b \in Copies(x)
        BY <2>2, <3>1 DEF OnceSaved
      <3>2. \A x : Copies(x)' = Copies(x)
        BY DEF Copies
      <3> QED BY <2>1, <3>1, <3>2 DEF OnceSaved
    <2>4. SUFFICES ASSUME NEW x \in issued, x.scope = "once"
                   PROVE  Cardinality(Users(x)') + Cardinality(Holders(x)')
                              <= (restarts' + 1) * Cardinality(Copies(x))
      BY <2>1, <2>3 DEF OnceSpentOnce, Users, Holders, Copies
    <2>5. Cardinality(Users(x)) + Cardinality(Holders(x)) <= (restarts + 1) * Cardinality(Copies(x))
      BY <2>4 DEF OnceSpentOnce, Users, Holders, Copies
    <2>6. Users(x)' = Users(x)
      BY <2>1 DEF Users
    <2>7. Holders(x)' \subseteq Copies(x)
      BY <2>3, <2>4 DEF OnceSaved, Holders, Copies
    <2>8. Cardinality(Holders(x)') <= Cardinality(Copies(x)) /\ Cardinality(Holders(x)') \in Nat
      BY <2>7, OnceNumbers, FS_Subset, FS_CardinalityType
    <2>9. \A n, k \in Nat : (n + 1) * k \in Nat /\ (n + 1 + 1) * k = (n + 1) * k + k
      OBVIOUS
    <2>10. /\ (restarts + 1) * Cardinality(Copies(x)) \in Nat
           /\ (restarts' + 1) * Cardinality(Copies(x))
                  = (restarts + 1) * Cardinality(Copies(x)) + Cardinality(Copies(x))
      BY <1>0, <2>1, <2>9, OnceNumbers
    <2> QED BY <2>5, <2>6, <2>8, <2>10, OnceNumbers
  <1>8. CASE UNCHANGED vars
    BY <1>2, <1>8 DEF vars
  <1>9. ASSUME NEW r \in Requests, NEW d \in Verdicts, DecideOnce(r, d)
        PROVE  OnceSaved' /\ OnceSpentOnce'
    BY <1>2, <1>9 DEF DecideOnce
  <1> QED
    BY <1>1, <1>3, <1>4, <1>5, <1>6, <1>7, <1>8, <1>9 DEF Next, Call, Human

\* A once rule clears or refuses one call for each file that lists it and each
\* time a process has loaded the files, for any number of calls at once, if only
\* NoRule is no rule (evaluate).
THEOREM OnceRulesAreSpent ==
    ASSUME IsFiniteSet(Calls), NoRule \notin Saved
    PROVE  Spec => []OnceSpentOnce
  <1>1. Init => OnceSaved /\ OnceSpentOnce
    <2> SUFFICES ASSUME Init PROVE OnceSaved /\ OnceSpentOnce
      OBVIOUS
    <2>1. \A b \in Buckets : rules[b] = IF b \in Persisted THEN SavedRules[b] ELSE {}
      BY DEF Init
    <2>2. OnceSaved
      BY <2>1 DEF Init, OnceSaved, Copies
    <2>3. SUFFICES ASSUME NEW x \in issued
                   PROVE  Cardinality(Users(x)) + Cardinality(Holders(x))
                              <= (restarts + 1) * Cardinality(Copies(x))
      BY <2>2 DEF OnceSpentOnce, Users, Holders, Copies
    <2>4. x \in Saved
      BY <2>1 DEF Init, AllRules, Saved
    <2>5. Users(x) = {}
      BY <2>4 DEF Init, Users
    <2>6. Holders(x) = Copies(x)
      BY <2>1 DEF Holders, Copies, Buckets, Persisted
    <2>7. Cardinality(Users(x)) = 0 /\ restarts = 0
      BY <2>5, FS_EmptySet DEF Init
    <2> QED BY <2>6, <2>7, OnceNumbers
  <1>2. TypeOK /\ OnceSaved /\ OnceSpentOnce /\ [Next]_vars => OnceSaved' /\ OnceSpentOnce'
    BY OnceNext
  <1> QED BY <1>1, <1>2, TypeCorrect, PTL DEF Spec

----------------------------------------------------------------------------
(* The contract *)

Law == [allow |-> Covered("allow"), deny |-> Covered("deny")]
Phase == [c \in Calls |-> ContractPhase(c)]

\* Whatever the rules are, they make a law.
LEMMA LawType == Law \in Promise!Laws /\ Law' \in Promise!Laws
  BY DEF Law, Covered, Promise!Laws

\* What the rules say of a call is what the law says of it.
LEMMA LawSpeaks ==
    ASSUME TypeOK, NEW c \in Calls
    PROVE  /\ \A x \in Matching(Invocation[c]) :
                 IF x.decision = "deny" THEN c \in Law.deny
                 ELSE c \notin Law.deny /\ c \in Law.allow
           /\ Matching(Invocation[c]) = {} => c \notin Law.deny /\ c \notin Law.allow
  <1>1. \A x \in Applicable(Invocation[c]) : x.decision \in Verdicts
    BY DEF Applicable, TypeOK, IsRule, Buckets
  <1>2. c \in Law.deny <=> \E x \in Applicable(Invocation[c]) : x.decision = "deny"
    BY DEF Law, Covered
  <1>3. c \in Law.allow <=> \E x \in Applicable(Invocation[c]) : x.decision = "allow"
    BY DEF Law, Covered
  <1> QED BY <1>1, <1>2, <1>3 DEF Matching, Verdicts

\* A step that moves no call and decides no request moves no phase.
LEMMA PhaseStutter ==
    ASSUME UNCHANGED <<pc, ticket, resolution>>
    PROVE  Phase' = Phase
  BY DEF Phase, ContractPhase

\* A step that keeps the rules keeps the law.
LEMMA LawStutter ==
    ASSUME UNCHANGED rules
    PROVE  Law' = Law
  BY DEF Law, Covered, Applicable, RuleMatches

\* Spending a rule only takes away from the law.
LEMMA LawShrinks ==
    ASSUME TypeOK, NEW x, rules' = Without(rules, x)
    PROVE  Law'.allow \subseteq Law.allow /\ Law'.deny \subseteq Law.deny
  <1>1. \A b \in Buckets : rules'[b] \subseteq rules[b]
    BY WithoutOne
  <1>2. \A c \in Calls : Applicable(Invocation[c])' \subseteq Applicable(Invocation[c])
    BY <1>1 DEF Applicable, Buckets, RuleMatches
  <1> QED BY <1>2 DEF Law, Covered

\* The initial state of the manager is one of the contract.
LEMMA ContractInit == Init => Promise!CInit
  <1> SUFFICES ASSUME Init PROVE Promise!CInit
    OBVIOUS
  <1>1. Phase = [c \in Calls |-> "new"]
    BY DEF Init, Phase, ContractPhase, Asking
  <1> QED BY <1>1, LawType DEF Promise!CInit, Law, Phase

\* Calls give up, each leaving a phase it may leave; the law may change.
LEMMA GiveUpStep ==
    ASSUME NEW S \in SUBSET Calls,
           \A c \in S : Phase[c] \in {"asking", "cleared", "refused"} /\ Phase'[c] = "failed",
           \A c \in Calls \ S : Phase'[c] = Phase[c]
    PROVE  Promise!GiveUp(S)
  <1>1. Phase' = [c \in Calls |-> IF c \in S THEN "failed" ELSE Phase[c]]
    BY DEF Phase
  <1> QED BY <1>1, LawType DEF Promise!GiveUp, Law, Phase

\* Consulting the rules is consulting the law.
LEMMA ConsultStep ==
    ASSUME TypeOK, NEW c \in Calls,
           EvaluateByRule(c) \/ EvaluateAsk(c) \/ EvaluateJoin(c),
           NobodyStranded, NobodyStranded', PendingIndexed, PendingIndexed'
    PROVE  Promise!Consult(c)
  <1>1. Phase[c] = "new"
    BY DEF EvaluateByRule, EvaluateAsk, EvaluateJoin, Phase, ContractPhase, Asking
  <1>2. resolution' = resolution /\ \A e \in Calls \ {c} : pc'[e] = pc[e] /\ ticket'[e] = ticket[e]
    BY DEF EvaluateByRule, EvaluateAsk, EvaluateJoin, Goto, TypeOK
  <1>3. \A e \in Calls \ {c} : Phase'[e] = Phase[e]
    BY <1>2 DEF Phase, ContractPhase
  <1>4. CASE EvaluateByRule(c)
    <2>1. PICK x \in Matching(Invocation[c]) :
              /\ rules' = IF x.scope = "once" THEN Without(rules, x) ELSE rules
              /\ pc' = [pc EXCEPT ![c] = Outcome(x.decision)]
      BY <1>4 DEF EvaluateByRule, Goto
    <2>2. x.decision \in Verdicts
      BY DEF Matching, Applicable, TypeOK, IsRule, Buckets
    <2>3. Phase'[c] = IF x.decision = "deny" THEN "refused" ELSE "cleared"
      BY <2>1, <2>2 DEF Phase, ContractPhase, Asking, Outcome, Verdicts, TypeOK
    <2>4. Law'.allow \subseteq Law.allow /\ Law'.deny \subseteq Law.deny
      BY <2>1, LawShrinks, LawStutter
    <2>5. Phase' = [Phase EXCEPT ![c] = IF c \in Law.deny THEN "refused"
                                        ELSE IF c \in Law.allow THEN "cleared" ELSE "asking"]
      BY <1>3, <2>3, LawSpeaks DEF Phase
    <2> QED BY <1>1, <2>4, <2>5, LawType DEF Promise!Consult, Law, Phase
  <1>5. CASE EvaluateAsk(c) \/ EvaluateJoin(c)
    <2>1. Matching(Invocation[c]) = {} /\ rules' = rules /\ pc'[c] = "announcing"
      BY <1>5 DEF EvaluateAsk, EvaluateJoin, Goto, TypeOK
    <2>2. resolution[ticket'[c]] = "none"
      <3>1. CASE EvaluateAsk(c)
        BY <3>1 DEF EvaluateAsk, PendingIndexed, Created, TypeOK
      <3>2. CASE EvaluateJoin(c)
        <4>1. ticket'[c] = byFingerprint[Fingerprint(c)] /\ ticket'[c] # NoRequest
          BY <3>2 DEF EvaluateJoin, TypeOK
        <4> QED BY <4>1 DEF PendingIndexed, Fingerprints
      <3> QED BY <1>5, <3>1, <3>2
    <2>3. Phase'[c] = "asking"
      BY <1>2, <2>1, <2>2 DEF Phase, ContractPhase, Asking
    <2>4. Phase' = [Phase EXCEPT ![c] = IF c \in Law.deny THEN "refused"
                                        ELSE IF c \in Law.allow THEN "cleared" ELSE "asking"]
      BY <1>3, <2>1, <2>3, LawSpeaks DEF Phase
    <2>5. Law' = Law
      BY <2>1, LawStutter
    <2> QED BY <1>1, <2>4, <2>5, LawType DEF Promise!Consult, Law, Phase
  <1> QED BY <1>4, <1>5

\* Deciding a request answers the question of all calls that hold its ticket,
\* and of no other.
LEMMA AnswerStep ==
    ASSUME IInv, NEW r \in byId, NEW d \in Verdicts, Settle(r, d), UNCHANGED <<asker, pc, ticket>>
    PROVE  Promise!Answer(Fingerprint(asker[r]), IF d = "allow" THEN "cleared" ELSE "refused")
  <1> DEFINE v == IF d = "allow" THEN "cleared" ELSE "refused"
             q == Fingerprint(asker[r])
             Q == [c \in Calls |-> Fingerprint(c)]
  <1>1. r \in Requests /\ resolution[r] = "none" /\ byFingerprint[q] = r
    BY DEF IInv, TypeOK, PendingIndexed
  <1>2. resolution' = [resolution EXCEPT ![r] = d]
    BY DEF Settle
  <1>3. ASSUME NEW c \in Calls
        PROVE  Phase'[c] = IF Phase[c] = "asking" /\ Q[c] = q THEN v ELSE Phase[c]
    <2>1. CASE pc[c] \notin Asking
      BY <2>1 DEF Phase, ContractPhase, Asking
    <2>2. CASE pc[c] \in Asking
      <3>1. ticket[c] \in Requests /\ Fingerprint(asker[ticket[c]]) = Q[c]
        BY <2>2 DEF IInv, TypeOK, NobodyStranded
      <3>2. ticket[c] \in byId => byFingerprint[Q[c]] = ticket[c]
        BY <3>1 DEF IInv, PendingIndexed
      <3>3. ticket[c] \in byId \/ resolution[ticket[c]] # "none"
        BY <2>2 DEF IInv, NobodyStranded
      <3>4. CASE ticket[c] = r
        BY <1>1, <1>2, <2>2, <3>1, <3>4 DEF Phase, ContractPhase, Asking, Verdicts, IInv, TypeOK
      <3>5. CASE ticket[c] # r
        <4>1. resolution'[ticket[c]] = resolution[ticket[c]]
          BY <1>2, <3>1, <3>5 DEF IInv, TypeOK
        <4>2. Phase'[c] = Phase[c]
          BY <4>1 DEF Phase, ContractPhase
        <4>3. CASE Q[c] = q
          <5>1. resolution[ticket[c]] \in Verdicts
            BY <1>1, <3>1, <3>2, <3>3, <3>5, <4>3 DEF IInv, TypeOK
          <5>2. Phase[c] # "asking"
            BY <2>2, <5>1 DEF Phase, ContractPhase, Asking, Verdicts
          <5> QED BY <4>2, <5>2
        <4> QED BY <4>2, <4>3
      <3> QED BY <3>4, <3>5
    <2> QED BY <2>1, <2>2
  <1>4. Phase' = [c \in Calls |-> IF Phase[c] = "asking" /\ Q[c] = q THEN v ELSE Phase[c]]
    BY <1>3 DEF Phase
  <1> QED BY <1>4, LawType DEF Promise!Answer, Law, Phase

\* Every step of the manager, the gateway and the humans is a step of the
\* contract, or changes nothing the contract sees.
LEMMA ContractNext == IInv /\ IInv' /\ [Next]_vars => [Promise!CNext]_Promise!contract
  <1> SUFFICES ASSUME IInv, IInv', [Next]_vars PROVE Promise!CNext \/ UNCHANGED <<Law, Phase>>
    BY DEF Promise!contract, Law, Phase
  <1> USE DEF IInv
  <1>1. ASSUME NEW c \in Calls, EvaluateByRule(c) \/ EvaluateAsk(c) \/ EvaluateJoin(c)
        PROVE  Promise!CNext
    BY <1>1, ConsultStep DEF Promise!CNext
  <1>2. ASSUME NEW c \in Calls, BeginWait(c) \/ EndWait(c)
        PROVE  Promise!CNext \/ UNCHANGED <<Law, Phase>>
    <2>1. /\ Law' = Law
          /\ UNCHANGED <<resolution, ticket>>
          /\ pc[c] \in Asking
          /\ \A e \in Calls \ {c} : pc'[e] = pc[e]
      BY <1>2, LawStutter DEF BeginWait, EndWait, Goto, TypeOK, Asking
    <2>2. \A e \in Calls \ {c} : Phase'[e] = Phase[e]
      BY <2>1 DEF Phase, ContractPhase
    <2>3. Phase[c] \in {"asking", "cleared", "refused"}
      BY <2>1 DEF Phase, ContractPhase, Asking
    <2>4. \/ pc'[c] = "error"
          \/ pc'[c] = "waiting"
          \/ resolution[ticket[c]] # "none" /\ pc'[c] = Outcome(resolution[ticket[c]])
      BY <1>2 DEF BeginWait, EndWait, Goto, TypeOK, BufferFaithful, NobodyStranded, Asking
    <2>5. CASE pc'[c] = "error"
      <3>1. Phase'[c] = "failed"
        BY <2>5 DEF Phase, ContractPhase, Asking
      <3>2. Promise!GiveUp({c})
        BY <2>2, <2>3, <3>1, GiveUpStep
      <3> QED BY <3>2 DEF Promise!CNext
    <2>6. CASE pc'[c] # "error"
      <3>1. ticket[c] \in Requests
        BY <2>1 DEF TypeOK, NobodyStranded
      <3>2. Phase'[c] = Phase[c]
        BY <2>1, <2>4, <2>6, <3>1 DEF Phase, ContractPhase, Asking, Outcome, Verdicts, TypeOK
      <3>3. Phase' = Phase
        BY <2>2, <3>2 DEF Phase
      <3> QED BY <2>1, <3>3
    <2> QED BY <2>5, <2>6
  <1>3. ASSUME NEW c \in Calls, InvokeDelegate(c) PROVE Promise!CNext
    <2>1. Phase[c] = "cleared" /\ Phase'[c] = "ran"
      BY <1>3 DEF InvokeDelegate, Goto, Phase, ContractPhase, Asking, TypeOK
    <2>2. \A e \in Calls \ {c} : Phase'[e] = Phase[e]
      BY <1>3 DEF InvokeDelegate, Goto, Phase, ContractPhase, TypeOK
    <2>3. Phase' = [Phase EXCEPT ![c] = "ran"]
      BY <2>1, <2>2 DEF Phase
    <2>4. Law' = Law
      BY <1>3, LawStutter DEF InvokeDelegate
    <2> QED BY <2>1, <2>3, <2>4 DEF Promise!CNext, Promise!Run, Law, Phase
  <1>4. ASSUME NEW c \in Calls, Interrupt(c) PROVE Promise!CNext
    <2>1. Phase[c] \in {"asking", "cleared", "refused"} /\ Phase'[c] = "failed"
      BY <1>4 DEF Interrupt, Goto, InFlight, Phase, ContractPhase, Asking, TypeOK
    <2>2. \A e \in Calls \ {c} : Phase'[e] = Phase[e]
      BY <1>4 DEF Interrupt, Goto, Phase, ContractPhase, TypeOK
    <2>3. Promise!GiveUp({c})
      BY <2>1, <2>2, GiveUpStep
    <2> QED BY <2>3 DEF Promise!CNext
  <1>5. ASSUME NEW r \in Requests, NEW d \in Verdicts,
               DecideOnce(r, d) \/ \E o \in Options : Decide(r, d, o)
        PROVE  Promise!CNext
    <2>1. r \in byId /\ Settle(r, d) /\ UNCHANGED <<asker, pc, ticket>>
      BY <1>5 DEF DecideOnce, Decide
    <2>2. Promise!Answer(Fingerprint(asker[r]), IF d = "allow" THEN "cleared" ELSE "refused")
      BY <2>1, AnswerStep
    <2>3. asker[r] \in Calls
      BY <2>1, PendingCreated
    <2> QED BY <2>2, <2>3 DEF Promise!CNext
  <1>6. ASSUME UNCHANGED <<pc, ticket, resolution>> PROVE Promise!CNext
    <2>1. Promise!GiveUp({})
      BY <1>6, PhaseStutter, GiveUpStep
    <2> QED BY <2>1 DEF Promise!CNext
  <1>7. ASSUME NEW r \in Requests, NEW d \in Verdicts, NEW o \in Options, DecideSaveFails(r, d, o)
        PROVE  Promise!CNext
    BY <1>6, <1>7 DEF DecideSaveFails
  <1>8. ASSUME NEW x \in issued, Revoke(x) PROVE Promise!CNext
    BY <1>6, <1>8 DEF Revoke
  <1>9. ASSUME NEW p \in Pollers, Poll(p) \/ PollAgain(p) \/ PollReturns(p)
        PROVE  UNCHANGED <<Law, Phase>>
    BY <1>9, PhaseStutter, LawStutter DEF Poll, PollAgain, PollReturns
  <1>10. CASE Restart
    <2> DEFINE S == {c \in Calls : pc[c] \in InFlight}
    <2>1. UNCHANGED <<ticket, resolution>> /\
          \A c \in Calls : pc'[c] = IF c \in S THEN "lost" ELSE pc[c]
      BY <1>10 DEF Restart
    <2>2. \A c \in S : Phase[c] \in {"asking", "cleared", "refused"} /\ Phase'[c] = "failed"
      BY <2>1 DEF Phase, ContractPhase, InFlight, Asking
    <2>3. \A c \in Calls \ S : Phase'[c] = Phase[c]
      BY <2>1 DEF Phase, ContractPhase
    <2>4. Promise!GiveUp(S)
      BY <2>2, <2>3, GiveUpStep
    <2> QED BY <2>4 DEF Promise!CNext
  <1>11. CASE UNCHANGED vars
    BY <1>11, PhaseStutter, LawStutter DEF vars
  <1> QED
    BY <1>1, <1>2, <1>3, <1>4, <1>5, <1>7, <1>8, <1>9, <1>10, <1>11 DEF Next, Call, Human

\* The manager and the gateway implement the approval contract: one answer
\* settles all calls that ask the same, denials come first, and no refusal or
\* failure ever turns into a run of the tool.
THEOREM ApprovalIsContract == Spec => ImplementsContract
  <1>1. Init => Promise!CInit
    BY ContractInit
  <1>2. IInv /\ IInv' /\ [Next]_vars => [Promise!CNext]_Promise!contract
    BY ContractNext
  <1> QED BY <1>1, <1>2, Invariance, PTL DEF Spec, ImplementsContract, Promise!Contract
=============================================================================
