------------------------------- MODULE EventBus -------------------------------
(***************************************************************************)
(* The event bus: handlers register for an event type and a phase, or for  *)
(* any, as interceptors with a priority or as observers; emit() awaits the *)
(* interceptors that match one after the other, and then starts a task for *)
(* each observer.  Emissions, tasks and registrations interleave, and a    *)
(* wait for the observers cancels, when it times out, those it waits for.  *)
(***************************************************************************)
EXTENDS Integers, Sequences, FiniteSets, Listings

CONSTANTS
    Registrations,  \* what may be registered: [type, phase, mode, priority, handler]
    Events,         \* [type, phase]
    Emits,          \* calls of emit()
    MaxListeners

VARIABLES
    listeners,  \* key -> registrations, by priority
    emission,   \* call of emit() -> where it is
    tasks,      \* _observer_tasks: <<emit, handler>>
    waiting,    \* the tasks wait_for_observers() waits for; {} for no wait
    calls,      \* handlers called: <<emit, handler>> (history)
    dropped     \* tasks a wait cancelled (history)

vars == <<listeners, emission, tasks, waiting, calls, dropped>>

\* EventMode, Priority.
Modes == {"interceptor", "observer"}
Normal == 100

\* f"{type}:{phase}", "*" for any; EventPhase has two phases.
Keys == {<<r.type, r.phase>> : r \in Registrations}
    \union {<<t, p>> : t \in {e.type : e \in Events} \union {"*"}, p \in {"before", "after", "*"}}

\* Whom a sequence or a set of registrations names, and what has a mode.
Entries(ls) == {ls[i] : i \in DOMAIN ls}
HandlersOf(S) == {l.handler : l \in S}
InMode(S, mode) == {l \in S : l.mode = mode}

NotEmitted == [at |-> "new", todo |-> <<>>, observers |-> {}, due |-> {}]

TypeOK ==
    /\ DOMAIN listeners = Keys
    /\ \A k \in Keys : Entries(listeners[k]) \subseteq {r \in Registrations : <<r.type, r.phase>> = k}
    /\ \A e \in Emits : /\ emission[e].at \in {"new", "intercepting", "done"}
                        /\ Entries(emission[e].todo) \union emission[e].due \subseteq Registrations
    /\ tasks \union waiting \union dropped \union Entries(calls) \subseteq Emits \X HandlersOf(Registrations)

Init ==
    /\ listeners = [k \in Keys |-> <<>>]
    /\ emission = [e \in Emits |-> NotEmitted]
    /\ tasks = {} /\ waiting = {} /\ calls = <<>> /\ dropped = {}

-----------------------------------------------------------------------------
(* Registering.                                                              *)

\* sorted(): by priority, and those of one priority as they were.
Precedes(ls, i, j) ==
    \/ ls[i].priority < ls[j].priority
    \/ ls[i].priority = ls[j].priority /\ i < j
ByPriority(ls) == {p \in (DOMAIN ls) \X (DOMAIN ls) : Precedes(ls, p[1], p[2])}

\* Mutant of Sorted: the most specific key first.
SortedByKey(ls) == ls

Sorted(ls) == LET order == InOrder(DOMAIN ls, ByPriority(ls)) IN [k \in DOMAIN ls |-> ls[order[k]]]

\* add_interceptor, add_observer (which has the normal priority).
Register(r) ==
    /\ Cardinality({p \in Keys \X (1..MaxListeners) : p[2] <= Len(listeners[p[1]])}) < MaxListeners
    /\ listeners' = [listeners EXCEPT ![<<r.type, r.phase>>] = Sorted(Append(@, r))]
    /\ UNCHANGED <<emission, tasks, waiting, calls, dropped>>

Clear ==
    /\ listeners' = [k \in Keys |-> <<>>]
    /\ UNCHANGED <<emission, tasks, waiting, calls, dropped>>

-----------------------------------------------------------------------------
(* emit().                                                                   *)

\* What is registered under the event's key and its three wildcards.
Found(event) ==
    listeners[<<event.type, event.phase>>] \o listeners[<<event.type, "*">>]
    \o listeners[<<"*", event.phase>>] \o listeners[<<"*", "*">>]

\* Mutant of Once: a handler registered twice is called twice.
OnceEach(ls) == ls

\* A handler counts once, where it comes first.
Once(ls) == Taken(ls, {i \in DOMAIN ls : \A j \in 1..i - 1 : ls[j].handler # ls[i].handler})

\* The interceptors are done: a task for each observer.
Spawned(e, em) ==
    /\ emission' = [emission EXCEPT ![e] = [em EXCEPT !.at = "done"]]
    /\ tasks' = tasks \union {<<e, h>> : h \in em.observers}

\* Mutant of Goes: the observers do not wait for the interceptors.
GoesAhead(e, em) ==
    /\ emission' = [emission EXCEPT ![e] = [em EXCEPT !.at = IF em.todo = <<>> THEN "done" ELSE "intercepting"]]
    /\ tasks' = tasks \union {<<e, h>> : h \in em.observers}

Goes(e, em) ==
    IF em.todo = <<>> THEN Spawned(e, em)
    ELSE emission' = [emission EXCEPT ![e] = [em EXCEPT !.at = "intercepting"]] /\ UNCHANGED tasks

\* Up to the first await: who is called is settled now, whoever registers later.
Emit(e, event) ==
    /\ emission[e].at = "new"
    /\ LET ls == Once(Sorted(Found(event)))
       IN  Goes(e, [at |-> "new", due |-> Entries(Found(event)),
                    todo |-> Taken(ls, {i \in DOMAIN ls : ls[i].mode = "interceptor"}),
                    observers |-> HandlersOf(InMode(Entries(ls), "observer"))])
    /\ UNCHANGED <<listeners, waiting, calls, dropped>>

\* An interceptor returned or raised; the next one is called either way.
Intercepted(e) ==
    /\ emission[e].at = "intercepting"
    /\ calls' = Append(calls, <<e, Head(emission[e].todo).handler>>)
    /\ Goes(e, [emission[e] EXCEPT !.todo = Tail(@)])
    /\ UNCHANGED <<listeners, waiting, dropped>>

-----------------------------------------------------------------------------
(* Observers.                                                                *)

\* _run_observer: the handler returned or raised.
Observed(t) ==
    /\ t \in tasks
    /\ tasks' = tasks \ {t} /\ calls' = Append(calls, t)
    /\ UNCHANGED <<listeners, emission, waiting, dropped>>

\* wait_for_observers: for those there are now.
Waits ==
    /\ waiting = {} /\ tasks # {}
    /\ waiting' = tasks
    /\ UNCHANGED <<listeners, emission, tasks, calls, dropped>>

\* All are done, or the timeout of wait_for cancels the gathered ones.
WaitEnds ==
    /\ waiting # {}
    /\ tasks' = tasks \ waiting /\ dropped' = dropped \union (tasks \intersect waiting)
    /\ waiting' = {}
    /\ UNCHANGED <<listeners, emission, calls>>

Next ==
    \/ \E r \in Registrations : Register(r)
    \/ Clear
    \/ \E e \in Emits, event \in Events : Emit(e, event)
    \/ \E e \in Emits : Intercepted(e)
    \/ \E t \in tasks : Observed(t)
    \/ Waits \/ WaitEnds

Spec == Init /\ [][Next]_vars

-----------------------------------------------------------------------------

\* A handler takes part in an emission in the mode in which it is registered with the
\* best priority; with one priority in both modes the key decides.
Acts(due, mode) ==
    {h \in HandlersOf(InMode(due, mode)) :
        \E l \in InMode(due, mode) : /\ l.handler = h
                                    /\ \A m \in due \ InMode(due, mode) : m.handler = h => l.priority < m.priority}

\* Whatever h is registered with, g is with something that ranks as high.
Outranks(due, g, h) ==
    \A l \in due : l.handler = h => \E m \in due : m.handler = g /\ m.priority <= l.priority

\* "Interceptors run sequentially by priority", "they are run before observers
\* for the same event" (event_bus.py:97, 100): of an emission each handler is called
\* once, the interceptors by their best priority over all keys, and an observer
\* after every interceptor that was registered when it began; and no observer is
\* forgotten but by a wait that ran out of time.
GatesFirst ==
    \A e \in Emits :
        LET due == emission[e].due
            gates == Acts(due, "interceptor")
            watchers == Acts(due, "observer")
            called == {i \in DOMAIN calls : calls[i][1] = e}
            over == {calls[i][2] : i \in called}
        IN  /\ \A i, j \in called : i < j =>
                 /\ calls[i][2] # calls[j][2]
                 /\ calls[j][2] \in gates => calls[i][2] \notin watchers
                 /\ {calls[i][2], calls[j][2]} \subseteq gates => Outranks(due, calls[i][2], calls[j][2])
            /\ emission[e].at = "done" =>
                 /\ gates \subseteq over
                 /\ \A h \in HandlersOf(due) \ gates : h \in over \/ <<e, h>> \in tasks \union dropped
=============================================================================
