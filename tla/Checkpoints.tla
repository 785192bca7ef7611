----------------------------- MODULE Checkpoints -----------------------------
(***************************************************************************)
(* The checkpoints of an agent's short-term memory: the manager with its   *)
(* memory and file backends (AgentStateCheckpointManager) and the older    *)
(* store of contributors (DefaultCheckpointSaveRestore).                   *)
(*                                                                         *)
(* The files lie in the user's directory, which several processes share;   *)
(* each file operation is a step, a process may be killed between two of   *)
(* them and in the middle of a write.                                      *)
(***************************************************************************)
EXTENDS Naturals, Sequences, FiniteSets, FiniteSetsExt

CONSTANTS
    Processes,      \* of one user
    Backends,       \* of "memory", "file"
    Kept,           \* max_checkpoints
    MaxSaves,       \* bound: checkpoints made
    Memories        \* contents of a short-term memory, numbers

Ids == 1..MaxSaves

VARIABLES
    backend,    \* chosen when the managers are made
    clock,      \* time.time()
    setBack,    \* the clock has been set back (history)
    used,       \* checkpoints made
    store,      \* id -> checkpoint, "none", or "cut" for a file that does not parse
    stm,        \* process -> its short-term memory
    idx,        \* current_milestone_idx of the session state of Main
    job,        \* process -> the save it is at
    legacy,     \* MemoryCheckpointStore: the last payload put
    saved,      \* id -> what was to be saved, once save() has returned (history)
    erased      \* ids deleted on request (history)

vars == <<backend, clock, setBack, used, store, stm, idx, job, legacy, saved, erased>>

None == [is |-> "none"]
Cut == [is |-> "cut"]
Stored == [is : {"checkpoint"}, at : Nat, stm : Memories]
Idle == [phase |-> "idle", id |-> 0, doomed |-> {}]
Payloads == [stm : SUBSET Memories, idx : SUBSET {0, 1}]    \* {} for what was not saved
Empty == [stm |-> {}, idx |-> {}]

TypeOK ==
    /\ backend \in {"memory", "file"} /\ clock \in Nat /\ setBack \in BOOLEAN
    /\ used \in 0..MaxSaves /\ erased \subseteq Ids
    /\ store \in [Ids -> Stored \union {None, Cut}] /\ stm \in [Processes -> Memories]
    /\ job \in [Processes -> [phase : {"idle", "written", "trimming"}, id : 0..MaxSaves,
                              doomed : SUBSET Ids]]
    /\ idx \in {0, 1} /\ legacy \in Payloads
    /\ saved \in [Ids -> [is : {"saved"}, stm : Memories] \union {None}]

Init ==
    /\ backend \in Backends /\ clock = 2 /\ setBack = FALSE /\ used = 0 /\ erased = {}
    /\ store = [k \in Ids |-> None] /\ saved = [k \in Ids |-> None]
    /\ stm = [p \in Processes |-> Min(Memories)] /\ idx = 0
    /\ legacy = Empty /\ job = [p \in Processes |-> Idle]

-----------------------------------------------------------------------------

Main == CHOOSE p \in Processes : TRUE

\* _serialize_state and back: all the memory's messages, with every field.
Snapshot(p) == [is |-> "checkpoint", at |-> clock, stm |-> stm[p]]
Restored(c) == c.stm

\* Files that parse and name an id.
Readable == {k \in Ids : store[k].is = "checkpoint"}

\* Mutant of Oldest: keeps one too few.
OldestButFewer == {k \in Readable : Cardinality({j \in Readable : store[j].at > store[k].at}) >= Kept - 1}

\* _trim_to_limit(): those that at least Kept others are younger than (list()
\* skips what it cannot read).
Oldest == {k \in Readable : Cardinality({j \in Readable : store[j].at > store[k].at}) >= Kept}

Talk(p) ==
    /\ job[p].phase = "idle"
    /\ \E m \in Memories \ {stm[p]} : stm' = [stm EXCEPT ![p] = m]
    /\ idx' = IF backend = "memory" THEN 1 - idx ELSE idx
    /\ UNCHANGED <<backend, clock, setBack, used, store, job, legacy, saved, erased>>

\* The wall clock moves between two saves, and it may be set back.
Tick ==
    \/ clock' = clock + 1 /\ UNCHANGED setBack
    \/ clock > 1 /\ clock' = clock - 2 /\ setBack' = TRUE

\* The process starts anew with nothing in memory.
Killed(p) ==
    /\ job' = [job EXCEPT ![p] = Idle] /\ stm' = [stm EXCEPT ![p] = Min(Memories)]
    /\ IF p = Main THEN idx' = 0 /\ legacy' = Empty ELSE UNCHANGED <<idx, legacy>>

\* save(): the snapshot is taken and written; a kill in mid-write cuts it.
Save(p) ==
    /\ job[p].phase = "idle" /\ used < MaxSaves
    /\ LET k == used + 1
           c == Snapshot(p)
       IN  /\ used' = k
           /\ \/ /\ store' = [store EXCEPT ![k] = c]
                 /\ job' = [job EXCEPT ![p] = [phase |-> "written", id |-> k, doomed |-> {}]]
                 /\ UNCHANGED <<stm, idx, legacy>>
              \/ /\ backend = "file"
                 /\ store' = [store EXCEPT ![k] = Cut] /\ Killed(p)
    /\ Tick
    /\ UNCHANGED <<backend, saved, erased>>

List(p) ==
    /\ job[p].phase = "written"
    /\ job' = [job EXCEPT ![p].phase = "trimming", ![p].doomed = Oldest]
    /\ UNCHANGED <<backend, clock, setBack, used, store, stm, idx, legacy, saved, erased>>

Trim(p) ==
    /\ job[p].phase = "trimming" /\ job[p].doomed # {}
    /\ \E k \in job[p].doomed :
          /\ store' = [store EXCEPT ![k] = None]
          /\ job' = [job EXCEPT ![p].doomed = @ \ {k}]
    /\ UNCHANGED <<backend, clock, setBack, used, stm, idx, legacy, saved, erased>>

\* save() returns the id.  What it was to hold is what the memory held when the
\* snapshot was taken: nothing else of the process runs in between.
SaveReturns(p) ==
    /\ job[p].phase = "trimming" /\ job[p].doomed = {}
    /\ saved' = [saved EXCEPT ![job[p].id] = [is |-> "saved", stm |-> stm[p]]]
    /\ job' = [job EXCEPT ![p] = Idle]
    /\ UNCHANGED <<backend, clock, setBack, used, store, stm, idx, legacy, erased>>

\* restore(): unknown or unreadable raises KeyError; the rest replaces the memory.
Restore(p, k) ==
    /\ job[p].phase = "idle" /\ k \in Readable
    /\ stm' = [stm EXCEPT ![p] = Restored(store[k])]
    /\ UNCHANGED <<backend, clock, setBack, used, store, idx, job, legacy, saved, erased>>

Delete(p, k) ==
    /\ job[p].phase = "idle" /\ store[k].is # "none"
    /\ store' = [store EXCEPT ![k] = None] /\ erased' = erased \union {k}
    /\ UNCHANGED <<backend, clock, setBack, used, stm, idx, job, legacy, saved>>

\* clear(): a file another process holds open is passed over.
Clear(p) ==
    /\ job[p].phase = "idle"
    /\ \E gone \in SUBSET {k \in Ids : store[k].is # "none"} :
          /\ backend = "memory" => gone = Readable
          /\ store' = [k \in Ids |-> IF k \in gone THEN None ELSE store[k]]
          /\ erased' = erased \union gone
    /\ UNCHANGED <<backend, clock, setBack, used, stm, idx, job, legacy, saved>>

Kill(p) ==
    /\ job[p].phase # "idle" /\ backend = "file"
    /\ Killed(p)
    /\ UNCHANGED <<backend, clock, setBack, used, store, saved, erased>>

\* The contributors: what StmContributor and SessionStateContributor save, {} where
\* the scope does not name them; the session context is never restored.
StmSaved(p, scope) == IF "stm" \in scope THEN {stm[p]} ELSE {}
IdxSaved(scope) == IF "session_state" \in scope THEN {idx} ELSE {}

\* ... and what they put back: a component the last save left out stays as it is.
StmBack(p, scope) == IF "stm" \in scope /\ legacy.stm # {} THEN Min(legacy.stm) ELSE stm[p]
IdxBack(scope) == IF "session_state" \in scope /\ legacy.idx # {} THEN Min(legacy.idx) ELSE idx

\* DefaultCheckpointSaveRestore.
LegacySave(p, scope) ==
    /\ job[p].phase = "idle"
    /\ legacy' = [stm |-> StmSaved(p, scope), idx |-> IdxSaved(scope)]
    /\ UNCHANGED <<backend, clock, setBack, used, store, stm, idx, job, saved, erased>>

LegacyRestore(p, scope) ==
    /\ job[p].phase = "idle"
    /\ stm' = [stm EXCEPT ![p] = StmBack(p, scope)] /\ idx' = IdxBack(scope)
    /\ UNCHANGED <<backend, clock, setBack, used, store, job, legacy, saved, erased>>

Active(p) == backend = "file" \/ p = Main
Scopes == SUBSET {"stm", "session_state"}

\* Bound: the older store, which is in memory anyway, is used beside the memory
\* backend only.

Next == \E p \in Processes : Active(p) /\
    \/ Talk(p) \/ Save(p) \/ List(p) \/ Trim(p) \/ SaveReturns(p) \/ Kill(p) \/ Clear(p)
    \/ \E k \in Ids : Restore(p, k) \/ Delete(p, k)
    \/ backend = "memory" /\ \E scope \in Scopes : LegacySave(p, scope) \/ LegacyRestore(p, scope)

Spec == Init /\ [][Next]_vars

-----------------------------------------------------------------------------

\* The id that save() returned can be restored to what the memory was, until
\* it is deleted or Kept later saves have been begun by whatever process:
\* trimming, crashes and cut files of others never take it.  It holds only
\* while the clock is not set back: the youngest is the one with the latest
\* created_at, which is the wall clock.
SavedIsKept ==
    ~setBack => \A k \in Ids :
        /\ saved[k] # None /\ k \notin erased
        /\ used - k < Kept
        => store[k].is = "checkpoint" /\ store[k].stm = saved[k].stm
=============================================================================
