------------------------------ MODULE EventLog ------------------------------
(***************************************************************************)
(* SQLiteEventLog: the hash chain of events in one database file, written  *)
(* through the connections of several processes.                           *)
(*                                                                         *)
(* Inside a process the lock makes append() one step of its event loop;    *)
(* the statements of two processes interleave.  A hash is abstracted to    *)
(* the event it is the hash of, so that a row is right when it names the   *)
(* event of the row before it.  SQLite is external: one connection at a    *)
(* time holds the write lock, from its INSERT to the end of its            *)
(* transaction, and a connection reads its own open transaction.           *)
(***************************************************************************)
EXTENDS Integers, Sequences, FiniteSets

CONSTANTS
    Connections,    \* processes with the database open
    MaxEvents       \* bound: events created

NoEvent == 0        \* prev_hash of the first row

VARIABLES
    rows,       \* committed rows: [event, prev]
    open,       \* connection -> rows of its open transaction
    step,       \* connection -> where its append() is
    mine,       \* connection -> [event, prev] it is appending
    created,    \* events created so far
    returned,   \* events whose append() has returned their id (history)
    verdict,    \* connection -> last answer of verify_chain()
    replayed,   \* connection -> last answer of replay()
    overlap     \* two appends have overlapped (history)

vars == <<rows, open, step, mine, created, returned, verdict, replayed, overlap>>

Rows == [event : 1..MaxEvents, prev : 0..MaxEvents]
NoRow == [event |-> NoEvent, prev |-> NoEvent]

TypeOK ==
    /\ rows \in Seq(Rows) /\ open \in [Connections -> Seq(Rows)]
    /\ step \in [Connections -> {"closed", "idle", "read", "inserted"}]
    /\ mine \in [Connections -> Rows \union {NoRow}]
    /\ created \in 0..MaxEvents /\ returned \subseteq 1..MaxEvents
    /\ verdict \in [Connections -> {"none", "intact", "broken"}]
    /\ replayed \in [Connections -> Seq(1..MaxEvents)] /\ overlap \in BOOLEAN

Init ==
    /\ rows = <<>> /\ open = [c \in Connections |-> <<>>]
    /\ step = [c \in Connections |-> "idle"]
    /\ mine = [c \in Connections |-> NoRow]
    /\ created = 0 /\ returned = {} /\ overlap = FALSE
    /\ verdict = [c \in Connections |-> "none"]
    /\ replayed = [c \in Connections |-> <<>>]

-----------------------------------------------------------------------------

\* What a SELECT of the connection sees.
View(c) == rows \o open[c]

\* Mutant of LastHash: only what other connections can see too.
LastCommitted(c) == IF rows = <<>> THEN NoEvent ELSE rows[Len(rows)].event

LastHash(c) == IF View(c) = <<>> THEN NoEvent ELSE View(c)[Len(View(c))].event

Locked(c) == \E d \in Connections \ {c} : open[d] # <<>>

\* append(): the event is made, the hash of the last row read.
ReadLast(c) ==
    /\ step[c] = "idle" /\ created < MaxEvents
    /\ created' = created + 1
    /\ mine' = [mine EXCEPT ![c] = [event |-> created', prev |-> LastHash(c)]]
    /\ step' = [step EXCEPT ![c] = "read"]
    /\ overlap' = (overlap \/ \E d \in Connections \ {c} : step[d] \in {"read", "inserted"}
                                                          \/ open[d] # <<>>)
    /\ UNCHANGED <<rows, open, returned, verdict, replayed>>

\* The INSERT opens a transaction and takes the write lock.
Insert(c) ==
    /\ step[c] = "read" /\ ~Locked(c)
    /\ open' = [open EXCEPT ![c] = Append(@, mine[c])]
    /\ step' = [step EXCEPT ![c] = "inserted"]
    /\ UNCHANGED <<rows, mine, created, returned, verdict, replayed, overlap>>

\* "database is locked", after the busy timeout.
InsertFails(c) ==
    /\ step[c] = "read" /\ Locked(c)
    /\ step' = [step EXCEPT ![c] = "idle"] /\ mine' = [mine EXCEPT ![c] = NoRow]
    /\ UNCHANGED <<rows, open, created, returned, verdict, replayed, overlap>>

Commit(c) ==
    /\ step[c] = "inserted"
    /\ rows' = rows \o open[c] /\ open' = [open EXCEPT ![c] = <<>>]
    /\ returned' = returned \union {mine[c].event}
    /\ step' = [step EXCEPT ![c] = "idle"] /\ mine' = [mine EXCEPT ![c] = NoRow]
    /\ UNCHANGED <<created, verdict, replayed, overlap>>

\* Mutant of CommitFails: the caller gets the id all the same.
CommitFailsQuietly(c) ==
    /\ step[c] = "inserted"
    /\ returned' = returned \union {mine[c].event}
    /\ step' = [step EXCEPT ![c] = "idle"] /\ mine' = [mine EXCEPT ![c] = NoRow]
    /\ UNCHANGED <<rows, open, created, verdict, replayed, overlap>>

\* A full disk, a reader of another process: append() raises, the transaction
\* stays open with the row, and the next append() of this process commits both.
CommitFails(c) ==
    /\ step[c] = "inserted"
    /\ step' = [step EXCEPT ![c] = "idle"] /\ mine' = [mine EXCEPT ![c] = NoRow]
    /\ UNCHANGED <<rows, open, created, returned, verdict, replayed, overlap>>

\* close(), or the process is killed: the open transaction is rolled back.
Close(c) ==
    /\ step[c] # "closed"
    /\ open' = [open EXCEPT ![c] = <<>>]
    /\ step' = [step EXCEPT ![c] = "closed"] /\ mine' = [mine EXCEPT ![c] = NoRow]
    /\ verdict' = [verdict EXCEPT ![c] = "none"]
    /\ replayed' = [replayed EXCEPT ![c] = <<>>]
    /\ UNCHANGED <<rows, created, returned, overlap>>

Reopen(c) ==
    /\ step[c] = "closed"
    /\ step' = [step EXCEPT ![c] = "idle"]
    /\ UNCHANGED <<rows, open, mine, created, returned, verdict, replayed, overlap>>

-----------------------------------------------------------------------------

\* verify_chain(): every row names the row before it.
Intact(view) ==
    \A i \in DOMAIN view : view[i].prev = IF i = 1 THEN NoEvent ELSE view[i - 1].event

Verify(c) ==
    /\ step[c] = "idle"
    /\ verdict' = [verdict EXCEPT ![c] = IF Intact(View(c)) THEN "intact" ELSE "broken"]
    /\ UNCHANGED <<rows, open, step, mine, created, returned, replayed, overlap>>

\* replay(): the anchor and what follows it; an unknown anchor raises.
Replay(c) ==
    /\ step[c] = "idle"
    /\ \E i \in DOMAIN View(c) :
          replayed' = [replayed EXCEPT ![c] =
                         [j \in 1..(Len(View(c)) - i + 1) |-> View(c)[i + j - 1].event]]
    /\ UNCHANGED <<rows, open, step, mine, created, returned, verdict, overlap>>

Next == \E c \in Connections :
    \/ ReadLast(c) \/ Insert(c) \/ InsertFails(c) \/ Commit(c) \/ CommitFails(c)
    \/ Close(c) \/ Reopen(c) \/ Verify(c) \/ Replay(c)

Spec == Init /\ [][Next]_vars

-----------------------------------------------------------------------------

\* verify_chain() accepts a log that nobody tampered with, through failed
\* commits, rollbacks and restarts, unless two processes have appended at once
\* (the last hash is read before the transaction begins).
ChainVerifies == ~overlap => \A c \in Connections : verdict[c] # "broken"

\* An append that returned is on disk once and for all, through crashes and
\* failing commits, and what a replay returned stays a gapless piece of the log.
AppendsLast ==
    /\ \A e \in returned : \E i \in DOMAIN rows : rows[i].event = e
    /\ \A i, j \in DOMAIN rows : i < j => rows[i].event # rows[j].event
    /\ \A c \in Connections : \A k, l \in DOMAIN replayed[c], i, j \in DOMAIN rows :
          replayed[c][k] = rows[i].event /\ replayed[c][l] = rows[j].event => i - j = k - l
=============================================================================
