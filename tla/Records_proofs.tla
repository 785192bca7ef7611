--------------------------- MODULE Records_proofs ---------------------------
(***************************************************************************)
(* What is recorded, for every value of the constants: the event log,      *)
(* the checkpoints at which tasks wait, saved checkpoints, traces, the     *)
(* files of a workspace, stores of knowledge, the skills of a directory,   *)
(* and the conversations of the model adapters.                            *)
(*                                                                         *)
(* The module is one of the event log, and has the others beside it.       *)
(***************************************************************************)
EXTENDS EventLog, SequenceFacts, SequenceTheorems, FiniteSetTheorems, WellFoundedInduction, TLAPS

CONSTANTS Workers, MaxCheckpoints, Processes, Backends, Kept, MaxSaves, Memories, Separate,
    MaxRuns, MaxSpans, Names, Texts, Saved, MaxLines, MaxRoots, Stores, Fronts, Words, Similar,
    Models, MaxRows, MaxTop, Dirs, Queries, Disabled, MaxLoads, Apis, Answers, MaxTalk
VARIABLES inFile, signal, made, resumed, pending, events, wait, crowded, backend, clock, setBack,
    used, store, stm, idx, job, legacy, saved, erased, separate, runNo, path, iteration, hook,
    capture, roots, disk, debris, told, command, bank, entries, embedder, shelf, setup, skills,
    loads, catalogue, mounted, promised, adapter, talk, todo, request, bill

Control == INSTANCE ExecutionControl
Saves == INSTANCE Checkpoints
Traces == INSTANCE Telemetry
Tools == INSTANCE BuiltinTools
Knowledge == INSTANCE KnowledgeStores WITH store <- bank, rows <- entries, Texts <- Words
Library == INSTANCE Skills WITH disk <- shelf, told <- promised
Chat == INSTANCE ModelAdapters WITH Adapters <- Apis

-----------------------------------------------------------------------------
(* EventLog.                                                                 *)

\* Some events may be created.
LogAssumption == MaxEvents \in Nat

Events(v) == {v[i].event : i \in DOMAIN v}
Distinct(v) == \A i, j \in DOMAIN v : i < j => v[i].event # v[j].event

\* SQLite's lock: no two transactions are open at once.
Locks == \A c, d \in Connections : c # d => open[c] = <<>> \/ open[d] = <<>>

\* What an append is at: a new event until its INSERT, a row of the open
\* transaction after it.
Appending ==
    /\ \A c \in Connections : step[c] = "read" =>
          /\ mine[c] \in Rows /\ mine[c].event <= created
          /\ mine[c].event \notin Events(rows)
          /\ \A d \in Connections : mine[c].event \notin Events(View(d))
    /\ \A c, d \in Connections :
          c # d /\ step[c] = "read" /\ step[d] = "read" => mine[c].event # mine[d].event
    /\ \A c \in Connections : step[c] = "inserted" =>
          open[c] # <<>> /\ mine[c].event \in Events(View(c))

\* What can be seen are events that were created, each once.
Seen ==
    /\ Distinct(rows)
    /\ \A c \in Connections : Distinct(View(c)) /\ \A e \in Events(View(c)) : e <= created

\* Where a replay was cut from the log.
Cut(c, s) == \A k \in DOMAIN replayed[c] :
    s + k \in DOMAIN View(c) /\ replayed[c][k] = View(c)[s + k].event
Replays == \A c \in Connections : \E s \in Nat : Cut(c, s)

\* As long as no two appends overlapped, the log is a chain that the append under
\* way continues.
LogBusy(c) == step[c] \in {"read", "inserted"} \/ open[c] # <<>>
Chain == ~overlap =>
    /\ \A c, d \in Connections : c # d => ~(LogBusy(c) /\ LogBusy(d))
    /\ \A c \in Connections :
          /\ Intact(View(c)) /\ verdict[c] # "broken"
          /\ step[c] = "read" => mine[c].prev = LastHash(c)

Lasting == returned \subseteq Events(rows)

LogInv == TypeOK /\ Locks /\ Appending /\ Seen /\ Replays /\ Lasting /\ Chain

-----------------------------------------------------------------------------
(* Sequences of rows.                                                        *)

LEMMA IsSequence == ASSUME NEW n \in Nat, NEW S, NEW f \in [1..n -> S] PROVE f \in Seq(S)
OBVIOUS

\* A row behind the last one has its number and leaves the others.
LEMMA AppendRow ==
    ASSUME NEW v \in Seq(Rows), NEW m \in Rows
    PROVE  /\ Append(v, m) \in Seq(Rows) /\ Append(v, m) # <<>>
           /\ DOMAIN Append(v, m) = 1..(Len(v) + 1) /\ DOMAIN v = 1..Len(v) /\ Len(v) \in Nat
           /\ Append(v, m)[Len(v) + 1] = m
           /\ \A i \in DOMAIN v : i \in DOMAIN Append(v, m) /\ Append(v, m)[i] = v[i]
OBVIOUS

\* Its event joins those of the others.
LEMMA AppendEvents ==
    ASSUME NEW v \in Seq(Rows), NEW m \in Rows
    PROVE  Events(Append(v, m)) = Events(v) \union {m.event}
<1>1. ASSUME NEW e \in Events(Append(v, m)) PROVE e \in Events(v) \union {m.event}
  <2>1. PICK i \in DOMAIN Append(v, m) : e = Append(v, m)[i].event
    BY DEF Events
  <2>2. i \in DOMAIN v \/ i = Len(v) + 1
    BY AppendRow
  <2> QED BY <2>1, <2>2, AppendRow DEF Events
<1>2. ASSUME NEW e \in Events(v) PROVE e \in Events(Append(v, m))
  BY AppendRow DEF Events
<1>3. m.event \in Events(Append(v, m))
  <2>1. Len(v) + 1 \in DOMAIN Append(v, m) /\ Append(v, m)[Len(v) + 1] = m
    BY AppendRow
  <2> QED BY <2>1 DEF Events
<1> QED BY <1>1, <1>2, <1>3

\* A new event keeps them distinct.
LEMMA AppendDistinct ==
    ASSUME NEW v \in Seq(Rows), NEW m \in Rows, Distinct(v), m.event \notin Events(v)
    PROVE  Distinct(Append(v, m))
<1> SUFFICES ASSUME NEW i \in DOMAIN Append(v, m), NEW j \in DOMAIN Append(v, m), i < j
             PROVE  Append(v, m)[i].event # Append(v, m)[j].event
  BY DEF Distinct
<1>1. i \in DOMAIN v /\ (j \in DOMAIN v \/ j = Len(v) + 1)
  BY AppendRow
<1>2. Append(v, m)[i] = v[i] /\ v[i].event \in Events(v)
  BY <1>1, AppendRow DEF Events
<1>3. CASE j \in DOMAIN v
  BY <1>1, <1>2, <1>3, AppendRow DEF Distinct
<1>4. CASE j = Len(v) + 1
  BY <1>2, <1>4, AppendRow
<1> QED BY <1>1, <1>3, <1>4

\* A row that names the last one keeps a chain.
LEMMA AppendIntact ==
    ASSUME NEW v \in Seq(Rows), NEW m \in Rows, Intact(v),
           m.prev = IF v = <<>> THEN NoEvent ELSE v[Len(v)].event
    PROVE  Intact(Append(v, m))
<1> DEFINE w == Append(v, m)
<1> SUFFICES ASSUME NEW i \in DOMAIN w PROVE w[i].prev = IF i = 1 THEN NoEvent ELSE w[i - 1].event
  BY DEF Intact
<1>1. i \in DOMAIN v \/ i = Len(v) + 1
  BY AppendRow
<1>2. CASE i \in DOMAIN v
  <2>1. w[i] = v[i] /\ (i # 1 => i - 1 \in DOMAIN v /\ w[i - 1] = v[i - 1])
    BY <1>2, AppendRow
  <2>2. v[i].prev = IF i = 1 THEN NoEvent ELSE v[i - 1].event
    BY <1>2 DEF Intact
  <2> QED BY <2>1, <2>2
<1>3. CASE i = Len(v) + 1
  <2>1. w[i] = m
    BY <1>3, AppendRow
  <2>2. CASE v = <<>>
    BY <1>3, <2>1, <2>2
  <2>3. CASE v # <<>>
    <3>1. i # 1 /\ Len(v) \in DOMAIN v /\ i - 1 = Len(v)
      BY <1>3, <2>3, AppendRow
    <3>2. w[i - 1] = v[Len(v)]
      BY <3>1, AppendRow
    <3> QED BY <2>1, <2>3, <3>1, <3>2
  <2> QED BY <2>2, <2>3
<1> QED BY <1>1, <1>2, <1>3

\* What is in front of an open transaction is seen as before.
LEMMA InFront ==
    ASSUME NEW r \in Seq(Rows), NEW o \in Seq(Rows)
    PROVE  /\ r \o o \in Seq(Rows) /\ r \o <<>> = r
           /\ \A i \in DOMAIN r : i \in DOMAIN (r \o o) /\ (r \o o)[i] = r[i]
           /\ \A m \in Rows : r \o Append(o, m) = Append(r \o o, m)
OBVIOUS

LEMMA FrontEvents ==
    ASSUME NEW r \in Seq(Rows), NEW o \in Seq(Rows)
    PROVE  Events(r) \subseteq Events(r \o o)
BY InFront DEF Events

LEMMA FrontDistinct ==
    ASSUME NEW r \in Seq(Rows), NEW o \in Seq(Rows), Distinct(r \o o)
    PROVE  Distinct(r)
BY InFront DEF Distinct

LEMMA FrontIntact ==
    ASSUME NEW r \in Seq(Rows), NEW o \in Seq(Rows), Intact(r \o o)
    PROVE  Intact(r)
<1> SUFFICES ASSUME NEW i \in DOMAIN r PROVE r[i].prev = IF i = 1 THEN NoEvent ELSE r[i - 1].event
  BY DEF Intact
<1>1. (r \o o)[i].prev = IF i = 1 THEN NoEvent ELSE (r \o o)[i - 1].event
  BY InFront DEF Intact
<1>2. i # 1 => i - 1 \in DOMAIN r
  OBVIOUS
<1> QED BY <1>1, <1>2, InFront

-----------------------------------------------------------------------------

\* Every view is a sequence of rows.
LEMMA ViewRows ==
    ASSUME TypeOK, NEW c \in Connections
    PROVE  View(c) \in Seq(Rows) /\ open[c] \in Seq(Rows) /\ rows \in Seq(Rows)
BY InFront DEF TypeOK, View

\* An empty log.
LEMMA LogInit == ASSUME LogAssumption, Init PROVE LogInv
<1>1. <<>> \in Seq(Rows) /\ <<>> \in Seq(1..MaxEvents)
  OBVIOUS
<1>2. TypeOK
  <2>1. rows \in Seq(Rows) /\ open \in [Connections -> Seq(Rows)]
    BY <1>1 DEF Init
  <2>2. replayed \in [Connections -> Seq(1..MaxEvents)]
    BY <1>1 DEF Init
  <2>3. mine \in [Connections -> Rows \union {NoRow}]
    BY DEF Init
  <2>4. created \in 0..MaxEvents
    BY DEF LogAssumption, Init
  <2> QED BY <2>1, <2>2, <2>3, <2>4 DEF Init, TypeOK
<1>3. \A c \in Connections : View(c) = <<>>
  BY DEF Init, View
<1>4. Locks /\ Appending /\ Lasting
  BY DEF Init, Locks, Appending, Lasting
<1>5. Seen
  BY <1>3 DEF Init, Seen, Distinct, Events
<1>6. Replays
  <2>1. \A c \in Connections : Cut(c, 0)
    BY DEF Init, Cut
  <2> QED BY <2>1 DEF Replays
<1>7. Chain
  BY <1>3 DEF Init, Chain, LogBusy, Intact
<1> QED BY <1>2, <1>4, <1>5, <1>6, <1>7 DEF LogInv

\* append() reads the last hash and makes its event.
LEMMA ReadLastInv == ASSUME LogAssumption, LogInv, NEW c \in Connections, ReadLast(c) PROVE LogInv'
<1>1. /\ step[c] = "idle" /\ created' = created + 1 /\ created \in 0..MaxEvents /\ created < MaxEvents
      /\ MaxEvents \in Nat
      /\ UNCHANGED <<rows, open, returned, verdict, replayed>>
  BY DEF ReadLast, LogInv, TypeOK, LogAssumption
<1>2. created' \in 1..MaxEvents
  BY <1>1
<1>3. View(c) \in Seq(Rows)
  BY ViewRows DEF LogInv
<1>4. LastHash(c) \in 0..MaxEvents
  <2>1. CASE View(c) = <<>>
    BY <1>1, <2>1 DEF LastHash, NoEvent
  <2>2. CASE View(c) # <<>>
    <3>1. View(c)[Len(View(c))] \in Rows
      BY <1>3, <2>2
    <3>2. View(c)[Len(View(c))].event \in 1..MaxEvents
      BY <3>1 DEF Rows
    <3> QED BY <2>2, <3>2 DEF LastHash
  <2> QED BY <2>1, <2>2
<1> DEFINE m == [event |-> created', prev |-> LastHash(c)]
<1>5. m \in Rows
  BY <1>2, <1>4 DEF Rows
<1>6. /\ mine' = [mine EXCEPT ![c] = m] /\ step' = [step EXCEPT ![c] = "read"]
      /\ overlap' = (overlap \/ \E d \in Connections \ {c} : step[d] \in {"read", "inserted"} \/ open[d] # <<>>)
  BY DEF ReadLast
<1>7. m.event = created + 1 /\ m.prev = LastHash(c)
  BY <1>1
<1> HIDE DEF m
<1>8. \A d \in Connections : View(d)' = View(d)
  BY <1>1 DEF View
<1>9. mine \in [Connections -> Rows \union {NoRow}]
      /\ step \in [Connections -> {"closed", "idle", "read", "inserted"}]
  BY DEF LogInv, TypeOK
<1>10. TypeOK'
  <2>1. overlap' \in BOOLEAN
    BY <1>6 DEF LogInv, TypeOK
  <2>2. created' \in 0..MaxEvents
    BY <1>1
  <2> QED BY <1>1, <1>5, <1>6, <1>9, <2>1, <2>2 DEF LogInv, TypeOK
<1>11. Locks'
  BY <1>1 DEF LogInv, Locks
<1>12. \A e : e \in Events(rows) \/ (\E d \in Connections : e \in Events(View(d))) => e <= created /\ e \in Nat
  <2>1. \A d \in Connections : \A e \in Events(View(d)) : e <= created
    BY DEF LogInv, Seen
  <2>2. Events(rows) \subseteq Events(View(c))
    BY FrontEvents, ViewRows DEF LogInv, View
  <2>3. \A d \in Connections : \A e \in Events(View(d)) : e \in Nat
    <3> SUFFICES ASSUME NEW d \in Connections, NEW i \in DOMAIN View(d) PROVE View(d)[i].event \in Nat
      BY DEF Events
    <3>1. View(d)[i] \in Rows
      BY ViewRows DEF LogInv
    <3> QED BY <3>1 DEF Rows
  <2> QED BY <2>1, <2>2, <2>3
<1>13. Appending'
  <2>1. m.event \notin Events(rows) /\ \A d \in Connections : m.event \notin Events(View(d))
    BY <1>1, <1>7, <1>12
  <2>2. ASSUME NEW d \in Connections, step'[d] = "read"
        PROVE  /\ mine'[d] \in Rows /\ mine'[d].event <= created'
               /\ mine'[d].event \notin Events(rows)
               /\ \A b \in Connections : mine'[d].event \notin Events(View(b))
    <3>1. CASE d = c
      BY <1>1, <1>5, <1>6, <1>7, <1>9, <2>1, <3>1
    <3>2. CASE d # c
      <4>1. step[d] = "read" /\ mine'[d] = mine[d]
        BY <1>6, <1>9, <2>2, <3>2
      <4>2. mine[d] \in Rows /\ mine[d].event <= created
        BY <4>1 DEF LogInv, Appending
      <4>3. mine[d].event <= created'
        BY <1>1, <4>2 DEF Rows
      <4> QED BY <4>1, <4>2, <4>3 DEF LogInv, Appending
    <3> QED BY <3>1, <3>2
  <2>3. ASSUME NEW b \in Connections, NEW d \in Connections, b # d, step'[b] = "read", step'[d] = "read"
        PROVE  mine'[b].event # mine'[d].event
    <3>1. \A a \in Connections \ {c} : step'[a] = "read" =>
             mine'[a] = mine[a] /\ step[a] = "read" /\ mine[a].event # m.event
      <4> SUFFICES ASSUME NEW a \in Connections \ {c}, step'[a] = "read"
                   PROVE  mine'[a] = mine[a] /\ step[a] = "read" /\ mine[a].event # m.event
        OBVIOUS
      <4>1. mine'[a] = mine[a] /\ step[a] = "read"
        BY <1>6, <1>9
      <4>2. mine[a] \in Rows /\ mine[a].event <= created
        BY <4>1 DEF LogInv, Appending
      <4> QED BY <1>1, <1>7, <4>1, <4>2 DEF Rows
    <3>2. mine'[c] = m
      BY <1>6, <1>9
    <3>3. CASE b = c
      BY <2>3, <3>1, <3>2, <3>3
    <3>4. CASE d = c
      BY <2>3, <3>1, <3>2, <3>4
    <3>5. CASE b # c /\ d # c
      BY <2>3, <3>1, <3>5 DEF LogInv, Appending
    <3> QED BY <3>3, <3>4, <3>5
  <2>4. ASSUME NEW d \in Connections, step'[d] = "inserted"
        PROVE  open'[d] # <<>> /\ mine'[d].event \in Events(View(d))
    <3>1. d # c /\ step[d] = "inserted" /\ mine'[d] = mine[d]
      BY <1>6, <1>9, <2>4
    <3> QED BY <1>1, <3>1 DEF LogInv, Appending
  <2>5. \A d \in Connections : Events(View(d))' = Events(View(d))
    BY <1>8 DEF Events
  <2>6. Events(rows)' = Events(rows)
    BY <1>1 DEF Events
  <2> QED BY <2>2, <2>3, <2>4, <2>5, <2>6 DEF Appending
<1>14. Seen'
  <2>1. Distinct(rows)' /\ \A d \in Connections : Distinct(View(d))'
    BY <1>1, <1>8 DEF LogInv, Seen, Distinct
  <2>2. ASSUME NEW d \in Connections, NEW e \in Events(View(d))' PROVE e <= created'
    <3>1. e \in Events(View(d))
      BY <1>8, <2>2 DEF Events
    <3> QED BY <1>1, <1>12, <3>1
  <2> QED BY <2>1, <2>2 DEF Seen
<1>15. Replays' /\ Lasting'
  BY <1>1, <1>8 DEF LogInv, Replays, Cut, Lasting, Events
<1>16. Chain'
  <2> SUFFICES ASSUME ~overlap'
               PROVE  /\ \A b, d \in Connections : b # d => ~(LogBusy(b)' /\ LogBusy(d)')
                      /\ \A d \in Connections :
                            /\ Intact(View(d))' /\ verdict'[d] # "broken"
                            /\ step'[d] = "read" => mine'[d].prev = LastHash(d)'
    BY DEF Chain
  <2>1. ~overlap /\ \A d \in Connections \ {c} : ~LogBusy(d)
    BY <1>6 DEF LogBusy
  <2>2. \A d \in Connections \ {c} : ~LogBusy(d)' /\ step'[d] # "read"
    BY <1>1, <1>6, <1>9, <2>1 DEF LogBusy
  <2>3. mine'[c].prev = LastHash(c)'
    BY <1>6, <1>7, <1>8, <1>9 DEF LastHash
  <2>4. \A d \in Connections : Intact(View(d))' /\ verdict'[d] # "broken"
    BY <1>1, <1>8, <2>1 DEF LogInv, Chain, Intact
  <2> QED BY <2>2, <2>3, <2>4
<1> QED BY <1>10, <1>11, <1>13, <1>14, <1>15, <1>16 DEF LogInv

\* Steps that leave the rows alone and begin no append.
LEMMA QuietInv ==
    ASSUME LogInv, TypeOK', Replays',
           UNCHANGED <<rows, open, created, returned, overlap>>,
           \A c \in Connections : step'[c] \in {"read", "inserted"} => step'[c] = step[c] /\ mine'[c] = mine[c],
           \A c \in Connections : verdict'[c] = "broken" => verdict[c] = "broken" \/ ~Intact(View(c))
    PROVE  LogInv'
<1>1. \A d \in Connections : View(d)' = View(d) /\ Events(View(d))' = Events(View(d))
  BY DEF View, Events
<1>2. Events(rows)' = Events(rows)
  BY DEF Events
<1>3. Locks' /\ Lasting'
  BY <1>2 DEF LogInv, Locks, Lasting
<1>4. Appending'
  BY <1>1, <1>2 DEF LogInv, Appending
<1>5. Seen'
  BY <1>1 DEF LogInv, Seen, Distinct
<1>6. Chain'
  <2> SUFFICES ASSUME ~overlap
               PROVE  /\ \A b, d \in Connections : b # d => ~(LogBusy(b)' /\ LogBusy(d)')
                      /\ \A d \in Connections :
                            /\ Intact(View(d))' /\ verdict'[d] # "broken"
                            /\ step'[d] = "read" => mine'[d].prev = LastHash(d)'
    BY DEF Chain
  <2>1. \A d \in Connections : LogBusy(d)' => LogBusy(d)
    BY DEF LogBusy
  <2>2. \A d \in Connections : Intact(View(d))' = Intact(View(d)) /\ LastHash(d)' = LastHash(d)
    BY <1>1 DEF Intact, LastHash
  <2> QED BY <2>1, <2>2 DEF LogInv, Chain
<1> QED BY <1>3, <1>4, <1>5, <1>6 DEF LogInv

\* A failed INSERT or commit, and a connection opened again.
LEMMA FailsInv ==
    ASSUME LogInv, NEW c \in Connections, InsertFails(c) \/ CommitFails(c) \/ Reopen(c)
    PROVE  LogInv'
<1>1. /\ UNCHANGED <<rows, open, created, returned, verdict, replayed, overlap>>
      /\ step' = [step EXCEPT ![c] = "idle"]
      /\ mine' = [mine EXCEPT ![c] = NoRow] \/ mine' = mine
  BY DEF InsertFails, CommitFails, Reopen
<1>2. TypeOK'
  BY <1>1 DEF LogInv, TypeOK
<1>3. \A d \in Connections : step'[d] \in {"read", "inserted"} => step'[d] = step[d] /\ mine'[d] = mine[d]
  BY <1>1 DEF LogInv, TypeOK
<1>4. Replays'
  BY <1>1 DEF LogInv, Replays, Cut, View
<1> QED BY <1>1, <1>2, <1>3, <1>4, QuietInv

\* verify_chain().
LEMMA VerifyInv == ASSUME LogInv, NEW c \in Connections, Verify(c) PROVE LogInv'
<1>1. /\ UNCHANGED <<rows, open, step, mine, created, returned, replayed, overlap>>
      /\ verdict' = [verdict EXCEPT ![c] = IF Intact(View(c)) THEN "intact" ELSE "broken"]
  BY DEF Verify
<1>2. TypeOK'
  BY <1>1 DEF LogInv, TypeOK
<1>3. Replays'
  BY <1>1 DEF LogInv, Replays, Cut, View
<1>4. \A d \in Connections : verdict'[d] = "broken" => verdict[d] = "broken" \/ ~Intact(View(d))
  BY <1>1 DEF LogInv, TypeOK
<1> QED BY <1>1, <1>2, <1>3, <1>4, QuietInv

\* replay().
LEMMA ReplayInv == ASSUME LogInv, NEW c \in Connections, Replay(c) PROVE LogInv'
<1>1. PICK i \in DOMAIN View(c) :
         replayed' = [replayed EXCEPT ![c] = [j \in 1..(Len(View(c)) - i + 1) |-> View(c)[i + j - 1].event]]
  BY DEF Replay
<1>2. UNCHANGED <<rows, open, step, mine, created, returned, verdict, overlap>>
  BY DEF Replay
<1> DEFINE r == [j \in 1..(Len(View(c)) - i + 1) |-> View(c)[i + j - 1].event]
<1>3. View(c) \in Seq(Rows) /\ DOMAIN View(c) = 1..Len(View(c)) /\ Len(View(c)) \in Nat
  BY ViewRows DEF LogInv
<1>4. \A j \in 1..(Len(View(c)) - i + 1) : i + j - 1 \in DOMAIN View(c)
  BY <1>3
<1>5. r \in Seq(1..MaxEvents)
  <2>1. \A j \in DOMAIN View(c) : View(c)[j] \in Rows
    BY <1>3
  <2>2. \A j \in 1..(Len(View(c)) - i + 1) : View(c)[i + j - 1].event \in 1..MaxEvents
    BY <1>4, <2>1 DEF Rows
  <2>3. Len(View(c)) - i + 1 \in Nat
    BY <1>3
  <2>4. r \in [1..(Len(View(c)) - i + 1) -> 1..MaxEvents]
    BY <2>2
  <2> QED BY <2>3, <2>4, IsSequence
<1>6. TypeOK'
  BY <1>1, <1>2, <1>5 DEF LogInv, TypeOK
<1>7. Replays'
  <2>1. \A d \in Connections : View(d)' = View(d)
    BY <1>2 DEF View
  <2>2. replayed \in [Connections -> Seq(1..MaxEvents)]
    BY DEF LogInv, TypeOK
  <2>3. ASSUME NEW d \in Connections, d # c PROVE \E s \in Nat : Cut(d, s)'
    <3>1. PICK s \in Nat : Cut(d, s)
      BY DEF LogInv, Replays
    <3>2. replayed'[d] = replayed[d]
      BY <1>1, <2>2, <2>3
    <3> QED BY <2>1, <3>1, <3>2 DEF Cut
  <2>4. \E s \in Nat : Cut(c, s)'
    <3>1. i - 1 \in Nat
      BY <1>3
    <3>2. replayed'[c] = r
      BY <1>1, <2>2
    <3>3. \A k \in 1..(Len(View(c)) - i + 1) :
             (i - 1) + k \in DOMAIN View(c) /\ r[k] = View(c)[(i - 1) + k].event
      <4> SUFFICES ASSUME NEW k \in 1..(Len(View(c)) - i + 1)
                   PROVE  (i - 1) + k \in DOMAIN View(c) /\ r[k] = View(c)[(i - 1) + k].event
        OBVIOUS
      <4>1. (i - 1) + k = i + k - 1
        BY <1>3
      <4> QED BY <1>4, <4>1
    <3>4. Cut(c, i - 1)'
      BY <2>1, <3>2, <3>3 DEF Cut
    <3> QED BY <3>1, <3>4
  <2> QED BY <2>3, <2>4 DEF Replays
<1> QED BY <1>2, <1>6, <1>7, QuietInv

\* The INSERT: nobody else's transaction is open.
LEMMA InsertInv == ASSUME LogInv, NEW c \in Connections, Insert(c) PROVE LogInv'
<1>1. /\ step[c] = "read" /\ open' = [open EXCEPT ![c] = Append(open[c], mine[c])]
      /\ step' = [step EXCEPT ![c] = "inserted"]
      /\ UNCHANGED <<rows, mine, created, returned, verdict, replayed, overlap>>
      /\ \A d \in Connections \ {c} : open[d] = <<>>
  BY DEF Insert, Locked
<1>2. /\ open \in [Connections -> Seq(Rows)]
      /\ step \in [Connections -> {"closed", "idle", "read", "inserted"}]
      /\ rows \in Seq(Rows)
  BY DEF LogInv, TypeOK
<1> DEFINE m == mine[c]
<1>3. m \in Rows /\ m.event <= created /\ m.event \notin Events(View(c))
  BY <1>1 DEF LogInv, Appending
<1>4. View(c) \in Seq(Rows) /\ open[c] \in Seq(Rows)
  BY ViewRows DEF LogInv
<1>5. View(c)' = Append(View(c), m) /\ open'[c] # <<>>
  <2>1. open'[c] = Append(open[c], m)
    BY <1>1, <1>2
  <2> QED BY <1>1, <1>2, <1>3, <1>4, <2>1, InFront, AppendRow, SMTT(40) DEF View
<1>6. \A d \in Connections \ {c} : View(d)' = View(d) /\ open'[d] = open[d] /\ step'[d] = step[d]
  BY <1>1, <1>2 DEF View
<1>7. Events(View(c))' = Events(View(c)) \union {m.event}
  BY <1>3, <1>4, <1>5, AppendEvents DEF Events
<1>8. \A d \in Connections \ {c} : Events(View(d))' = Events(View(d))
  BY <1>6 DEF Events
<1> HIDE DEF m
<1>9. TypeOK'
  <2>1. Append(open[c], m) \in Seq(Rows)
    BY <1>3, <1>4, AppendRow
  <2> QED BY <1>1, <1>2, <2>1 DEF m, LogInv, TypeOK
<1>10. Locks'
  BY <1>1, <1>6 DEF Locks
<1>11. Appending'
  <2>1. step'[c] = "inserted"
    BY <1>1, <1>2
  <2>2. ASSUME NEW d \in Connections, step'[d] = "read"
        PROVE  /\ mine'[d] \in Rows /\ mine'[d].event <= created'
               /\ mine'[d].event \notin Events(rows)'
               /\ \A b \in Connections : mine'[d].event \notin Events(View(b))'
    <3>1. d # c /\ step[d] = "read" /\ mine'[d] = mine[d]
      BY <1>1, <1>6, <2>1, <2>2
    <3>2. mine[d].event # m.event
      BY <1>1, <3>1 DEF m, LogInv, Appending
    <3>3. \A b \in Connections : mine[d].event \notin Events(View(b))
      BY <3>1 DEF LogInv, Appending
    <3>4. \A b \in Connections : mine[d].event \notin Events(View(b))'
      BY <1>7, <1>8, <3>2, <3>3
    <3>5. Events(rows)' = Events(rows)
      BY <1>1 DEF Events
    <3> QED BY <1>1, <3>1, <3>4, <3>5 DEF LogInv, Appending
  <2>3. ASSUME NEW b \in Connections, NEW d \in Connections, b # d, step'[b] = "read", step'[d] = "read"
        PROVE  mine'[b].event # mine'[d].event
    <3>1. b # c /\ d # c /\ step[b] = "read" /\ step[d] = "read"
      BY <1>6, <2>1, <2>3
    <3> QED BY <1>1, <2>3, <3>1 DEF LogInv, Appending
  <2>4. ASSUME NEW d \in Connections, step'[d] = "inserted"
        PROVE  open'[d] # <<>> /\ mine'[d].event \in Events(View(d))'
    <3>1. CASE d = c
      BY <1>1, <1>5, <1>7, <3>1 DEF m
    <3>2. CASE d # c
      <4>1. step[d] = "inserted" /\ open[d] = <<>>
        BY <1>1, <1>6, <2>4, <3>2
      <4> QED BY <4>1 DEF LogInv, Appending
    <3> QED BY <3>1, <3>2
  <2> QED BY <2>2, <2>3, <2>4 DEF Appending
<1>12. Seen'
  <2>1. Distinct(Append(View(c), m))
    BY <1>3, <1>4, AppendDistinct DEF m, LogInv, Seen
  <2>2. Distinct(View(c))'
    BY <1>5, <2>1 DEF Distinct
  <2>3. Distinct(rows)' /\ \A d \in Connections \ {c} : Distinct(View(d))'
    BY <1>1, <1>6 DEF LogInv, Seen, Distinct
  <2>4. \A d \in Connections : \A e \in Events(View(d))' : e <= created'
    BY <1>1, <1>3, <1>7, <1>8 DEF m, LogInv, Seen
  <2> QED BY <2>2, <2>3, <2>4 DEF Seen
<1>13. Replays'
  <2> SUFFICES ASSUME NEW d \in Connections PROVE \E s \in Nat : Cut(d, s)'
    BY DEF Replays
  <2>1. PICK s \in Nat : Cut(d, s)
    BY DEF LogInv, Replays
  <2>2. \A i \in DOMAIN View(d) : i \in DOMAIN View(d)' /\ View(d)'[i] = View(d)[i]
    <3>1. CASE d = c
      BY <1>3, <1>4, <1>5, <3>1, AppendRow
    <3>2. CASE d # c
      BY <1>6, <3>2
    <3> QED BY <3>1, <3>2
  <2>3. Cut(d, s)'
    BY <1>1, <2>1, <2>2 DEF Cut
  <2> QED BY <2>3
<1>14. Lasting'
  BY <1>1 DEF LogInv, Lasting, Events
<1>15. Chain'
  <2> SUFFICES ASSUME ~overlap
               PROVE  /\ \A b, d \in Connections : b # d => ~(LogBusy(b)' /\ LogBusy(d)')
                      /\ \A d \in Connections :
                            /\ Intact(View(d))' /\ verdict'[d] # "broken"
                            /\ step'[d] = "read" => mine'[d].prev = LastHash(d)'
    BY <1>1 DEF Chain
  <2>1. LogBusy(c) /\ \A d \in Connections \ {c} : ~LogBusy(d)
    BY <1>1 DEF LogInv, Chain, LogBusy
  <2>2. \A d \in Connections \ {c} : ~LogBusy(d)' /\ step'[d] # "read"
    BY <1>6, <2>1 DEF LogBusy
  <2>3. m.prev = LastHash(c) /\ Intact(View(c))
    BY <1>1 DEF m, LogInv, Chain
  <2>4. Intact(Append(View(c), m))
    BY <1>3, <1>4, <2>3, AppendIntact DEF m, LastHash
  <2>5. Intact(View(c))'
    BY <1>5, <2>4 DEF Intact, m
  <2>6. \A d \in Connections \ {c} : Intact(View(d))'
    BY <1>6 DEF LogInv, Chain, Intact
  <2>7. \A d \in Connections : verdict'[d] # "broken"
    BY <1>1 DEF LogInv, Chain
  <2>8. step'[c] # "read"
    BY <1>1, <1>2
  <2> QED BY <2>2, <2>5, <2>6, <2>7, <2>8
<1> QED BY <1>9, <1>10, <1>11, <1>12, <1>13, <1>14, <1>15 DEF LogInv

\* The commit: the transaction becomes part of the log, for everybody to see.
LEMMA CommitInv == ASSUME LogInv, NEW c \in Connections, Commit(c) PROVE LogInv'
<1>1. /\ step[c] = "inserted" /\ rows' = View(c) /\ open' = [open EXCEPT ![c] = <<>>]
      /\ returned' = returned \union {mine[c].event}
      /\ step' = [step EXCEPT ![c] = "idle"] /\ mine' = [mine EXCEPT ![c] = NoRow]
      /\ UNCHANGED <<created, verdict, replayed, overlap>>
  BY DEF Commit, View
<1>2. /\ open \in [Connections -> Seq(Rows)]
      /\ step \in [Connections -> {"closed", "idle", "read", "inserted"}]
      /\ mine \in [Connections -> Rows \union {NoRow}]
      /\ rows \in Seq(Rows) /\ View(c) \in Seq(Rows) /\ open[c] \in Seq(Rows)
  BY ViewRows DEF LogInv, TypeOK
<1>3. open[c] # <<>> /\ mine[c].event \in Events(View(c))
  BY <1>1 DEF LogInv, Appending
<1>4. \A d \in Connections \ {c} : open[d] = <<>> /\ step[d] # "inserted" /\ View(d) = rows
  <2>1. \A d \in Connections \ {c} : open[d] = <<>>
    BY <1>3 DEF LogInv, Locks
  <2>2. \A d \in Connections \ {c} : step[d] # "inserted"
    BY <2>1 DEF LogInv, Appending
  <2> QED BY <1>2, <2>1, <2>2, InFront DEF View
<1>5. \A d \in Connections : open'[d] = <<>>
  BY <1>1, <1>2, <1>4
<1>6. \A d \in Connections : View(d)' = View(c)
  <2>1. View(c) \o <<>> = View(c)
    BY <1>2, InFront
  <2> QED BY <1>1, <1>5, <2>1 DEF View
<1>7. \A d \in Connections : Events(View(d))' = Events(View(c))
  BY <1>6 DEF Events
<1>8. Events(rows)' = Events(View(c)) /\ Events(rows) \subseteq Events(View(c))
  <2>1. Events(rows) \subseteq Events(View(c))
    BY <1>2, FrontEvents DEF View
  <2> QED BY <1>1, <2>1 DEF Events
<1>9. TypeOK'
  <2>1. mine[c].event \in 1..MaxEvents
    <3>1. PICK i \in DOMAIN View(c) : mine[c].event = View(c)[i].event
      BY <1>3 DEF Events
    <3>2. View(c)[i] \in Rows
      BY <1>2
    <3> QED BY <3>1, <3>2 DEF Rows
  <2>2. <<>> \in Seq(Rows)
    OBVIOUS
  <2> QED BY <1>1, <1>2, <2>1, <2>2 DEF LogInv, TypeOK
<1>10. Locks'
  BY <1>5 DEF Locks
<1>11. \A d \in Connections : step'[d] \in {"read", "inserted"} =>
          d # c /\ step'[d] = "read" /\ step[d] = "read" /\ mine'[d] = mine[d]
  BY <1>1, <1>2, <1>4
<1>12. Appending'
  <2>1. ASSUME NEW d \in Connections, step'[d] = "read"
        PROVE  /\ mine'[d] \in Rows /\ mine'[d].event <= created'
               /\ mine'[d].event \notin Events(rows)'
               /\ \A b \in Connections : mine'[d].event \notin Events(View(b))'
    BY <1>1, <1>7, <1>8, <1>11, <2>1 DEF LogInv, Appending
  <2>2. ASSUME NEW b \in Connections, NEW d \in Connections, b # d, step'[b] = "read", step'[d] = "read"
        PROVE  mine'[b].event # mine'[d].event
    BY <1>11, <2>2 DEF LogInv, Appending
  <2>3. \A d \in Connections : step'[d] # "inserted"
    BY <1>11
  <2> QED BY <2>1, <2>2, <2>3 DEF Appending
<1>13. Seen'
  <2>1. Distinct(View(c)) /\ \A e \in Events(View(c)) : e <= created
    BY DEF LogInv, Seen
  <2>2. Distinct(rows)' /\ \A d \in Connections : Distinct(View(d))'
    BY <1>1, <1>6, <2>1 DEF Distinct
  <2> QED BY <1>1, <1>7, <2>1, <2>2 DEF Seen
<1>14. Replays'
  <2> SUFFICES ASSUME NEW d \in Connections PROVE \E s \in Nat : Cut(d, s)'
    BY DEF Replays
  <2>1. PICK s \in Nat : Cut(d, s)
    BY DEF LogInv, Replays
  <2>2. \A i \in DOMAIN View(d) : i \in DOMAIN View(c) /\ View(c)[i] = View(d)[i]
    <3>1. CASE d = c
      BY <3>1
    <3>2. CASE d # c
      <4>1. View(d) = rows
        BY <1>4, <3>2
      <4> QED BY <1>2, <4>1, InFront DEF View
    <3> QED BY <3>1, <3>2
  <2>3. Cut(d, s)'
    BY <1>1, <1>6, <2>1, <2>2 DEF Cut
  <2> QED BY <2>3
<1>15. Lasting'
  BY <1>1, <1>3, <1>8 DEF LogInv, Lasting
<1>16. Chain'
  <2> SUFFICES ASSUME ~overlap
               PROVE  /\ \A b, d \in Connections : b # d => ~(LogBusy(b)' /\ LogBusy(d)')
                      /\ \A d \in Connections :
                            /\ Intact(View(d))' /\ verdict'[d] # "broken"
                            /\ step'[d] = "read" => mine'[d].prev = LastHash(d)'
    BY <1>1 DEF Chain
  <2>1. LogBusy(c) /\ \A d \in Connections \ {c} : ~LogBusy(d)
    BY <1>1 DEF LogInv, Chain, LogBusy
  <2>2. \A d \in Connections : ~LogBusy(d)' /\ step'[d] # "read"
    BY <1>5, <1>11, <2>1 DEF LogBusy
  <2>3. \A d \in Connections : Intact(View(d))'
    <3>1. Intact(View(c))
      BY DEF LogInv, Chain
    <3> QED BY <1>6, <3>1 DEF Intact
  <2>4. \A d \in Connections : verdict'[d] # "broken"
    BY <1>1 DEF LogInv, Chain
  <2> QED BY <2>2, <2>3, <2>4
<1> QED BY <1>9, <1>10, <1>12, <1>13, <1>14, <1>15, <1>16 DEF LogInv

\* A connection is closed, or its process killed: the open transaction is gone.
LEMMA CloseInv == ASSUME LogInv, NEW c \in Connections, Close(c) PROVE LogInv'
<1>1. /\ open' = [open EXCEPT ![c] = <<>>] /\ step' = [step EXCEPT ![c] = "closed"]
      /\ mine' = [mine EXCEPT ![c] = NoRow] /\ verdict' = [verdict EXCEPT ![c] = "none"]
      /\ replayed' = [replayed EXCEPT ![c] = <<>>]
      /\ UNCHANGED <<rows, created, returned, overlap>>
  BY DEF Close
<1>2. /\ open \in [Connections -> Seq(Rows)]
      /\ step \in [Connections -> {"closed", "idle", "read", "inserted"}]
      /\ mine \in [Connections -> Rows \union {NoRow}]
      /\ verdict \in [Connections -> {"none", "intact", "broken"}]
      /\ replayed \in [Connections -> Seq(1..MaxEvents)]
      /\ rows \in Seq(Rows) /\ open[c] \in Seq(Rows)
  BY ViewRows DEF LogInv, TypeOK
<1>3. open'[c] = <<>> /\ View(c)' = rows /\ step'[c] = "closed"
  BY <1>1, <1>2, InFront DEF View
<1>4. \A d \in Connections \ {c} :
         /\ View(d)' = View(d) /\ open'[d] = open[d] /\ step'[d] = step[d] /\ mine'[d] = mine[d]
         /\ replayed'[d] = replayed[d] /\ verdict'[d] = verdict[d]
  BY <1>1, <1>2 DEF View
<1>5. /\ \A d \in Connections : Events(View(d))' \subseteq Events(View(d))
      /\ \A d \in Connections \ {c} : Events(View(d))' = Events(View(d))
      /\ Events(rows)' = Events(rows)
  <2>1. Events(rows) \subseteq Events(View(c))
    BY <1>2, FrontEvents DEF View
  <2>2. Events(View(c))' = Events(rows)
    BY <1>3 DEF Events
  <2>3. \A d \in Connections \ {c} : Events(View(d))' = Events(View(d))
    BY <1>4 DEF Events
  <2> QED BY <1>1, <2>1, <2>2, <2>3 DEF Events
<1>6. TypeOK'
  <2>1. <<>> \in Seq(Rows) /\ <<>> \in Seq(1..MaxEvents)
    OBVIOUS
  <2> QED BY <1>1, <1>2, <2>1 DEF LogInv, TypeOK
<1>7. Locks'
  BY <1>3, <1>4 DEF LogInv, Locks
<1>8. Appending'
  <2>1. ASSUME NEW d \in Connections, step'[d] = "read"
        PROVE  /\ mine'[d] \in Rows /\ mine'[d].event <= created'
               /\ mine'[d].event \notin Events(rows)'
               /\ \A b \in Connections : mine'[d].event \notin Events(View(b))'
    <3>1. d # c /\ step[d] = "read" /\ mine'[d] = mine[d]
      BY <1>3, <1>4, <2>1
    <3> QED BY <1>1, <1>5, <3>1 DEF LogInv, Appending
  <2>2. ASSUME NEW b \in Connections, NEW d \in Connections, b # d, step'[b] = "read", step'[d] = "read"
        PROVE  mine'[b].event # mine'[d].event
    BY <1>3, <1>4, <2>2 DEF LogInv, Appending
  <2>3. ASSUME NEW d \in Connections, step'[d] = "inserted"
        PROVE  open'[d] # <<>> /\ mine'[d].event \in Events(View(d))'
    BY <1>3, <1>4, <1>5, <2>3 DEF LogInv, Appending
  <2> QED BY <2>1, <2>2, <2>3 DEF Appending
<1>9. Seen'
  <2>1. Distinct(rows) /\ \A d \in Connections : Distinct(View(d)) /\ \A e \in Events(View(d)) : e <= created
    BY DEF LogInv, Seen
  <2>2. Distinct(rows)' /\ \A d \in Connections : Distinct(View(d))'
    BY <1>1, <1>3, <1>4, <2>1 DEF Distinct
  <2> QED BY <1>1, <1>5, <2>1, <2>2 DEF Seen
<1>10. Replays'
  <2>1. Cut(c, 0)'
    BY <1>1, <1>2 DEF Cut
  <2>2. ASSUME NEW d \in Connections \ {c} PROVE \E s \in Nat : Cut(d, s)'
    BY <1>4 DEF LogInv, Replays, Cut
  <2> QED BY <2>1, <2>2 DEF Replays
<1>11. Lasting'
  BY <1>1, <1>5 DEF LogInv, Lasting
<1>12. Chain'
  <2> SUFFICES ASSUME ~overlap
               PROVE  /\ \A b, d \in Connections : b # d => ~(LogBusy(b)' /\ LogBusy(d)')
                      /\ \A d \in Connections :
                            /\ Intact(View(d))' /\ verdict'[d] # "broken"
                            /\ step'[d] = "read" => mine'[d].prev = LastHash(d)'
    BY <1>1 DEF Chain
  <2>1. \A d \in Connections : LogBusy(d)' => LogBusy(d)
    BY <1>3, <1>4 DEF LogBusy
  <2>2. Intact(View(c))
    BY DEF LogInv, Chain
  <2>3. Intact(rows)
    BY <1>2, <2>2, FrontIntact DEF View
  <2>4. \A d \in Connections : Intact(View(d))'
    BY <1>3, <1>4, <2>3 DEF LogInv, Chain, Intact
  <2>5. \A d \in Connections : verdict'[d] # "broken"
    BY <1>1, <1>2 DEF LogInv, Chain
  <2>6. \A d \in Connections : step'[d] = "read" => mine'[d].prev = LastHash(d)'
    BY <1>3, <1>4 DEF LogInv, Chain, LastHash
  <2> QED BY <2>1, <2>4, <2>5, <2>6 DEF LogInv, Chain
<1> QED BY <1>6, <1>7, <1>8, <1>9, <1>10, <1>11, <1>12 DEF LogInv

\* Whatever step a process takes.
LEMMA LogStep == ASSUME LogAssumption, LogInv, [Next]_vars PROVE LogInv'
<1>1. CASE UNCHANGED vars
  <2>1. TypeOK' /\ Replays'
    BY <1>1 DEF vars, LogInv, TypeOK, Replays, Cut, View
  <2> QED BY <1>1, <2>1, QuietInv DEF vars
<1>2. ASSUME NEW c \in Connections,
             \/ ReadLast(c) \/ Insert(c) \/ InsertFails(c) \/ Commit(c) \/ CommitFails(c)
             \/ Close(c) \/ Reopen(c) \/ Verify(c) \/ Replay(c)
      PROVE  LogInv'
  BY <1>2, ReadLastInv, InsertInv, FailsInv, CommitInv, CloseInv, VerifyInv, ReplayInv
<1> QED BY <1>1, <1>2 DEF Next

\* What the inductive invariant is for: a replay was cut from a log without
\* duplicates, so it is a gapless piece of it.
LEMMA LogHolds == ASSUME LogInv PROVE TypeOK /\ ChainVerifies /\ AppendsLast
<1>1. \A e \in returned : \E i \in DOMAIN rows : rows[i].event = e
  BY DEF LogInv, Lasting, Events
<1>2. \A i, j \in DOMAIN rows : i < j => rows[i].event # rows[j].event
  BY DEF LogInv, Seen, Distinct
<1>3. ASSUME NEW c \in Connections, NEW k \in DOMAIN replayed[c], NEW l \in DOMAIN replayed[c],
             NEW i \in DOMAIN rows, NEW j \in DOMAIN rows,
             replayed[c][k] = rows[i].event, replayed[c][l] = rows[j].event
      PROVE  i - j = k - l
  <2>1. PICK s \in Nat : Cut(c, s)
    BY DEF LogInv, Replays
  <2>2. View(c) \in Seq(Rows) /\ rows \in Seq(Rows) /\ open[c] \in Seq(Rows)
    BY ViewRows DEF LogInv
  <2>3. /\ i \in DOMAIN View(c) /\ View(c)[i] = rows[i]
        /\ j \in DOMAIN View(c) /\ View(c)[j] = rows[j]
    BY <2>2, InFront DEF View
  <2>4. /\ s + k \in DOMAIN View(c) /\ View(c)[s + k].event = View(c)[i].event
        /\ s + l \in DOMAIN View(c) /\ View(c)[s + l].event = View(c)[j].event
    BY <1>3, <2>1, <2>3 DEF Cut
  <2>5. \A a, b \in DOMAIN View(c) : View(c)[a].event = View(c)[b].event => a = b
    <3>1. \A a, b \in DOMAIN View(c) : a < b => View(c)[a].event # View(c)[b].event
      BY DEF LogInv, Seen, Distinct
    <3>2. \A a, b \in DOMAIN View(c) : a < b \/ b < a \/ a = b
      BY <2>2
    <3> QED BY <3>1, <3>2
  <2>6. s + k = i /\ s + l = j
    BY <2>3, <2>4, <2>5
  <2>7. k \in Nat /\ l \in Nat
    <3>1. replayed[c] \in Seq(1..MaxEvents)
      BY DEF LogInv, TypeOK
    <3> QED BY <3>1
  <2> QED BY <2>6, <2>7
<1>4. AppendsLast
  BY <1>1, <1>2, <1>3 DEF AppendsLast
<1> QED BY <1>4 DEF LogInv, Chain, ChainVerifies

-----------------------------------------------------------------------------

\* The rows, transactions and answers keep their types (SQLiteEventLog).
THEOREM LogType == ASSUME LogAssumption PROVE Spec => []TypeOK
<1>1. Init => LogInv
  BY LogInit
<1>2. LogInv /\ [Next]_vars => LogInv'
  BY LogStep
<1>3. LogInv => TypeOK
  BY LogHolds
<1> QED BY <1>1, <1>2, <1>3, PTL DEF Spec

\* verify_chain() accepts a log that nobody tampered with, through failed commits,
\* rollbacks and restarts, as long as no two processes append at once (append).
THEOREM LogVerifies == ASSUME LogAssumption PROVE Spec => []ChainVerifies
<1>1. Init => LogInv
  BY LogInit
<1>2. LogInv /\ [Next]_vars => LogInv'
  BY LogStep
<1>3. LogInv => ChainVerifies
  BY LogHolds
<1> QED BY <1>1, <1>2, <1>3, PTL DEF Spec

\* An append that returned is in the log once and for all, however processes
\* interleave, crash and fail to commit, and what a replay returned stays a gapless
\* piece of the log (append, replay).
THEOREM AppendsLastForEver == ASSUME LogAssumption PROVE Spec => []AppendsLast
<1>1. Init => LogInv
  BY LogInit
<1>2. LogInv /\ [Next]_vars => LogInv'
  BY LogStep
<1>3. LogInv => AppendsLast
  BY LogHolds
<1> QED BY <1>1, <1>2, <1>3, PTL DEF Spec

-----------------------------------------------------------------------------
(* ExecutionControl.                                                         *)

\* No worker is called "none", and the checkpoints are bounded.
ControlAssumption == Control!NoWorker \notin Workers /\ MaxCheckpoints \in Nat

ControlInv == Control!TypeOK /\ Control!WaiterReachable

\* What a fresh control is.
LEMMA ControlInitType == ASSUME ControlAssumption, Control!Init PROVE Control!TypeOK
<1>1. Control!Free \in [at : 0..MaxCheckpoints, set : BOOLEAN]
  BY DEF Control!Free, ControlAssumption
<1>2. wait \in [Workers -> [at : 0..MaxCheckpoints, set : BOOLEAN]]
  BY <1>1 DEF Control!Init
<1>3. events \in [Control!Checkpoints -> Workers \union {Control!NoWorker}]
  BY DEF Control!Init
<1>4. made \in 0..MaxCheckpoints /\ signal \in Control!Signals
  BY DEF Control!Init, ControlAssumption, Control!Signals
<1> QED BY <1>2, <1>3, <1>4 DEF Control!Init, Control!TypeOK

\* Every action keeps the type.
LEMMA ControlKeepsType == ASSUME ControlAssumption, Control!TypeOK, [Control!Next]_Control!vars PROVE Control!TypeOK'
<1> USE DEF Control!TypeOK, ControlAssumption, Control!Signals, Control!Checkpoints, Control!NoWorker, Control!Free
<1>1. CASE Control!Pause
  BY <1>1 DEF Control!Pause
<1>2. CASE Control!Checkpoint
  BY <1>2 DEF Control!Checkpoint
<1>3. CASE Control!RequestCancel \/ Control!ClearSignal \/ Control!FileRequest \/ Control!FileResume
  BY <1>3 DEF Control!RequestCancel, Control!ClearSignal, Control!FileRequest, Control!FileResume
<1>4. CASE Control!FilePause
  BY <1>4 DEF Control!FilePause
<1>5. ASSUME NEW k \in Control!Checkpoints, Control!Resume(k) PROVE Control!TypeOK'
  <2>1. resumed' \subseteq 1..made' /\ pending' \subseteq 1..made'
    BY <1>5 DEF Control!Resume
  <2>2. wait' \in [Workers -> [at : 0..MaxCheckpoints, set : BOOLEAN]]
    <3>1. CASE events[k] = Control!NoWorker
      BY <1>5, <3>1 DEF Control!Resume
    <3>2. CASE events[k] # Control!NoWorker
      <4>1. \A w \in Workers : [wait[w] EXCEPT !.set = TRUE] \in [at : 0..MaxCheckpoints, set : BOOLEAN]
        OBVIOUS
      <4>2. wait' = [w \in Workers |-> IF w = events[k] /\ wait[w].at = k
                                      THEN [wait[w] EXCEPT !.set = TRUE] ELSE wait[w]]
        BY <1>5, <3>2 DEF Control!Resume
      <4> QED BY <4>1, <4>2
    <3> QED BY <3>1, <3>2
  <2> QED BY <1>5, <2>1, <2>2 DEF Control!Resume
<1>6. ASSUME NEW k \in Control!Checkpoints, NEW w \in Workers, Control!BeginWait(w, k) PROVE Control!TypeOK'
  BY <1>6 DEF Control!BeginWait
<1>7. ASSUME NEW w \in Workers, Control!EndWait(w) PROVE Control!TypeOK'
  BY <1>7 DEF Control!EndWait
<1>8. ASSUME NEW w \in Workers, Control!CancelWait(w) PROVE Control!TypeOK'
  BY <1>8 DEF Control!CancelWait
<1>9. CASE UNCHANGED Control!vars
  BY <1>9 DEF Control!vars
<1> QED BY <1>1, <1>2, <1>3, <1>4, <1>5, <1>6, <1>7, <1>8, <1>9 DEF Control!Next

\* A waiter keeps its way out: whoever ends a wait takes only its own event away,
\* and whoever resumes a checkpoint sets the event of the one that waits there.
LEMMA ControlKeepsWaiters ==
    ASSUME ControlAssumption, Control!TypeOK, Control!TypeOK', Control!WaiterReachable, [Control!Next]_Control!vars
    PROVE  Control!WaiterReachable'
<1> SUFFICES ASSUME ~crowded', NEW v \in Workers, wait'[v].at # 0
             PROVE  /\ events'[wait'[v].at] = v
                    /\ wait'[v].set <=> wait'[v].at \notin pending'
  BY DEF Control!WaiterReachable
<1> USE DEF Control!TypeOK, ControlAssumption, Control!Checkpoints, Control!NoWorker, Control!Free, Control!WaiterReachable
<1>1. CASE \/ Control!Pause \/ Control!Checkpoint \/ Control!RequestCancel \/ Control!ClearSignal
           \/ Control!FilePause \/ Control!FileRequest \/ Control!FileResume \/ UNCHANGED Control!vars
  BY <1>1 DEF Control!Pause, Control!Checkpoint, Control!RequestCancel, Control!ClearSignal, Control!FilePause, Control!FileRequest,
              Control!FileResume, Control!vars
<1>2. ASSUME NEW k \in Control!Checkpoints, Control!Resume(k)
      PROVE  events'[wait'[v].at] = v /\ (wait'[v].set <=> wait'[v].at \notin pending')
  <2>1. /\ wait'[v].at = wait[v].at /\ wait[v].at # 0
        /\ events' = events /\ ~crowded
    BY <1>2 DEF Control!Resume
  <2>2. events[wait[v].at] = v /\ (wait[v].set <=> wait[v].at \notin pending)
    BY <2>1
  <2>3. CASE wait[v].at = k
    <3>1. events[k] = v /\ events[k] # Control!NoWorker
      BY <2>2, <2>3
    <3>2. wait'[v].set /\ k \notin pending'
      BY <1>2, <2>3, <3>1 DEF Control!Resume
    <3> QED BY <2>1, <2>2, <2>3, <3>2
  <2>4. CASE wait[v].at # k
    <3>1. wait'[v].set = wait[v].set
      BY <1>2, <2>4 DEF Control!Resume
    <3>2. wait[v].at \in pending' <=> wait[v].at \in pending
      BY <1>2, <2>4 DEF Control!Resume
    <3> QED BY <2>1, <2>2, <3>1, <3>2
  <2> QED BY <2>3, <2>4
<1>3. ASSUME NEW k \in Control!Checkpoints, NEW w \in Workers, Control!BeginWait(w, k)
      PROVE  events'[wait'[v].at] = v /\ (wait'[v].set <=> wait'[v].at \notin pending')
  <2>1. CASE v = w
    BY <1>3, <2>1 DEF Control!BeginWait
  <2>2. CASE v # w
    <3>1. wait'[v] = wait[v] /\ ~crowded /\ wait[v].at # k
      BY <1>3, <2>2 DEF Control!BeginWait
    <3>2. /\ events'[wait[v].at] = events[wait[v].at]
          /\ wait[v].at \in pending' <=> wait[v].at \in pending
      BY <1>3, <3>1 DEF Control!BeginWait
    <3> QED BY <3>1, <3>2
  <2> QED BY <2>1, <2>2
<1>4. ASSUME NEW w \in Workers, Control!EndWait(w)
      PROVE  events'[wait'[v].at] = v /\ (wait'[v].set <=> wait'[v].at \notin pending')
  <2>1. v # w /\ wait'[v] = wait[v] /\ ~crowded
    BY <1>4 DEF Control!EndWait
  <2>2. events[wait[v].at] = v /\ events[wait[w].at] = w
    BY <1>4, <2>1 DEF Control!EndWait
  <2>3. wait[v].at # wait[w].at
    BY <2>1, <2>2
  <2>4. events'[wait[v].at] = v /\ pending' = pending
    BY <1>4, <2>2, <2>3 DEF Control!EndWait
  <2> QED BY <2>1, <2>4
<1>5. ASSUME NEW w \in Workers, Control!CancelWait(w)
      PROVE  events'[wait'[v].at] = v /\ (wait'[v].set <=> wait'[v].at \notin pending')
  BY <1>5 DEF Control!CancelWait
<1> QED BY <1>1, <1>2, <1>3, <1>4, <1>5 DEF Control!Next

\* Both hold at the start and are kept.
LEMMA ControlInit == ASSUME ControlAssumption, Control!Init PROVE ControlInv
<1>1. Control!WaiterReachable
  BY DEF Control!Init, Control!WaiterReachable, Control!Free
<1> QED BY <1>1, ControlInitType DEF ControlInv

LEMMA ControlStep == ASSUME ControlAssumption, ControlInv, [Control!Next]_Control!vars PROVE ControlInv'
BY ControlKeepsType, ControlKeepsWaiters DEF ControlInv

\* The signal, the checkpoints and the waits keep their types (DefaultExecutionControl
\* and FileExecutionControl).
THEOREM ControlType == ASSUME ControlAssumption PROVE Control!Spec => []Control!TypeOK
<1>1. Control!Init => Control!TypeOK
  BY ControlInitType
<1>2. Control!TypeOK /\ [Control!Next]_Control!vars => Control!TypeOK'
  BY ControlKeepsType
<1> QED BY <1>1, <1>2, PTL DEF Control!Spec

\* A task that waits for a human can be released whatever pauses, resumes and
\* cancelled waits come in between, unless two have waited at one checkpoint
\* (wait_for_human, resume).
THEOREM WaitersReachable == ASSUME ControlAssumption PROVE Control!Spec => []Control!WaiterReachable
<1>1. Control!Init => ControlInv
  BY ControlInit
<1>2. ControlInv /\ [Control!Next]_Control!vars => ControlInv'
  BY ControlStep
<1>3. ControlInv => Control!WaiterReachable
  BY DEF ControlInv
<1> QED BY <1>1, <1>2, <1>3, PTL DEF Control!Spec

-----------------------------------------------------------------------------
(* Checkpoints.                                                              *)

SavesParameters ==
    /\ Backends \subseteq {"memory", "file"}
    /\ Kept \in Nat /\ MaxSaves \in Nat
    /\ Memories \subseteq Nat /\ Processes # {}
    /\ \E m \in Memories : \A n \in Memories : m <= n

\* What a save is to be restored to, until it is deleted or others have followed.
SavesHeld(s, e, u, k, m) ==
    k \notin e /\ u - k < Kept => s[k].is = "checkpoint" /\ s[k].stm = m

\* The youngest checkpoints are the latest: those that a save is about to remove
\* have enough others behind them.
SavesOrder ==
    /\ \A k \in Saves!Readable : store[k].at < clock
    /\ \A k, j \in Saves!Readable : k < j => store[k].at < store[j].at
    /\ \A p \in Processes : \A k \in job[p].doomed : k \in 1..used /\ used - k >= Kept
    /\ \A k \in Saves!Ids :
          saved[k] # Saves!None => k \in 1..used /\ SavesHeld(store, erased, used, k, saved[k].stm)
    /\ \A p \in Processes :
          job[p].phase # "idle" => SavesHeld(store, erased, used, job[p].id, stm[p])

SavesType ==
    /\ Saves!TypeOK
    /\ legacy.stm = {} \/ \E m \in Memories : legacy.stm = {m}
    /\ legacy.idx = {} \/ \E i \in {0, 1} : legacy.idx = {i}
    /\ \A k \in Saves!Ids : store[k] # Saves!None => k \in 1..used
    /\ \A p \in Processes : job[p].phase # "idle" => job[p].id \in 1..used

SavesInv == SavesType /\ (~setBack => SavesOrder)

LEMMA SavesMin ==
    ASSUME SavesParameters
    PROVE  /\ Saves!Min(Memories) \in Memories
           /\ \A n \in Nat : Saves!Min({n}) = n
  <1>1. Saves!Min(Memories) \in Memories
    BY Zenon DEF Saves!Min, SavesParameters
  <1>2. ASSUME NEW n \in Nat
        PROVE  Saves!Min({n}) = n
    <2>1. \E x \in {n} : \A y \in {n} : x <= y
      OBVIOUS
    <2>2. Saves!Min({n}) \in {n}
      BY <2>1, Zenon DEF Saves!Min
    <2> QED BY <2>2
  <1> QED BY <1>1, <1>2

\* Readable checkpoints at least Kept others are younger than are old.
LEMMA SavesOldest ==
    ASSUME SavesParameters, SavesType, SavesOrder, NEW k \in Saves!Oldest
    PROVE  k \in 1..used /\ used - k >= Kept
  <1> DEFINE Younger == {j \in Saves!Readable : store[j].at > store[k].at}
  <1>1. /\ k \in Saves!Readable /\ Saves!Cardinality(Younger) >= Kept
    BY DEF Saves!Oldest
  <1>2. Saves!Readable \subseteq 1..used /\ used \in Nat
    BY DEF Saves!Readable, SavesType, Saves!TypeOK, Saves!Ids, Saves!None, SavesParameters
  <1>3. Younger \subseteq (k + 1)..used
    <2>1. ASSUME NEW j \in Younger
          PROVE  j > k
      <3>1. j \in Saves!Readable /\ store[j].at > store[k].at
        OBVIOUS
      <3>2. store[j].at \in Nat /\ store[k].at \in Nat
        BY <1>1, <3>1 DEF Saves!Readable, SavesType, Saves!TypeOK, Saves!Stored, Saves!None,
                          Saves!Cut
      <3>3. j \in Nat /\ k \in Nat
        BY <1>1, <1>2, <3>1
      <3>4. j < k => store[j].at < store[k].at
        BY <1>1, <3>1 DEF SavesOrder
      <3>5. j = k => store[j].at = store[k].at
        OBVIOUS
      <3> QED BY <3>1, <3>2, <3>3, <3>4, <3>5
    <2>2. \A j \in Younger : j \in 1..used
      BY <1>2
    <2>3. k \in 1..used
      BY <1>1, <1>2
    <2>4. \A j \in 1..used : j > k => j \in (k + 1)..used
      BY <1>2, <2>3
    <2> QED BY <2>1, <2>2, <2>4, Zenon
  <1>4. k \in 1..used
    BY <1>1, <1>2
  <1>5. IsFiniteSet((k + 1)..used) /\ Cardinality((k + 1)..used) = used - k
    BY <1>2, <1>4, FS_Interval
  <1>6. Cardinality(Younger) <= used - k
    BY <1>3, <1>5, FS_Subset
  <1>7. Saves!Cardinality(Younger) = Cardinality(Younger)
    BY Zenon DEF Saves!Cardinality, Cardinality
  <1>8. Cardinality(Younger) \in Nat
    BY <1>3, <1>5, FS_Subset, FS_CardinalityType
  <1> QED BY <1>1, <1>2, <1>4, <1>6, <1>7, <1>8 DEF SavesParameters

LEMMA SavesTypeInit ==
    ASSUME SavesParameters, Saves!Init
    PROVE  SavesInv
  <1> USE DEF Saves!Init, SavesParameters
  <1>1. Saves!TypeOK
    <2>1. store \in [Saves!Ids -> Saves!Stored \union {Saves!None, Saves!Cut}]
      OBVIOUS
    <2>2. stm \in [Processes -> Memories]
      BY SavesMin
    <2>3. job \in [Processes -> [phase : {"idle", "written", "trimming"}, id : 0..MaxSaves,
                                 doomed : SUBSET Saves!Ids]]
      BY DEF Saves!Idle
    <2>4. legacy \in Saves!Payloads
      BY DEF Saves!Empty, Saves!Payloads
    <2>5. saved \in [Saves!Ids -> [is : {"saved"}, stm : Memories] \union {Saves!None}]
      OBVIOUS
    <2>6. /\ backend \in {"memory", "file"} /\ clock \in Nat /\ setBack \in BOOLEAN
          /\ used \in 0..MaxSaves /\ erased \subseteq Saves!Ids /\ idx \in {0, 1}
      <3>1. backend \in {"memory", "file"} /\ clock \in Nat /\ used \in 0..MaxSaves
        OBVIOUS
      <3>2. setBack \in BOOLEAN /\ erased \subseteq Saves!Ids
        BY Zenon
      <3>3. idx \in {0, 1}
        OBVIOUS
      <3> QED BY <3>1, <3>2, <3>3
    <2> QED BY <2>1, <2>2, <2>3, <2>4, <2>5, <2>6, Zenon DEF Saves!TypeOK
  <1>2. SavesType
    BY <1>1 DEF SavesType, Saves!Empty, Saves!Idle
  <1>3. SavesOrder
    BY DEF SavesOrder, Saves!Readable, Saves!None, Saves!Idle
  <1> QED BY <1>2, <1>3 DEF SavesInv

LEMMA SavesTypeStep ==
    ASSUME SavesParameters, SavesType, [Saves!Next]_Saves!vars
    PROVE  SavesType'
  <1> DEFINE Jobs == [phase : {"idle", "written", "trimming"}, id : 0..MaxSaves,
                      doomed : SUBSET Saves!Ids]
             Files == Saves!Stored \union {Saves!None, Saves!Cut}
             Typed == /\ backend' \in {"memory", "file"} /\ clock' \in Nat /\ setBack' \in BOOLEAN
                      /\ used' \in 0..MaxSaves /\ erased' \subseteq Saves!Ids
                      /\ store' \in [Saves!Ids -> Files] /\ stm' \in [Processes -> Memories]
                      /\ job' \in [Processes -> Jobs] /\ idx' \in {0, 1}
                      /\ saved' \in [Saves!Ids -> [is : {"saved"}, stm : Memories]
                                                     \union {Saves!None}]
             Older == \/ legacy'.stm = {} \/ \E m \in Memories : legacy'.stm = {m}
             Indexed == \/ legacy'.idx = {} \/ \E i \in {0, 1} : legacy'.idx = {i}
             Made == \A k \in Saves!Ids : store'[k] # Saves!None => k \in 1..used'
             Busy == \A p \in Processes : job'[p].phase # "idle" => job'[p].id \in 1..used'
  <1>1. /\ backend \in {"memory", "file"} /\ clock \in Nat /\ setBack \in BOOLEAN
        /\ used \in 0..MaxSaves /\ erased \subseteq Saves!Ids
        /\ store \in [Saves!Ids -> Files] /\ stm \in [Processes -> Memories]
        /\ job \in [Processes -> Jobs] /\ idx \in {0, 1} /\ legacy \in Saves!Payloads
        /\ saved \in [Saves!Ids -> [is : {"saved"}, stm : Memories] \union {Saves!None}]
    BY DEF SavesType, Saves!TypeOK
  <1>2. Typed /\ legacy' \in Saves!Payloads /\ Older /\ Indexed /\ Made /\ Busy => SavesType'
    BY DEF SavesType, Saves!TypeOK
  <1>3. /\ \A n \in Saves!Ids : n \in Nat \ {0} /\ n <= MaxSaves
        /\ \A n \in Nat : n # 0 /\ n <= MaxSaves => n \in Saves!Ids
        /\ MaxSaves \in Nat /\ used \in Nat /\ MaxSaves \in Nat
    BY <1>1 DEF Saves!Ids, SavesParameters
  <1>4. /\ Saves!Min(Memories) \in Memories /\ Saves!Main \in Processes
        /\ \A n \in Nat : Saves!Min({n}) = n
        /\ Memories \subseteq Nat /\ Saves!Idle \in Jobs /\ Saves!Idle.phase = "idle"
    BY SavesMin DEF SavesParameters, Saves!Main, Saves!Idle
  <1>5. /\ Saves!Empty \in Saves!Payloads /\ Saves!Empty.stm = {} /\ Saves!Empty.idx = {}
    BY DEF Saves!Empty, Saves!Payloads
  <1> USE DEF SavesType
  <1> HIDE DEF Typed, Older, Indexed, Made, Busy, Files, Jobs
  <1>6. ASSUME NEW p \in Processes, Saves!Killed(p), UNCHANGED used
        PROVE  /\ stm' \in [Processes -> Memories] /\ job' \in [Processes -> Jobs]
               /\ idx' \in {0, 1} /\ legacy' \in Saves!Payloads /\ Older /\ Indexed /\ Busy
    BY <1>1, <1>4, <1>5, <1>6 DEF Saves!Killed, Older, Indexed, Busy
  <1>7. ASSUME UNCHANGED <<legacy, idx>>
        PROVE  legacy' \in Saves!Payloads /\ Older /\ Indexed /\ idx' \in {0, 1}
    BY <1>1, <1>7 DEF Older, Indexed
  <1>8. ASSUME UNCHANGED <<store, used>>
        PROVE  Made /\ store' \in [Saves!Ids -> Files] /\ used' \in 0..MaxSaves
    BY <1>1, <1>8 DEF Made
  <1>9. ASSUME UNCHANGED <<job, used>>
        PROVE  Busy /\ job' \in [Processes -> Jobs]
    BY <1>1, <1>9 DEF Busy
  <1>10. ASSUME UNCHANGED <<backend, clock, setBack, used, saved>>, erased' \subseteq Saves!Ids,
                stm' \in [Processes -> Memories], job' \in [Processes -> Jobs], idx' \in {0, 1},
                store' \in [Saves!Ids -> Files]
         PROVE  Typed
    BY <1>1, <1>10 DEF Typed
  <1>11. ASSUME NEW p \in Processes, Saves!Talk(p)
         PROVE  SavesType'
    <2>1. stm' \in [Processes -> Memories] /\ idx' \in {0, 1}
      BY <1>1, <1>11 DEF Saves!Talk
    <2>2. UNCHANGED <<backend, clock, setBack, used, store, job, legacy, saved, erased>>
      BY <1>11 DEF Saves!Talk
    <2>3. Older /\ Indexed /\ legacy' \in Saves!Payloads
      BY <1>1, <2>2 DEF Older, Indexed
    <2> QED BY <1>1, <1>2, <1>8, <1>9, <1>10, <2>1, <2>2, <2>3
  <1>12. ASSUME NEW p \in Processes, Saves!Save(p)
         PROVE  SavesType'
    <2>1. PICK k : k = used + 1
      OBVIOUS
    <2>2. PICK c : c = Saves!Snapshot(p)
      OBVIOUS
    <2>3. PICK new : new = [phase |-> "written", id |-> k, doomed |-> {}]
      OBVIOUS
    <2>4. /\ used < MaxSaves /\ used' = k /\ Saves!Tick /\ UNCHANGED <<backend, saved, erased>>
          /\ \/ /\ store' = [store EXCEPT ![k] = c] /\ job' = [job EXCEPT ![p] = new]
                /\ UNCHANGED <<stm, idx, legacy>>
             \/ /\ store' = [store EXCEPT ![k] = Saves!Cut] /\ Saves!Killed(p)
      BY <1>12, <2>1, <2>2, <2>3, Zenon DEF Saves!Save
    <2>5. /\ k \in Saves!Ids /\ k \in 1..k /\ k \in 0..MaxSaves /\ used \in 0..k
      BY <1>1, <1>3, <2>1, <2>4
    <2>6. c \in Files /\ Saves!Cut \in Files /\ new \in Jobs /\ new.phase = "written" /\ new.id = k
      BY <1>1, <2>2, <2>3, <2>5 DEF Saves!Snapshot, Files, Saves!Stored, Jobs
    <2>7. clock' \in Nat /\ setBack' \in BOOLEAN
      <3>1. CASE clock' = clock + 1 /\ UNCHANGED setBack
        BY <1>1, <3>1
      <3>2. CASE clock > 1 /\ clock' = clock - 2 /\ setBack' = TRUE
        BY <1>1, <3>2
      <3> QED BY <2>4, <3>1, <3>2 DEF Saves!Tick
    <2>8. store' \in [Saves!Ids -> Files] /\ Made
      <3>1. \E x \in Files : store' = [store EXCEPT ![k] = x]
        BY <2>4, <2>6
      <3>2. \A j \in Saves!Ids : store[j] # Saves!None => j \in 1..k
        BY <1>3, <2>1
      <3> QED BY <1>1, <2>4, <2>5, <3>1, <3>2 DEF Made
    <2>9. /\ stm' \in [Processes -> Memories] /\ job' \in [Processes -> Jobs]
          /\ idx' \in {0, 1} /\ legacy' \in Saves!Payloads /\ Older /\ Indexed /\ Busy
      <3>1. CASE job' = [job EXCEPT ![p] = new] /\ UNCHANGED <<stm, idx, legacy>>
        <4>1. \A q \in Processes : job[q].phase # "idle" => job[q].id \in 1..k
          BY <1>3, <2>1
        <4> QED BY <1>1, <1>7, <2>4, <2>5, <2>6, <3>1, <4>1 DEF Busy
      <3>2. CASE Saves!Killed(p)
        <4>1. \A q \in Processes : job[q].phase # "idle" => job[q].id \in 1..k
          BY <1>3, <2>1
        <4> QED BY <1>1, <1>4, <1>5, <2>4, <3>2, <4>1 DEF Saves!Killed, Older, Indexed, Busy
      <3> QED BY <2>4, <3>1, <3>2
    <2>10. Typed
      BY <1>1, <2>4, <2>5, <2>7, <2>8, <2>9 DEF Typed
    <2> QED BY <1>2, <2>8, <2>9, <2>10
  <1>13. ASSUME NEW p \in Processes, Saves!List(p)
         PROVE  SavesType'
    <2>1. /\ Saves!Oldest \subseteq Saves!Ids
      BY DEF Saves!Oldest, Saves!Readable
    <2>2. /\ job[p].phase = "written"
          /\ job' = [job EXCEPT ![p].phase = "trimming", ![p].doomed = Saves!Oldest]
          /\ UNCHANGED <<backend, clock, setBack, used, store, stm, idx, legacy, saved, erased>>
      BY <1>13 DEF Saves!List
    <2>3. job' \in [Processes -> Jobs] /\ Busy
      <3>1. PICK gone : gone = Saves!Oldest
        OBVIOUS
      <3>2. /\ job' = [job EXCEPT ![p].phase = "trimming", ![p].doomed = gone]
            /\ gone \subseteq Saves!Ids
        BY <2>1, <2>2, <3>1
      <3>3. PICK new : new = [phase |-> "trimming", id |-> job[p].id, doomed |-> gone]
        OBVIOUS
      <3>4. job' = [job EXCEPT ![p] = new]
        <4>1. PICK mid : mid = [job[p] EXCEPT !.phase = "trimming"]
          OBVIOUS
        <4>2. mid = [phase |-> "trimming", id |-> job[p].id, doomed |-> job[p].doomed]
          BY <1>1, <4>1 DEF Jobs
        <4>3. [mid EXCEPT !.doomed = gone] = new
          BY <3>3, <4>2
        <4>4. PICK j : j = [job EXCEPT ![p].phase = "trimming"]
          OBVIOUS
        <4>5. j = [job EXCEPT ![p] = mid]
          BY <4>1, <4>4, Zenon
        <4>6. j[p] = mid /\ DOMAIN j = Processes
          BY <1>1, <4>5
        <4>7. [j EXCEPT ![p].doomed = gone] = [j EXCEPT ![p] = new]
          BY <4>3, <4>6, Zenon
        <4>8. [j EXCEPT ![p] = new] = [job EXCEPT ![p] = new]
          BY <1>1, <4>5, <4>6
        <4> QED BY <3>2, <4>4, <4>7, <4>8, Zenon
      <3>5. new \in Jobs /\ new.id = job[p].id
        BY <1>1, <3>2, <3>3 DEF Jobs
      <3> QED BY <1>1, <2>2, <3>4, <3>5 DEF Busy
    <2> QED BY <1>1, <1>2, <1>7, <1>8, <1>10, <2>2, <2>3
  <1>14. ASSUME NEW p \in Processes, Saves!Trim(p)
         PROVE  SavesType'
    <2>1. PICK k \in job[p].doomed :
             /\ store' = [store EXCEPT ![k] = Saves!None]
             /\ job' = [job EXCEPT ![p].doomed = @ \ {k}]
      BY <1>14 DEF Saves!Trim
    <2>2. /\ job[p].phase = "trimming"
          /\ UNCHANGED <<backend, clock, setBack, used, stm, idx, legacy, saved, erased>>
      BY <1>14 DEF Saves!Trim
    <2>3. job' \in [Processes -> Jobs] /\ Busy
      BY <1>1, <2>1, <2>2 DEF Jobs, Busy
    <2>4. store' \in [Saves!Ids -> Files] /\ Made
      BY <1>1, <2>1, <2>2 DEF Files, Made
    <2> QED BY <1>1, <1>2, <1>7, <1>10, <2>2, <2>3, <2>4
  <1>15. ASSUME NEW p \in Processes, Saves!SaveReturns(p)
         PROVE  SavesType'
    <2>1. /\ job[p].phase = "trimming"
          /\ saved' = [saved EXCEPT ![job[p].id] = [is |-> "saved", stm |-> stm[p]]]
          /\ job' = [job EXCEPT ![p] = Saves!Idle]
          /\ UNCHANGED <<backend, clock, setBack, used, store, stm, idx, legacy, erased>>
      BY <1>15 DEF Saves!SaveReturns
    <2>2. job' \in [Processes -> Jobs] /\ Busy
      BY <1>1, <1>4, <2>1 DEF Busy
    <2>3. saved' \in [Saves!Ids -> [is : {"saved"}, stm : Memories] \union {Saves!None}]
      BY <1>1, <2>1
    <2>4. Typed
      BY <1>1, <2>1, <2>2, <2>3 DEF Typed
    <2> QED BY <1>2, <1>7, <1>8, <2>1, <2>2, <2>4
  <1>16. ASSUME NEW p \in Processes, NEW k \in Saves!Ids, Saves!Restore(p, k)
         PROVE  SavesType'
    <2>1. /\ stm' = [stm EXCEPT ![p] = store[k].stm] /\ k \in Saves!Readable
          /\ UNCHANGED <<backend, clock, setBack, used, store, idx, job, legacy, saved, erased>>
      BY <1>16 DEF Saves!Restore, Saves!Restored
    <2>2. store[k].stm \in Memories
      BY <1>1, <2>1 DEF Saves!Readable, Files, Saves!Stored, Saves!None, Saves!Cut
    <2>3. stm' \in [Processes -> Memories]
      BY <1>1, <2>1, <2>2
    <2> QED BY <1>1, <1>2, <1>7, <1>8, <1>9, <1>10, <2>1, <2>3
  <1>17. ASSUME NEW p \in Processes, NEW k \in Saves!Ids, Saves!Delete(p, k)
         PROVE  SavesType'
    <2>1. /\ store' = [store EXCEPT ![k] = Saves!None] /\ erased' = erased \union {k}
          /\ UNCHANGED <<backend, clock, setBack, used, stm, idx, job, legacy, saved>>
      BY <1>17 DEF Saves!Delete
    <2>2. store' \in [Saves!Ids -> Files] /\ Made
      BY <1>1, <2>1 DEF Files, Made
    <2> QED BY <1>1, <1>2, <1>7, <1>9, <1>10, <2>1, <2>2
  <1>18. ASSUME NEW p \in Processes, Saves!Clear(p)
         PROVE  SavesType'
    <2>1. PICK gone \in SUBSET {k \in Saves!Ids : store[k].is # "none"} :
             /\ store' = [k \in Saves!Ids |-> IF k \in gone THEN Saves!None ELSE store[k]]
             /\ erased' = erased \union gone
      BY <1>18, Zenon DEF Saves!Clear
    <2>2. UNCHANGED <<backend, clock, setBack, used, stm, idx, job, legacy, saved>>
      BY <1>18 DEF Saves!Clear
    <2>3. store' \in [Saves!Ids -> Files] /\ Made
      BY <1>1, <2>1, <2>2 DEF Files, Made
    <2> QED BY <1>1, <1>2, <1>7, <1>9, <1>10, <2>1, <2>2, <2>3
  <1>19. ASSUME NEW p \in Processes, Saves!Kill(p)
         PROVE  SavesType'
    <2>1. Saves!Killed(p) /\ UNCHANGED <<backend, clock, setBack, used, store, saved, erased>>
      BY <1>19 DEF Saves!Kill
    <2> QED BY <1>1, <1>2, <1>6, <1>8, <1>10, <2>1
  <1>20. ASSUME NEW p \in Processes, NEW scope, Saves!LegacySave(p, scope)
         PROVE  SavesType'
    <2>1. /\ legacy' = [stm |-> Saves!StmSaved(p, scope), idx |-> Saves!IdxSaved(scope)]
          /\ UNCHANGED <<backend, clock, setBack, used, store, stm, idx, job, saved, erased>>
      BY <1>20 DEF Saves!LegacySave
    <2>2. /\ Saves!StmSaved(p, scope) \in {{}, {stm[p]}} /\ stm[p] \in Memories
          /\ Saves!IdxSaved(scope) \in {{}, {idx}}
      BY <1>1 DEF Saves!StmSaved, Saves!IdxSaved
    <2>3. Older /\ Indexed /\ legacy' \in Saves!Payloads
      BY <1>1, <2>1, <2>2 DEF Older, Indexed, Saves!Payloads
    <2> QED BY <1>1, <1>2, <1>8, <1>9, <1>10, <2>1, <2>3
  <1>21. ASSUME NEW p \in Processes, NEW scope, Saves!LegacyRestore(p, scope)
         PROVE  SavesType'
    <2>1. /\ stm' = [stm EXCEPT ![p] = Saves!StmBack(p, scope)] /\ idx' = Saves!IdxBack(scope)
          /\ UNCHANGED <<backend, clock, setBack, used, store, job, legacy, saved, erased>>
      BY <1>21 DEF Saves!LegacyRestore
    <2>2. Saves!StmBack(p, scope) \in Memories
      BY <1>1, <1>4 DEF Saves!StmBack
    <2>3. Saves!IdxBack(scope) \in {0, 1}
      BY <1>1, <1>4 DEF Saves!IdxBack
    <2>4. Older /\ Indexed /\ legacy' \in Saves!Payloads
      BY <1>1, <2>1 DEF Older, Indexed
    <2>5. stm' \in [Processes -> Memories] /\ idx' \in {0, 1}
      BY <1>1, <2>1, <2>2, <2>3
    <2> QED BY <1>1, <1>2, <1>8, <1>9, <1>10, <2>1, <2>4, <2>5
  <1>22. CASE UNCHANGED Saves!vars
    <2>1. UNCHANGED <<backend, clock, setBack, used, store, stm, idx, job, legacy, saved, erased>>
      BY <1>22 DEF Saves!vars
    <2> QED BY <1>1, <1>2, <1>7, <1>8, <1>9, <1>10, <2>1
  <1> QED
    BY <1>11, <1>12, <1>13, <1>14, <1>15, <1>16, <1>17, <1>18, <1>19, <1>20, <1>21, <1>22
       DEF Saves!Next

LEMMA SavesOrderStep ==
    ASSUME SavesParameters, SavesType, SavesOrder, Saves!Next, ~setBack'
    PROVE  SavesOrder'
  <1>1. /\ clock \in Nat /\ used \in Nat /\ MaxSaves \in Nat /\ Kept \in Nat
        /\ \A n \in Saves!Ids : n \in Nat \ {0} /\ n <= MaxSaves
        /\ erased \subseteq Saves!Ids
        /\ store \in [Saves!Ids -> Saves!Stored \union {Saves!None, Saves!Cut}]
        /\ stm \in [Processes -> Memories]
        /\ job \in [Processes -> [phase : {"idle", "written", "trimming"}, id : 0..MaxSaves,
                                  doomed : SUBSET Saves!Ids]]
        /\ saved \in [Saves!Ids -> [is : {"saved"}, stm : Memories] \union {Saves!None}]
        /\ \A k \in Saves!Ids : store[k] # Saves!None => k \in 1..used
        /\ \A p \in Processes : job[p].phase # "idle" => job[p].id \in 1..used
    BY DEF SavesType, Saves!TypeOK, Saves!Ids, SavesParameters
  <1>2. Saves!None.is = "none" /\ Saves!Cut.is = "cut" /\ Saves!Idle.phase = "idle"
        /\ Saves!Idle.doomed = {} /\ Saves!None # Saves!Cut
    BY DEF Saves!None, Saves!Cut, Saves!Idle
  <1>3. /\ \A k \in Saves!Ids : store[k].is = "checkpoint" => store[k].at < clock
        /\ \A k, j \in Saves!Ids : store[k].is = "checkpoint" /\ store[j].is = "checkpoint" /\ k < j
                                     => store[k].at < store[j].at
        /\ \A p \in Processes : \A k \in job[p].doomed : k \in 1..used /\ used - k >= Kept
        /\ \A k \in Saves!Ids :
              saved[k] # Saves!None => k \in 1..used /\ SavesHeld(store, erased, used, k, saved[k].stm)
        /\ \A p \in Processes :
              job[p].phase # "idle" => SavesHeld(store, erased, used, job[p].id, stm[p])
    BY DEF SavesOrder, Saves!Readable
  <1>4. ASSUME /\ \A k \in Saves!Ids : store'[k].is = "checkpoint" => store'[k].at < clock'
               /\ \A k, j \in Saves!Ids :
                     store'[k].is = "checkpoint" /\ store'[j].is = "checkpoint" /\ k < j
                        => store'[k].at < store'[j].at
               /\ \A p \in Processes : \A k \in job'[p].doomed : k \in 1..used' /\ used' - k >= Kept
               /\ \A k \in Saves!Ids :
                     saved'[k] # Saves!None =>
                        k \in 1..used' /\ SavesHeld(store', erased', used', k, saved'[k].stm)
               /\ \A p \in Processes :
                     job'[p].phase # "idle" => SavesHeld(store', erased', used', job'[p].id, stm'[p])
        PROVE  SavesOrder'
    BY <1>4 DEF SavesOrder, Saves!Readable, SavesHeld
  \* Checkpoints that leave the store were deleted or are old.
  <1>5. ASSUME NEW gone \in SUBSET Saves!Ids, UNCHANGED <<clock, used>>,
               store' = [k \in Saves!Ids |-> IF k \in gone THEN Saves!None ELSE store[k]],
               erased \subseteq erased', erased' \subseteq Saves!Ids,
               \A k \in gone : k \in erased' \/ used - k >= Kept
        PROVE  /\ \A k \in Saves!Ids : store'[k].is = "checkpoint" => store'[k].at < clock'
               /\ \A k, j \in Saves!Ids :
                     store'[k].is = "checkpoint" /\ store'[j].is = "checkpoint" /\ k < j
                        => store'[k].at < store'[j].at
               /\ \A k \in Saves!Ids : \A m :
                     SavesHeld(store, erased, used, k, m) => SavesHeld(store', erased', used', k, m)
    <2>1. \A k \in Saves!Ids :
             store'[k].is = "checkpoint" => store'[k] = store[k] /\ store[k].is = "checkpoint"
      BY <1>2, <1>5
    <2>2. ASSUME NEW k \in Saves!Ids, NEW m, SavesHeld(store, erased, used, k, m)
          PROVE  SavesHeld(store', erased', used', k, m)
      BY <1>1, <1>5, <2>2 DEF SavesHeld
    <2> QED BY <1>3, <1>5, <2>1, <2>2
  \* The store as it was.
  <1>6. ASSUME UNCHANGED <<clock, used, store, erased>>
        PROVE  /\ \A k \in Saves!Ids : store'[k].is = "checkpoint" => store'[k].at < clock'
               /\ \A k, j \in Saves!Ids :
                     store'[k].is = "checkpoint" /\ store'[j].is = "checkpoint" /\ k < j
                        => store'[k].at < store'[j].at
               /\ \A k, m :
                     SavesHeld(store', erased', used', k, m) <=> SavesHeld(store, erased, used, k, m)
    BY <1>3, <1>6 DEF SavesHeld
  <1>7. ASSUME NEW p \in Processes, job[p].phase = "idle",
               UNCHANGED <<clock, used, store, erased, job, saved>>,
               \A q \in Processes \ {p} : stm'[q] = stm[q]
        PROVE  SavesOrder'
    BY <1>3, <1>4, <1>6, <1>7
  <1>8. ASSUME NEW p \in Processes, Saves!Save(p)
        PROVE  SavesOrder'
    <2>1. PICK k : k = used + 1
      OBVIOUS
    <2>2. PICK c : c = Saves!Snapshot(p)
      OBVIOUS
    <2>3. PICK new : new = [phase |-> "written", id |-> k, doomed |-> {}]
      OBVIOUS
    <2>4. /\ used < MaxSaves /\ used' = k /\ Saves!Tick /\ UNCHANGED <<backend, saved, erased>>
          /\ \/ /\ store' = [store EXCEPT ![k] = c] /\ job' = [job EXCEPT ![p] = new]
                /\ UNCHANGED <<stm, idx, legacy>>
             \/ /\ store' = [store EXCEPT ![k] = Saves!Cut] /\ Saves!Killed(p)
      BY <1>8, <2>1, <2>2, <2>3, Zenon DEF Saves!Save
    <2>5. clock' = clock + 1
      BY <2>4 DEF Saves!Tick
    <2>6. /\ k \in Saves!Ids /\ k \in Nat /\ k \in 1..k
          /\ \A j \in Saves!Ids : store[j].is = "checkpoint" => j < k
      <3>1. used \in Nat /\ MaxSaves \in Nat /\ k \in Saves!Ids /\ k \in Nat /\ k \in 1..k
        BY <1>1, <2>1, <2>4 DEF Saves!Ids
      <3>2. ASSUME NEW j \in Saves!Ids, store[j].is = "checkpoint"
            PROVE  j < k
        <4>1. store[j] # Saves!None
          BY <1>2, <3>2
        <4>2. j \in 1..used
          BY <1>1, <4>1
        <4> QED BY <2>1, <3>1, <4>2
      <3> QED BY <3>1, <3>2
    <2>7. c.is = "checkpoint" /\ c.at = clock /\ c.stm = stm[p]
      BY <2>2 DEF Saves!Snapshot
    <2>8. /\ store'[k] = c \/ store'[k].is = "cut"
          /\ \A j \in Saves!Ids \ {k} : store'[j] = store[j]
      BY <1>1, <1>2, <2>4, <2>6
    <2>9. ASSUME NEW j \in 1..used, NEW m, SavesHeld(store, erased, used, j, m)
          PROVE  SavesHeld(store', erased', used', j, m)
      <3>1. used \in Nat /\ used' = used + 1 /\ erased' = erased
        BY <1>1, <2>1, <2>4
      <3>2. j \in Nat /\ k \in Nat /\ j < k /\ j \in 1..MaxSaves
        BY <1>1, <2>1, <2>4, <3>1
      <3>3. store'[j] = store[j]
        BY <2>8, <3>2 DEF Saves!Ids
      <3>4. SavesHeld(store, erased, used, j, m)
        BY <2>9
      <3>5. used' - j < Kept => used - j < Kept
        BY <1>1, <3>1, <3>2
      <3> QED BY <3>1, <3>3, <3>4, <3>5 DEF SavesHeld
    <2>10. \A j \in Saves!Ids : store'[j].is = "checkpoint" => store'[j].at < clock'
      <3>1. \A j \in Saves!Ids \ {k} : store[j].is = "checkpoint" => store[j].at \in Nat
        BY <1>1 DEF Saves!Stored, Saves!None, Saves!Cut
      <3> QED BY <1>1, <1>3, <2>5, <2>7, <2>8, <3>1
    <2>11. \A i, j \in Saves!Ids :
              store'[i].is = "checkpoint" /\ store'[j].is = "checkpoint" /\ i < j
                 => store'[i].at < store'[j].at
      <3>1. ASSUME NEW j \in Saves!Ids, store'[j].is = "checkpoint" PROVE j <= k
        <4>1. j \in Nat
          BY <1>1 DEF Saves!Ids
        <4>2. CASE j = k
          BY <2>6, <4>1, <4>2
        <4>3. CASE j # k
          <5>1. store'[j] = store[j]
            BY <2>8, <4>3
          <5> QED BY <2>6, <3>1, <4>1, <5>1
        <4> QED BY <4>2, <4>3
      <3> QED BY <1>1, <1>3, <2>6, <2>7, <2>8, <3>1
    <2>12. \A q \in Processes : \A j \in job'[q].doomed : j \in 1..used' /\ used' - j >= Kept
      <3>1. \A q \in Processes : job'[q].doomed = {} \/ job'[q] = job[q]
        BY <1>1, <1>2, <2>3, <2>4 DEF Saves!Killed
      <3>2. \A q \in Processes : \A j \in job[q].doomed : j \in 1..used' /\ used' - j >= Kept
        BY <1>1, <1>3, <2>1, <2>4
      <3> QED BY <3>1, <3>2
    <2>13. \A j \in Saves!Ids : saved'[j] # Saves!None =>
             j \in 1..used' /\ SavesHeld(store', erased', used', j, saved'[j].stm)
      BY <1>1, <1>3, <2>1, <2>4, <2>9
    <2>14. \A q \in Processes :
              job'[q].phase # "idle" => SavesHeld(store', erased', used', job'[q].id, stm'[q])
      <3>1. \A q \in Processes \ {p} : job'[q] = job[q] /\ stm'[q] = stm[q]
        BY <1>1, <2>4 DEF Saves!Killed
      <3>2. job'[p].phase # "idle" => job'[p] = new /\ store'[k] = c /\ stm'[p] = stm[p]
        BY <1>1, <1>2, <2>4, <2>6 DEF Saves!Killed
      <3>3. job'[p].phase # "idle" => SavesHeld(store', erased', used', job'[p].id, stm'[p])
        BY <2>3, <2>7, <3>2 DEF SavesHeld
      <3> QED BY <1>1, <1>3, <2>9, <3>1, <3>3
    <2> QED BY <1>4, <2>10, <2>11, <2>12, <2>13, <2>14
  <1>9. ASSUME NEW p \in Processes, Saves!List(p)
        PROVE  SavesOrder'
    <2>1. /\ job[p].phase = "written"
          /\ job' = [job EXCEPT ![p].phase = "trimming", ![p].doomed = Saves!Oldest]
          /\ UNCHANGED <<backend, clock, setBack, used, store, stm, idx, legacy, saved, erased>>
      BY <1>9 DEF Saves!List
    <2>2. \A k \in Saves!Oldest : k \in 1..used /\ used - k >= Kept
      BY SavesOldest
    <2>3. \A q \in Processes : /\ job'[q].id = job[q].id
                               /\ job'[q].doomed \in {job[q].doomed, Saves!Oldest}
                               /\ job'[q].phase # "idle" => job[q].phase # "idle"
      BY <1>1, <2>1
    <2> QED BY <1>3, <1>4, <1>6, <2>1, <2>2, <2>3
  <1>10. ASSUME NEW p \in Processes, Saves!Trim(p)
         PROVE  SavesOrder'
    <2>1. PICK k \in job[p].doomed :
             /\ store' = [store EXCEPT ![k] = Saves!None]
             /\ job' = [job EXCEPT ![p].doomed = @ \ {k}]
      BY <1>10 DEF Saves!Trim
    <2>2. /\ job[p].phase = "trimming"
          /\ UNCHANGED <<backend, clock, setBack, used, stm, idx, legacy, saved, erased>>
      BY <1>10 DEF Saves!Trim
    <2>3. /\ store' = [j \in Saves!Ids |-> IF j \in {k} THEN Saves!None ELSE store[j]]
          /\ {k} \in SUBSET Saves!Ids /\ used - k >= Kept
      BY <1>1, <1>3, <2>1
    <2>4. /\ \A j \in Saves!Ids : store'[j].is = "checkpoint" => store'[j].at < clock'
          /\ \A i, j \in Saves!Ids :
                store'[i].is = "checkpoint" /\ store'[j].is = "checkpoint" /\ i < j
                   => store'[i].at < store'[j].at
          /\ \A j \in Saves!Ids : \A m :
                SavesHeld(store, erased, used, j, m) => SavesHeld(store', erased', used', j, m)
      BY <1>1, <1>5, <2>2, <2>3
    <2>5. \A q \in Processes : /\ job'[q].id = job[q].id /\ job'[q].phase = job[q].phase
                               /\ job'[q].doomed \subseteq job[q].doomed
      BY <1>1, <2>1
    <2>6. \A q \in Processes : job[q].phase # "idle" => job[q].id \in Saves!Ids
      BY <1>1 DEF Saves!Ids
    <2> QED BY <1>3, <1>4, <2>2, <2>4, <2>5, <2>6
  <1>11. ASSUME NEW p \in Processes, Saves!SaveReturns(p)
         PROVE  SavesOrder'
    <2>1. /\ job[p].phase = "trimming"
          /\ saved' = [saved EXCEPT ![job[p].id] = [is |-> "saved", stm |-> stm[p]]]
          /\ job' = [job EXCEPT ![p] = Saves!Idle]
          /\ UNCHANGED <<backend, clock, setBack, used, store, stm, idx, legacy, erased>>
      BY <1>11 DEF Saves!SaveReturns
    <2>2. /\ saved'[job[p].id].stm = stm[p] /\ job[p].id \in 1..used
          /\ SavesHeld(store, erased, used, job[p].id, stm[p])
          /\ \A k \in Saves!Ids \ {job[p].id} : saved'[k] = saved[k]
      BY <1>1, <1>3, <2>1 DEF Saves!Ids
    <2>3. \A q \in Processes : job'[q] \in {job[q], Saves!Idle}
      BY <1>1, <2>1
    <2>4. \A k \in Saves!Ids : saved'[k] # Saves!None =>
             k \in 1..used' /\ SavesHeld(store', erased', used', k, saved'[k].stm)
      BY <1>3, <1>6, <2>1, <2>2
    <2> QED BY <1>2, <1>3, <1>4, <1>6, <2>1, <2>3, <2>4
  <1>12. ASSUME NEW p \in Processes, job[p].phase = "idle",
                NEW gone \in SUBSET Saves!Ids,
                store' = [k \in Saves!Ids |-> IF k \in gone THEN Saves!None ELSE store[k]],
                erased' = erased \union gone,
                UNCHANGED <<clock, used, stm, job, saved>>
         PROVE  SavesOrder'
    <2>1. /\ \A j \in Saves!Ids : store'[j].is = "checkpoint" => store'[j].at < clock'
          /\ \A i, j \in Saves!Ids :
                store'[i].is = "checkpoint" /\ store'[j].is = "checkpoint" /\ i < j
                   => store'[i].at < store'[j].at
          /\ \A j \in Saves!Ids : \A m :
                SavesHeld(store, erased, used, j, m) => SavesHeld(store', erased', used', j, m)
      <3>1. erased \subseteq erased' /\ erased' \subseteq Saves!Ids /\ gone \subseteq erased'
        BY <1>1, <1>12
      <3> QED BY <1>5, <1>12, <3>1
    <2>2. \A q \in Processes : job[q].phase # "idle" => job[q].id \in Saves!Ids
      BY <1>1 DEF Saves!Ids
    <2> QED BY <1>3, <1>4, <1>12, <2>1, <2>2
  <1>13. ASSUME NEW p \in Processes, NEW k \in Saves!Ids, Saves!Delete(p, k)
         PROVE  SavesOrder'
    <2>1. /\ job[p].phase = "idle" /\ erased' = erased \union {k}
          /\ store' = [j \in Saves!Ids |-> IF j \in {k} THEN Saves!None ELSE store[j]]
          /\ UNCHANGED <<clock, used, stm, job, saved>>
      BY <1>1, <1>13 DEF Saves!Delete
    <2> QED BY <1>12, <2>1
  <1>14. ASSUME NEW p \in Processes, Saves!Clear(p)
         PROVE  SavesOrder'
    <2>1. PICK gone \in SUBSET {k \in Saves!Ids : store[k].is # "none"} :
             /\ store' = [k \in Saves!Ids |-> IF k \in gone THEN Saves!None ELSE store[k]]
             /\ erased' = erased \union gone
      BY <1>14, Zenon DEF Saves!Clear
    <2>2. job[p].phase = "idle" /\ UNCHANGED <<clock, used, stm, job, saved>>
      BY <1>14 DEF Saves!Clear
    <2>3. gone \in SUBSET Saves!Ids
      OBVIOUS
    <2> QED BY <1>12, <2>1, <2>2, <2>3
  <1>15. ASSUME NEW p \in Processes, Saves!Kill(p)
         PROVE  SavesOrder'
    <2>1. /\ job' = [job EXCEPT ![p] = Saves!Idle] /\ \A q \in Processes \ {p} : stm'[q] = stm[q]
          /\ UNCHANGED <<clock, used, store, saved, erased>>
      BY <1>1, <1>15 DEF Saves!Kill, Saves!Killed
    <2>2. \A q \in Processes \ {p} : job'[q] = job[q]
      BY <1>1, <2>1
    <2>3. job'[p] = Saves!Idle
      BY <1>1, <2>1
    <2> QED BY <1>2, <1>3, <1>4, <1>6, <2>1, <2>2, <2>3
  <1>16. ASSUME NEW p \in Processes, Saves!Talk(p)
         PROVE  SavesOrder'
    BY <1>1, <1>7, <1>16 DEF Saves!Talk
  <1>17. ASSUME NEW p \in Processes, NEW k \in Saves!Ids, Saves!Restore(p, k)
         PROVE  SavesOrder'
    BY <1>1, <1>7, <1>17 DEF Saves!Restore
  <1>18. ASSUME NEW p \in Processes, NEW scope,
                Saves!LegacySave(p, scope) \/ Saves!LegacyRestore(p, scope)
         PROVE  SavesOrder'
    BY <1>1, <1>7, <1>18 DEF Saves!LegacySave, Saves!LegacyRestore
  <1> QED
    BY <1>8, <1>9, <1>10, <1>11, <1>13, <1>14, <1>15, <1>16, <1>17, <1>18 DEF Saves!Next

LEMMA SavesStep ==
    ASSUME SavesParameters, SavesInv, [Saves!Next]_Saves!vars
    PROVE  SavesInv'
  <1>1. SavesType'
    BY SavesTypeStep DEF SavesInv
  <1>2. CASE UNCHANGED Saves!vars
    <2>1. UNCHANGED <<backend, clock, setBack, used, store, stm, idx, job, legacy, saved, erased>>
      BY <1>2 DEF Saves!vars
    <2> QED BY <1>1, <2>1 DEF SavesInv, SavesOrder, SavesHeld, Saves!Readable
  <1>3. CASE Saves!Next
    <2>1. setBack => setBack'
      BY <1>3 DEF SavesInv, Saves!Next, Saves!Talk, Saves!Save, Saves!Tick, Saves!List, Saves!Trim,
                  Saves!SaveReturns, Saves!Kill, Saves!Clear, Saves!Restore, Saves!Delete,
                  Saves!LegacySave, Saves!LegacyRestore
    <2> QED BY <1>1, <1>3, <2>1, SavesOrderStep DEF SavesInv
  <1> QED BY <1>2, <1>3

LEMMA SavesHolds ==
    ASSUME SavesParameters, SavesInv
    PROVE  Saves!TypeOK /\ Saves!SavedIsKept
  <1>1. Saves!TypeOK
    BY DEF SavesInv, SavesType
  <1>2. ASSUME ~setBack, NEW k \in Saves!Ids, saved[k] # Saves!None, k \notin erased,
               used - k < Kept
        PROVE  store[k].is = "checkpoint" /\ store[k].stm = saved[k].stm
    BY <1>2 DEF SavesInv, SavesOrder, SavesHeld
  <1> QED BY <1>1, <1>2 DEF Saves!SavedIsKept

\* While the clock is not set back, a checkpoint can be restored to what the memory was
\* until it is deleted or Kept later saves have begun, whatever other processes trim, cut
\* and leave behind (CheckpointStore), for any number of processes and checkpoints.
THEOREM SavesKeepThem ==
    ASSUME SavesParameters
    PROVE  Saves!Spec => [](Saves!TypeOK /\ Saves!SavedIsKept)
  <1>1. Saves!Init => SavesInv
    BY SavesTypeInit
  <1>2. SavesInv /\ [Saves!Next]_Saves!vars => SavesInv'
    BY SavesStep
  <1>3. SavesInv => Saves!TypeOK /\ Saves!SavedIsKept
    BY SavesHolds
  <1> QED BY <1>1, <1>2, <1>3, PTL DEF Saves!Spec

-----------------------------------------------------------------------------
(* Telemetry.                                                                *)

TracesParameters == Separate \subseteq BOOLEAN /\ MaxRuns \in Nat /\ MaxSpans \in Nat

TracesSpan == [run : Nat, parent : Nat]

\* The hook's bookkeeping: spans and the entries that are open name spans there
\* are; where runs are tasks of their own, both stay within one run.
TracesHook(h) ==
    /\ h = [open |-> h.open, tree |-> h.tree, current |-> h.current, counted |-> h.counted]
    /\ h.tree \in Seq(TracesSpan) /\ h.counted \in Nat /\ h.current \in 0..Len(h.tree)
    /\ \A n \in 1..Len(h.tree) :
          /\ h.tree[n].run <= runNo /\ h.tree[n].parent \in 0..Len(h.tree)
          /\ separate /\ h.tree[n].parent # 0 => h.tree[h.tree[n].parent].run = h.tree[n].run
    /\ \A k \in DOMAIN h.open :
          /\ h.open[k].span \in 1..Len(h.tree) /\ h.open[k].saved \in 0..Len(h.tree)
          /\ separate => /\ h.open[k].task \in 1..runNo
                         /\ h.open[k].saved # 0 =>
                               h.tree[h.open[k].saved].run = h.open[k].task

\* The current span is one of this run.
TracesHere(h) == separate /\ h.current # 0 => h.tree[h.current].run = runNo

\* The spans of this run; there is one for each call it has counted.
TracesRun(h) == {n \in 1..Len(h.tree) : h.tree[n].run = runNo}
TracesCounted(h) == h.counted <= Cardinality(TracesRun(h))

\* The model call under way is innermost, and its request is the latest.
TracesCalls ==
    /\ path \in Seq(Traces!Phases \X Nat)
    /\ \A i \in 1..Len(path) : path[i][1] = "model" => i = Len(path)
    /\ iteration \in Nat /\ capture.calls \in Nat
    /\ capture = [pending |-> capture.pending, written |-> capture.written, calls |-> capture.calls]
    /\ path # <<>> /\ Traces!Top = "model" =>
         /\ Traces!Pending \in DOMAIN capture.pending
         /\ capture.pending[Traces!Pending] = capture.calls
         /\ capture.calls > 0 /\ iteration < Len(hook.tree)
    /\ capture.calls <= Len(hook.tree) /\ iteration <= Len(hook.tree)
    /\ Len(hook.tree) <= MaxSpans
    /\ \A record \in capture.written : record[1] = record[2] /\ record \in (1..capture.calls) \X (1..capture.calls)

TracesInv ==
    /\ separate \in Separate /\ runNo \in 0..MaxRuns
    /\ TracesHook(hook) /\ TracesCounted(hook) /\ TracesCalls
    /\ path # <<>> => runNo > 0 /\ TracesHere(hook)

LEMMA TracesDetach ==
    ASSUME runNo \in Nat, NEW h, TracesHook(h), NEW e, e.saved \in 0..Len(h.tree),
           separate => /\ e.task \in 1..runNo
                       /\ e.saved # 0 => h.tree[e.saved].run = e.task
    PROVE  /\ TracesHook(Traces!Detach(h, e))
           /\ TracesHere(h) => TracesHere(Traces!Detach(h, e))
           /\ Traces!Detach(h, e).tree = h.tree /\ Traces!Detach(h, e).counted = h.counted
           /\ Traces!Detach(h, e).open = h.open
  <1>1. CASE e.task = Traces!Task
    <2>1. PICK g : g = [h EXCEPT !.current = e.saved]
      OBVIOUS
    <2>2. /\ g = [open |-> h.open, tree |-> h.tree, current |-> e.saved, counted |-> h.counted]
          /\ Traces!Detach(h, e) = g
      BY <1>1, <2>1 DEF Traces!Detach, TracesHook
    <2>3. TracesHook(g)
      BY <2>2 DEF TracesHook
    <2>4. TracesHere(g)
      BY <1>1, <2>2 DEF TracesHere, Traces!Task
    <2> QED BY <2>2, <2>3, <2>4
  <1>2. CASE e.task # Traces!Task
    BY <1>2 DEF Traces!Detach
  <1> QED BY <1>1, <1>2

LEMMA TracesStart ==
    ASSUME runNo \in Nat \ {0}, separate \in BOOLEAN, NEW h, TracesHook(h), TracesHere(h), NEW key
    PROVE  /\ TracesHook(Traces!StartSpan(h, key)) /\ TracesHere(Traces!StartSpan(h, key))
           /\ Traces!StartSpan(h, key).tree = Append(h.tree, [run |-> runNo, parent |-> h.current])
           /\ Traces!StartSpan(h, key).counted = h.counted
  <1> DEFINE span == [run |-> runNo, parent |-> h.current]
  <1>1. PICK n : n = Len(h.tree) + 1
    OBVIOUS
  <1>2. /\ Append(h.tree, span) \in Seq(TracesSpan) /\ Len(Append(h.tree, span)) = n
        /\ \A m \in 1..Len(h.tree) : Append(h.tree, span)[m] = h.tree[m]
        /\ Append(h.tree, span)[n] = span
    BY <1>1 DEF TracesHook, TracesSpan
  <1>3. PICK t : t = Append(h.tree, span)
    OBVIOUS
  <1>4. PICK e : e = [span |-> n, saved |-> h.current, task |-> Traces!Task]
    OBVIOUS
  <1>5. PICK o : o = Traces!Put(h.open, key, e)
    OBVIOUS
  <1>6. PICK s : s = [open |-> o, tree |-> t, current |-> n, counted |-> h.counted]
    OBVIOUS
  <1>7. [h EXCEPT !.tree = Append(@, span), !.current = e.span, !.open = Traces!Put(@, key, e)] = s
    <2>1. [h EXCEPT !.tree = t, !.current = n, !.open = o] = s
      <3>1. PICK h1 : h1 = [h EXCEPT !.tree = t]
        OBVIOUS
      <3>2. PICK h2 : h2 = [h1 EXCEPT !.current = n]
        OBVIOUS
      <3>3. h1 = [open |-> h.open, tree |-> t, current |-> h.current, counted |-> h.counted]
        BY <3>1 DEF TracesHook
      <3>4. h2 = [open |-> h.open, tree |-> t, current |-> n, counted |-> h.counted]
        BY <3>2, <3>3
      <3>5. [h2 EXCEPT !.open = o] = s
        BY <1>6, <3>4
      <3> QED BY <3>1, <3>2, <3>5, Zenon
    <2>2. e.span = n
      BY <1>4
    <2> QED BY <1>3, <1>5, <2>1, <2>2, Zenon
  <1>8. n \in Nat /\ h.current \in 0..Len(h.tree) /\ Len(h.tree) \in Nat
    BY <1>1 DEF TracesHook
  <1>9. /\ t \in Seq(TracesSpan) /\ Len(t) = n /\ t[n].run = runNo /\ t[n].parent = h.current
        /\ \A m \in 1..Len(h.tree) : t[m] = h.tree[m]
    BY <1>2, <1>3
  <1>10. TracesHook(s)
    <2>1. \A m \in 1..n :
             /\ t[m].run <= runNo /\ t[m].parent \in 0..n
             /\ separate /\ t[m].parent # 0 => t[t[m].parent].run = t[m].run
      <3>1. \A m \in 1..Len(h.tree) :
             /\ t[m].run <= runNo /\ t[m].parent \in 0..Len(h.tree)
             /\ separate /\ t[m].parent # 0 => t[t[m].parent].run = t[m].run
        BY <1>9, <1>8 DEF TracesHook
      <3>2. separate /\ h.current # 0 => t[h.current].run = runNo
        BY <1>8, <1>9 DEF TracesHere
      <3> QED BY <1>1, <1>8, <1>9, <3>1, <3>2
    <2>2. \A k \in DOMAIN o :
             /\ o[k].span \in 1..n /\ o[k].saved \in 0..n
             /\ separate => /\ o[k].task \in 1..runNo
                            /\ o[k].saved # 0 => t[o[k].saved].run = o[k].task
      <3>1. ASSUME NEW k \in DOMAIN o, k = key
            PROVE  o[k] = e
        BY <1>5, <3>1 DEF Traces!Put
      <3>2. ASSUME NEW k \in DOMAIN o, k # key
            PROVE  k \in DOMAIN h.open /\ o[k] = h.open[k]
        BY <1>5, <3>2 DEF Traces!Put
      <3>3. /\ e.span \in 1..n /\ e.saved \in 0..n
            /\ separate => e.task \in 1..runNo /\ (e.saved # 0 => t[e.saved].run = e.task)
        BY <1>1, <1>4, <1>8, <1>9 DEF TracesHere, Traces!Task
      <3>4. ASSUME NEW k \in DOMAIN h.open
            PROVE  /\ h.open[k].span \in 1..n /\ h.open[k].saved \in 0..n
                   /\ separate => /\ h.open[k].task \in 1..runNo
                                  /\ h.open[k].saved # 0 => t[h.open[k].saved].run = h.open[k].task
        BY <1>1, <1>8, <1>9 DEF TracesHook
      <3> QED BY <3>1, <3>2, <3>3, <3>4
    <2> QED BY <1>6, <1>8, <1>9, <2>1, <2>2 DEF TracesHook
  <1>11. TracesHere(s)
    BY <1>6, <1>9 DEF TracesHere
  <1>12. CASE key \in DOMAIN h.open
    <2>1. PICK old : old = h.open[key]
      OBVIOUS
    <2>2. Traces!StartSpan(h, key) = Traces!Detach(s, old)
      BY <1>1, <1>4, <1>7, <1>12, <2>1 DEF Traces!StartSpan
    <2>3. /\ old.saved \in 0..Len(s.tree)
          /\ separate => /\ old.task \in 1..runNo
                         /\ old.saved # 0 => s.tree[old.saved].run = old.task
      BY <1>1, <1>6, <1>8, <1>9, <1>12, <2>1 DEF TracesHook
    <2>4. /\ TracesHook(Traces!Detach(s, old)) /\ TracesHere(Traces!Detach(s, old))
          /\ Traces!Detach(s, old).tree = s.tree /\ Traces!Detach(s, old).counted = s.counted
      BY <1>10, <1>11, <2>3, TracesDetach
    <2> QED BY <1>3, <1>6, <2>2, <2>4
  <1>13. CASE key \notin DOMAIN h.open
    <2>1. Traces!StartSpan(h, key) = s
      BY <1>1, <1>4, <1>7, <1>13 DEF Traces!StartSpan
    <2> QED BY <1>3, <1>6, <1>10, <1>11, <2>1
  <1> QED BY <1>12, <1>13

LEMMA TracesEnd ==
    ASSUME runNo \in Nat, NEW h, TracesHook(h), NEW key
    PROVE  /\ TracesHook(Traces!EndSpan(h, key))
           /\ TracesHere(h) => TracesHere(Traces!EndSpan(h, key))
           /\ Traces!EndSpan(h, key).tree = h.tree /\ Traces!EndSpan(h, key).counted = h.counted
  <1>1. CASE key \in DOMAIN h.open
    <2>1. PICK d : d = Traces!Detach(h, h.open[key])
      OBVIOUS
    <2>2. /\ TracesHook(d) /\ (TracesHere(h) => TracesHere(d))
          /\ d.tree = h.tree /\ d.counted = h.counted /\ d.open = h.open
      BY <1>1, <2>1, TracesDetach, SMTT(40) DEF TracesHook
    <2>3. PICK o : o = [k \in DOMAIN h.open \ {key} |-> h.open[k]]
      OBVIOUS
    <2>4. Traces!EndSpan(h, key) =
             [open |-> o, tree |-> d.tree, current |-> d.current, counted |-> d.counted]
      BY <1>1, <2>1, <2>2, <2>3 DEF Traces!EndSpan, TracesHook
    <2> QED BY <2>2, <2>3, <2>4 DEF TracesHook, TracesHere
  <1>2. CASE key \notin DOMAIN h.open
    BY <1>2 DEF Traces!EndSpan
  <1> QED BY <1>1, <1>2

\* A span more of this run.
LEMMA TracesMore ==
    ASSUME runNo \in Nat, NEW h, TracesHook(h), NEW g,
           g.tree = Append(h.tree, [run |-> runNo, parent |-> h.current])
    PROVE  /\ Len(g.tree) = Len(h.tree) + 1 /\ Len(h.tree) \in Nat
           /\ Cardinality(TracesRun(g)) = Cardinality(TracesRun(h)) + 1
           /\ Cardinality(TracesRun(h)) \in Nat
  <1>1. /\ Len(h.tree) \in Nat /\ Len(g.tree) = Len(h.tree) + 1
        /\ \A m \in 1..Len(h.tree) : g.tree[m] = h.tree[m]
        /\ g.tree[Len(h.tree) + 1].run = runNo
    BY DEF TracesHook, TracesSpan
  <1>2. TracesRun(g) = TracesRun(h) \union {Len(h.tree) + 1}
    BY <1>1 DEF TracesRun
  <1>3. Len(h.tree) + 1 \notin TracesRun(h)
    BY <1>1 DEF TracesRun
  <1>4. IsFiniteSet(TracesRun(h))
    <2>1. IsFiniteSet(1..Len(h.tree))
      BY <1>1, FS_Interval
    <2> QED BY <2>1, FS_Subset DEF TracesRun
  <1>5. Cardinality(TracesRun(h) \union {Len(h.tree) + 1}) = Cardinality(TracesRun(h)) + 1
    BY <1>3, <1>4, FS_AddElement
  <1>6. Cardinality(TracesRun(h)) \in Nat
    BY <1>4, FS_CardinalityType
  <1> QED BY <1>1, <1>2, <1>5, <1>6

LEMMA TracesCountsModel ==
    ASSUME NEW h, TracesHook(h)
    PROVE  /\ TracesHook(Traces!CountModel(h)) /\ (TracesHere(h) => TracesHere(Traces!CountModel(h)))
           /\ Traces!CountModel(h).tree = h.tree /\ Traces!CountModel(h).counted = h.counted + 1
  <1>1. PICK n : n = h.counted + 1
    OBVIOUS
  <1>2. Traces!CountModel(h) = [open |-> h.open, tree |-> h.tree, current |-> h.current, counted |-> n]
    BY <1>1 DEF Traces!CountModel, TracesHook
  <1>3. n \in Nat
    BY <1>1 DEF TracesHook
  <1> QED BY <1>1, <1>2, <1>3 DEF TracesHook, TracesHere

\* What is left when the innermost phase is over.
LEMMA TracesFront ==
    ASSUME TracesCalls, path # <<>>, path' = Traces!Front(path)
    PROVE  /\ path' \in Seq(Traces!Phases \X Nat)
           /\ \A i \in 1..Len(path') : path'[i][1] # "model"
  <1>1. Len(path) \in Nat \ {0} /\ path \in Seq(Traces!Phases \X Nat)
    BY DEF TracesCalls
  <1>2. /\ path' \in Seq(Traces!Phases \X Nat) /\ Len(path') = Len(path) - 1
        /\ \A i \in 1..Len(path) - 1 : path'[i] = path[i]
    <2>1. \A i \in 1..Len(path) - 1 : path[i] \in Traces!Phases \X Nat
      BY <1>1
    <2>2. path' = SubSeq(path, 1, Len(path) - 1)
      BY DEF Traces!Front
    <2>3. /\ SubSeq(path, 1, Len(path) - 1) \in Seq(Traces!Phases \X Nat)
          /\ Len(SubSeq(path, 1, Len(path) - 1)) = Len(path) - 1
          /\ \A i \in 1..Len(path) - 1 : SubSeq(path, 1, Len(path) - 1)[i] = path[i]
      <3>1. PICK n : n = Len(path) - 1
        OBVIOUS
      <3>2. n \in Nat /\ n <= Len(path) /\ n - 1 + 1 = n
        BY <1>1, <3>1
      <3>3. \A i \in 1..n : path[i] \in Traces!Phases \X Nat
        BY <2>1, <3>1
      <3>4. SubSeq(path, 1, n) = [i \in 1..n |-> path[i]]
        BY <1>1, <3>2
      <3>5. SubSeq(path, 1, n) \in Seq(Traces!Phases \X Nat) /\ Len(SubSeq(path, 1, n)) = n
        BY <3>2, <3>3, <3>4
      <3> QED BY <3>1, <3>4, <3>5
    <2> QED BY <2>2, <2>3
  <1> QED BY <1>1, <1>2, SMTT(40) DEF TracesCalls

LEMMA TracesAppend ==
    ASSUME TracesCalls, path # <<>> => Traces!Top # "model", NEW k \in Traces!Phases \X Nat,
           path' = Append(path, k)
    PROVE  /\ path' \in Seq(Traces!Phases \X Nat) /\ path' # <<>> /\ Traces!Top' = k[1]
           /\ \A i \in 1..Len(path') : path'[i][1] = "model" => i = Len(path')
  <1>1. Len(path) \in Nat /\ path \in Seq(Traces!Phases \X Nat)
    BY DEF TracesCalls
  <1>2. /\ path' \in Seq(Traces!Phases \X Nat) /\ Len(path') = Len(path) + 1
        /\ path'[Len(path) + 1] = k
        /\ \A i \in 1..Len(path) : path'[i] = path[i]
    BY <1>1
  <1>3. \A i \in 1..Len(path) : path[i][1] # "model"
    BY <1>1 DEF TracesCalls, Traces!Top
  <1>4. path' # <<>>
    BY <1>1, <1>2
  <1>5. path'[Len(path')] = k
    BY <1>2
  <1> QED BY <1>1, <1>2, <1>3, <1>4, <1>5 DEF Traces!Top

LEMMA TracesStep ==
    ASSUME TracesParameters, TracesInv, [Traces!Next]_Traces!vars
    PROVE  TracesInv'
  <1>1. /\ runNo \in Nat /\ separate \in BOOLEAN /\ MaxSpans \in Nat
        /\ Len(hook.tree) \in Nat
    BY DEF TracesInv, TracesParameters, TracesHook
  <1>0. /\ iteration \in Nat /\ iteration <= Len(hook.tree) /\ Len(hook.tree) <= MaxSpans
        /\ capture.calls \in Nat /\ capture.calls <= Len(hook.tree)
    BY DEF TracesInv, TracesCalls
  <1> USE DEF TracesInv
  <1>2. ASSUME NEW phase, Traces!Begins(phase), iteration' \in {iteration, 0}
        PROVE  TracesInv'
    <2>1. path # <<>> /\ Traces!Top # "model" /\ phase \in Traces!Phases \ {"model"}
      <3>1. path # <<>> /\ Traces!Top \in DOMAIN Traces!Inner /\ phase \in Traces!Inner[Traces!Top]
        BY <1>2 DEF Traces!Begins
      <3> QED BY <3>1 DEF Traces!Inner, Traces!Phases
    <2>2. Traces!KeyOf(phase) \in Traces!Phases \X Nat /\ Traces!KeyOf(phase)[1] = phase
      BY <1>1, <2>1 DEF Traces!KeyOf
    <2>3. /\ path' = Append(path, Traces!KeyOf(phase)) /\ Len(hook.tree) + 1 <= MaxSpans
          /\ hook' = Traces!StartSpan(hook, Traces!KeyOf(phase))
          /\ UNCHANGED <<separate, runNo, capture>>
      BY <1>2 DEF Traces!Begins, Traces!Room
    <2>4. /\ TracesHook(hook') /\ TracesHere(hook') /\ hook'.counted = hook.counted
          /\ hook'.tree = Append(hook.tree, [run |-> runNo, parent |-> hook.current])
      BY <1>1, <2>1, <2>3, TracesStart
    <2>5. TracesHook(hook)' /\ TracesHere(hook)' /\ runNo' > 0 /\ TracesRun(hook)' = TracesRun(hook')
      BY <2>1, <2>3, <2>4 DEF TracesHook, TracesHere, TracesRun
    <2>6. /\ Len(hook'.tree) = Len(hook.tree) + 1
          /\ Cardinality(TracesRun(hook')) = Cardinality(TracesRun(hook)) + 1
          /\ Cardinality(TracesRun(hook)) \in Nat
      BY <1>1, <2>4, TracesMore
    <2>7. TracesCounted(hook)'
      BY <2>4, <2>5, <2>6 DEF TracesCounted, TracesHook
    <2>8. /\ path' \in Seq(Traces!Phases \X Nat) /\ path' # <<>> /\ Traces!Top' = phase
          /\ \A i \in 1..Len(path') : path'[i][1] = "model" => i = Len(path')
      BY <2>1, <2>2, <2>3, TracesAppend
    <2>9. TracesCalls'
      <3>1. Traces!Top' # "model"
        BY <2>1, <2>8
      <3>2. iteration' \in Nat /\ iteration' <= Len(hook'.tree) /\ Len(hook'.tree) <= MaxSpans
        BY <1>1, <1>2, <2>3, <2>6 DEF TracesCalls
      <3>3. capture.calls <= Len(hook'.tree)
        BY <1>1, <2>6 DEF TracesCalls
      <3> QED BY <2>3, <2>8, <3>1, <3>2, <3>3 DEF TracesCalls
    <2> QED BY <2>3, <2>5, <2>7, <2>9
  \* The innermost phase ends, or all do.
  <1>3. ASSUME /\ path' = <<>> \/ path' = Traces!Front(path)
               /\ path # <<>>
               /\ \E key : hook' = Traces!EndSpan(hook, key)
               /\ UNCHANGED <<separate, runNo, iteration, capture>>
        PROVE  TracesInv'
    <2>1. /\ TracesHook(hook') /\ TracesHere(hook')
          /\ hook'.tree = hook.tree /\ hook'.counted = hook.counted
      BY <1>1, <1>3, TracesEnd
    <2>2. /\ TracesHook(hook)' /\ TracesHere(hook)' /\ TracesCounted(hook)'
      BY <1>3, <2>1 DEF TracesHook, TracesHere, TracesRun, TracesCounted
    <2>3. /\ path' \in Seq(Traces!Phases \X Nat)
          /\ \A i \in 1..Len(path') : path'[i][1] # "model"
      <3>1. CASE path' = <<>>
        BY <3>1
      <3>2. CASE path' = Traces!Front(path)
        BY <1>3, <3>2, TracesFront
      <3> QED BY <1>3, <3>1, <3>2
    <2>4. path' # <<>> => Traces!Top' # "model"
      <3>1. path' # <<>> => Len(path') \in 1..Len(path')
        BY <2>3
      <3> QED BY <2>3, <3>1 DEF Traces!Top
    <2>5. TracesCalls'
      BY <1>3, <2>1, <2>3, <2>4 DEF TracesCalls
    <2> QED BY <1>3, <2>2, <2>5
  <1>4. ASSUME NEW phase, Traces!Closes(phase)
        PROVE  TracesInv'
    BY <1>3, <1>4 DEF Traces!Closes
  <1>5. CASE Traces!RunBegins
    <2>1. PICK r : r = runNo + 1
      OBVIOUS
    <2>2. PICK bare : bare = IF separate THEN [hook EXCEPT !.current = 0] ELSE hook
      OBVIOUS
    <2>3. PICK n : n = Len(hook.tree) + 1
      OBVIOUS
    <2>4. PICK e : e = [span |-> n, saved |-> bare.current, task |-> IF separate THEN r ELSE 1]
      OBVIOUS
    <2>5. PICK span : span = [run |-> r, parent |-> bare.current]
      OBVIOUS
    <2>6. PICK t : t = Append(hook.tree, span)
      OBVIOUS
    <2>7. PICK o : o = Traces!Put(hook.open, <<"run", 0>>, e)
      OBVIOUS
    <2>8. /\ runNo' = r /\ runNo < MaxRuns /\ n <= MaxSpans /\ path = <<>> /\ path' = <<<<"run", 0>>>>
          /\ hook' = [Traces!Reset(bare) EXCEPT
                        !.tree = Append(@, span), !.current = n,
                        !.open = Traces!Put(@, <<"run", 0>>, e)]
          /\ UNCHANGED <<separate, iteration, capture>>
      <3>1. /\ runNo' = r /\ runNo < MaxRuns /\ n <= MaxSpans /\ path = <<>>
            /\ path' = <<<<"run", 0>>>> /\ UNCHANGED <<separate, iteration, capture>>
        BY <1>1, <1>5, <2>1, <2>3 DEF Traces!RunBegins, Traces!Room
      <3>2. hook' = [Traces!Reset(bare) EXCEPT
                        !.tree = Append(@, span), !.current = n,
                        !.open = Traces!Put(@, <<"run", 0>>, e)]
        BY <1>5, <2>1, <2>2, <2>3, <2>4, <2>5, Zenon DEF Traces!RunBegins
      <3> QED BY <3>1, <3>2
    <2>9. /\ bare = [open |-> hook.open, tree |-> hook.tree, current |-> bare.current,
                     counted |-> hook.counted]
          /\ bare.current \in 0..Len(hook.tree) /\ (separate => bare.current = 0)
      BY <1>1, <2>2 DEF TracesHook
    <2>10. hook' = [open |-> o, tree |-> t, current |-> n, counted |-> 0]
      <3>1. PICK h0 : h0 = Traces!Reset(bare)
        OBVIOUS
      <3>2. h0 = [open |-> hook.open, tree |-> hook.tree, current |-> bare.current, counted |-> 0]
        BY <2>9, <3>1 DEF Traces!Reset
      <3>3. PICK h1 : h1 = [h0 EXCEPT !.tree = t]
        OBVIOUS
      <3>4. PICK h2 : h2 = [h1 EXCEPT !.current = n]
        OBVIOUS
      <3>5. h1 = [open |-> hook.open, tree |-> t, current |-> bare.current, counted |-> 0]
        BY <3>2, <3>3
      <3>6. h2 = [open |-> hook.open, tree |-> t, current |-> n, counted |-> 0]
        BY <3>4, <3>5
      <3>7. [h2 EXCEPT !.open = o] = [open |-> o, tree |-> t, current |-> n, counted |-> 0]
        BY <3>6
      <3>8. hook' = [h0 EXCEPT !.tree = Append(h0.tree, span), !.current = n,
                               !.open = Traces!Put(h0.open, <<"run", 0>>, e)]
        BY <2>8, <3>1, Zenon
      <3>9. h0.tree = hook.tree /\ h0.open = hook.open
        BY <3>2
      <3>10. hook' = [h0 EXCEPT !.tree = t, !.current = n, !.open = o]
        BY <2>6, <2>7, <3>8, <3>9, Zenon
      <3> QED BY <3>3, <3>4, <3>7, <3>10, Zenon
    <2>11. /\ n \in Nat \ {0} /\ r \in Nat \ {0} /\ t \in Seq(TracesSpan) /\ Len(t) = n
           /\ t[n].run = r /\ t[n].parent = bare.current
           /\ \A m \in 1..Len(hook.tree) : t[m] = hook.tree[m]
      BY <1>1, <2>1, <2>3, <2>5, <2>6, <2>9 DEF TracesHook, TracesSpan
    <2>12. \A m \in 1..n :
              /\ t[m].run <= r /\ t[m].parent \in 0..n
              /\ separate /\ t[m].parent # 0 => t[t[m].parent].run = t[m].run
      <3>1. \A m \in 1..Len(hook.tree) :
              /\ t[m].run <= runNo /\ t[m].parent \in 0..Len(hook.tree)
              /\ separate /\ t[m].parent # 0 => t[t[m].parent].run = t[m].run
        <4>1. \A m \in 1..Len(hook.tree) :
                 /\ hook.tree[m].run <= runNo /\ hook.tree[m].parent \in 0..Len(hook.tree)
                 /\ separate /\ hook.tree[m].parent # 0 =>
                       hook.tree[hook.tree[m].parent].run = hook.tree[m].run
          BY DEF TracesHook
        <4> QED BY <1>1, <2>11, <4>1, SMTT(40)
      <3>2. \A m \in 1..Len(hook.tree) : t[m].run \in Nat
        <4>1. t \in Seq(TracesSpan) /\ Len(hook.tree) <= Len(t)
          BY <1>1, <2>3, <2>11
        <4>2. \A m \in 1..Len(hook.tree) : t[m] \in TracesSpan
          BY <1>1, <4>1
        <4> QED BY <4>2 DEF TracesSpan
      <3> QED BY <1>1, <2>1, <2>3, <2>9, <2>11, <3>1, <3>2, SMTT(40)
    <2>13. \A k \in DOMAIN o :
              /\ o[k].span \in 1..n /\ o[k].saved \in 0..n
              /\ separate => /\ o[k].task \in 1..r
                             /\ o[k].saved # 0 => t[o[k].saved].run = o[k].task
      <3>1. ASSUME NEW k \in DOMAIN o, k = <<"run", 0>>
            PROVE  o[k] = e
        BY <2>7, <3>1 DEF Traces!Put
      <3>2. ASSUME NEW k \in DOMAIN o, k # <<"run", 0>>
            PROVE  k \in DOMAIN hook.open /\ o[k] = hook.open[k]
        BY <2>7, <3>2 DEF Traces!Put
      <3>3. /\ e.span \in 1..n /\ e.saved \in 0..n
            /\ separate => e.task \in 1..r /\ e.saved = 0
        BY <1>1, <2>3, <2>4, <2>9, <2>11
      <3>4. ASSUME NEW k \in DOMAIN hook.open
            PROVE  /\ hook.open[k].span \in 1..n /\ hook.open[k].saved \in 0..n
                   /\ separate => /\ hook.open[k].task \in 1..r
                                  /\ hook.open[k].saved # 0 =>
                                        t[hook.open[k].saved].run = hook.open[k].task
        <4>1. /\ hook.open[k].span \in 1..Len(hook.tree)
              /\ hook.open[k].saved \in 0..Len(hook.tree)
              /\ separate => /\ hook.open[k].task \in 1..runNo
                             /\ hook.open[k].saved # 0 =>
                                   hook.tree[hook.open[k].saved].run = hook.open[k].task
          BY DEF TracesHook
        <4> QED BY <1>1, <2>1, <2>3, <2>11, <4>1, SMTT(40)
      <3> QED BY <3>1, <3>2, <3>3, <3>4
    <2> HIDE DEF TracesInv
    <2>18. /\ hook'.open = o /\ hook'.tree = t /\ hook'.current = n /\ hook'.counted = 0
           /\ runNo' = r /\ separate' = separate
      <3>1. /\ hook'.open = o /\ hook'.tree = t /\ hook'.current = n /\ hook'.counted = 0
        BY <2>10
      <3>2. runNo' = r /\ separate' = separate
        BY <2>8
      <3> QED BY <3>1, <3>2
    <2>14. TracesHook(hook)'
      <3>1. hook' = [open |-> hook'.open, tree |-> hook'.tree, current |-> hook'.current,
                     counted |-> hook'.counted]
        BY <2>10, <2>18
      <3>2. n \in 0..Len(t) /\ Len(t) = n
        BY <2>11
      <3> QED BY <2>11, <2>12, <2>13, <2>18, <3>1, <3>2 DEF TracesHook
    <2>15. TracesHere(hook)'
      BY <2>11, <2>18 DEF TracesHere
    <2>16. TracesCounted(hook)'
      <3>1. TracesRun(hook)' \subseteq 1..n
        BY <2>11, <2>18 DEF TracesRun
      <3>2. IsFiniteSet(1..n)
        BY <2>11, FS_Interval
      <3>3. Cardinality(TracesRun(hook)') \in Nat
        BY <3>1, <3>2, FS_Subset, FS_CardinalityType
      <3>4. hook'.counted = 0
        BY <2>10
      <3> QED BY <3>3, <3>4 DEF TracesCounted
    <2>17. TracesCalls'
      <3>1. /\ path' \in Seq(Traces!Phases \X Nat) /\ Len(path') = 1 /\ path'[1][1] = "run"
        BY <2>8 DEF Traces!Phases
      <3>2. Traces!Top' = "run"
        BY <3>1 DEF Traces!Top
      <3>3. /\ Len(hook'.tree) = n /\ n <= MaxSpans /\ iteration <= n /\ capture.calls <= n
            /\ iteration \in Nat /\ capture.calls \in Nat
        BY <1>0, <1>1, <2>3, <2>8, <2>11, <2>18
      <3>4. /\ Len(hook.tree)' = n /\ UNCHANGED <<iteration, capture>>
            /\ Len(path') \in 1..1 /\ path'[1][1] # "model"
        BY <2>8, <3>1, <3>3
      <3>5. /\ capture = [pending |-> capture.pending, written |-> capture.written,
                           calls |-> capture.calls]
            /\ \A record \in capture.written :
                  record[1] = record[2] /\ record \in (1..capture.calls) \X (1..capture.calls)
        BY DEF TracesInv, TracesCalls
      <3>6. \A i \in 1..Len(path') : path'[i][1] # "model"
        BY <3>1
      <3> QED BY <3>1, <3>2, <3>3, <3>4, <3>5, <3>6 DEF TracesCalls
    <2> QED BY <1>1, <2>1, <2>8, <2>14, <2>15, <2>16, <2>17 DEF TracesParameters, TracesInv
  \* A call of the model: the request is kept under the key of run and iteration.
  <1>6. ASSUME capture' = Traces!Asks(capture, Traces!Pending), UNCHANGED <<runNo, iteration>>
        PROVE  /\ capture'.calls = capture.calls + 1 /\ capture'.written = capture.written
               /\ Traces!Pending' = Traces!Pending /\ Traces!Pending \in DOMAIN capture'.pending
               /\ capture'.pending[Traces!Pending] = capture'.calls
               /\ capture' = [pending |-> capture'.pending, written |-> capture'.written,
                              calls |-> capture'.calls]
               /\ capture'.calls \in Nat \ {0}
    <2>1. PICK c : c = capture.calls + 1
      OBVIOUS
    <2>2. PICK p : p = Traces!Put(capture.pending, Traces!Pending, c)
      OBVIOUS
    <2>3. PICK c1 : c1 = [capture EXCEPT !.calls = c]
      OBVIOUS
    <2>4. c1 = [pending |-> capture.pending, written |-> capture.written, calls |-> c]
      BY <2>3 DEF TracesCalls
    <2>5. PICK c2 : c2 = [c1 EXCEPT !.pending = p]
      OBVIOUS
    <2>6. c2 = [pending |-> p, written |-> capture.written, calls |-> c]
      BY <2>4, <2>5
    <2>7. capture' = c2
      BY <1>6, <2>1, <2>2, <2>3, <2>5, Zenon DEF Traces!Asks
    <2>8. Traces!Pending \in DOMAIN p /\ p[Traces!Pending] = c
      BY <2>2 DEF Traces!Put
    <2>9. c \in Nat \ {0}
      BY <2>1 DEF TracesCalls
    <2>10. Traces!Pending' = Traces!Pending
      BY <1>6 DEF Traces!Pending
    <2> QED BY <2>1, <2>6, <2>7, <2>8, <2>9, <2>10
  \* A span more, which may end at once.
  <1>7. ASSUME NEW g, NEW key, g = Traces!StartSpan(hook, key), path # <<>>,
               Len(hook.tree) + 1 <= MaxSpans, UNCHANGED <<separate, runNo>>,
               hook' = g \/ hook' = Traces!CountModel(g)
                         \/ \E k : hook' = Traces!EndSpan(Traces!CountModel(g), k)
        PROVE  /\ TracesHook(hook)' /\ TracesHere(hook)' /\ TracesCounted(hook)'
               /\ Len(hook'.tree) = Len(hook.tree) + 1
    <2>1. /\ TracesHook(g) /\ TracesHere(g) /\ g.counted = hook.counted
          /\ g.tree = Append(hook.tree, [run |-> runNo, parent |-> hook.current])
      BY <1>1, <1>7, TracesStart
    <2>2. PICK m : m = Traces!CountModel(g)
      OBVIOUS
    <2>3. TracesHook(m) /\ TracesHere(m) /\ m.tree = g.tree /\ m.counted = hook.counted + 1
      BY <2>1, <2>2, TracesCountsModel
    <2>4. /\ TracesHook(hook') /\ TracesHere(hook') /\ hook'.tree = g.tree
          /\ hook'.counted \in {hook.counted, hook.counted + 1}
      <3>1. CASE hook' = g
        BY <2>1, <3>1
      <3>2. CASE hook' = Traces!CountModel(g)
        BY <2>2, <2>3, <3>2
      <3>3. CASE \E k : hook' = Traces!EndSpan(Traces!CountModel(g), k)
        BY <1>1, <2>2, <2>3, <3>3, TracesEnd
      <3> QED BY <1>7, <3>1, <3>2, <3>3
    <2>5. /\ Len(hook'.tree) = Len(hook.tree) + 1
          /\ Cardinality(TracesRun(hook')) = Cardinality(TracesRun(hook)) + 1
          /\ Cardinality(TracesRun(hook)) \in Nat
      BY <1>1, <2>1, <2>4, TracesMore
    <2>6. TracesHook(hook)' /\ TracesHere(hook)' /\ TracesRun(hook)' = TracesRun(hook')
      BY <1>7, <2>4 DEF TracesHook, TracesHere, TracesRun
    <2>7. TracesCounted(hook)'
      BY <2>4, <2>5, <2>6 DEF TracesCounted, TracesHook
    <2> QED BY <2>5, <2>6, <2>7
  <1>8. CASE Traces!ModelBegins
    <2>1. /\ path # <<>> /\ Traces!Top = "execute" /\ Len(hook.tree) + 1 <= MaxSpans
          /\ path' = Append(path, <<"model", 0>>)
          /\ hook' = Traces!CountModel(Traces!StartSpan(hook, <<"model", 0>>))
          /\ capture' = Traces!Asks(capture, Traces!Pending)
          /\ UNCHANGED <<separate, runNo, iteration>>
      BY <1>8 DEF Traces!ModelBegins, Traces!Room
    <2>2. /\ TracesHook(hook)' /\ TracesHere(hook)' /\ TracesCounted(hook)'
          /\ Len(hook'.tree) = Len(hook.tree) + 1
      BY <1>7, <2>1
    <2>3. <<"model", 0>> \in Traces!Phases \X Nat /\ <<"model", 0>>[1] = "model"
      BY DEF Traces!Phases
    <2>4. /\ path' \in Seq(Traces!Phases \X Nat) /\ path' # <<>> /\ Traces!Top' = "model"
          /\ \A i \in 1..Len(path') : path'[i][1] = "model" => i = Len(path')
      <3>1. path # <<>> => Traces!Top # "model"
        BY <2>1
      <3> QED BY <2>1, <2>3, <3>1, TracesAppend
    <2>5. TracesCalls'
      <3>1. /\ iteration' \in Nat /\ iteration' < Len(hook'.tree) /\ Len(hook'.tree) <= MaxSpans
            /\ capture.calls + 1 <= Len(hook'.tree)
        <4>1. Len(hook.tree) + 1 <= MaxSpans /\ iteration' = iteration
          BY <2>1
        <4> QED BY <1>0, <1>1, <2>2, <4>1
      <3>2. \A record \in capture'.written :
               record[1] = record[2] /\ record \in (1..capture'.calls) \X (1..capture'.calls)
        BY <1>6, <2>1 DEF TracesCalls
      <3> QED BY <1>1, <1>6, <2>1, <2>2, <2>4, <3>1, <3>2 DEF TracesCalls
    <2> QED BY <2>1, <2>2, <2>5
  <1>9. CASE Traces!ModelRefused
    <2>1. /\ path # <<>> /\ Traces!Top = "execute" /\ Len(hook.tree) + 1 <= MaxSpans
          /\ path' = Traces!Front(path)
          /\ \E k : hook' = Traces!EndSpan(Traces!CountModel(
                                 Traces!StartSpan(hook, <<"model", 0>>)), k)
          /\ capture' = Traces!Asks(capture, Traces!Pending)
          /\ UNCHANGED <<separate, runNo, iteration>>
      BY <1>9, Zenon DEF Traces!ModelRefused, Traces!Room
    <2>2. /\ TracesHook(hook)' /\ TracesHere(hook)' /\ TracesCounted(hook)'
          /\ Len(hook'.tree) = Len(hook.tree) + 1
      BY <1>7, <2>1
    <2>3. /\ path' \in Seq(Traces!Phases \X Nat)
          /\ \A i \in 1..Len(path') : path'[i][1] # "model"
      BY <2>1, TracesFront
    <2>4. path' # <<>> => Traces!Top' # "model"
      <3>1. path' # <<>> => Len(path') \in 1..Len(path')
        BY <2>3
      <3> QED BY <2>3, <3>1 DEF Traces!Top
    <2>5. TracesCalls'
      <3>1. /\ iteration' \in Nat /\ iteration' <= Len(hook'.tree) /\ Len(hook'.tree) <= MaxSpans
            /\ capture.calls + 1 <= Len(hook'.tree)
        <4>1. Len(hook.tree) + 1 <= MaxSpans /\ iteration' = iteration
          BY <2>1
        <4> QED BY <1>0, <1>1, <2>2, <4>1
      <3>2. \A record \in capture'.written :
               record[1] = record[2] /\ record \in (1..capture'.calls) \X (1..capture'.calls)
        BY <1>6, <2>1 DEF TracesCalls
      <3> QED BY <1>1, <1>6, <2>1, <2>2, <2>3, <2>4, <3>1, <3>2 DEF TracesCalls
    <2> QED BY <2>1, <2>2, <2>5
  <1>10. CASE Traces!ModelEnds
    <2>1. /\ path # <<>> /\ Traces!Top = "model" /\ path' = Traces!Front(path)
          /\ hook' = Traces!EndSpan(hook, <<"model", 0>>)
          /\ capture' = Traces!Answers(capture, Traces!Pending)
          /\ iteration' = iteration + 1 /\ UNCHANGED <<separate, runNo>>
      BY <1>10 DEF Traces!ModelEnds
    <2>2. /\ TracesHook(hook') /\ TracesHere(hook')
          /\ hook'.tree = hook.tree /\ hook'.counted = hook.counted
      BY <1>1, <2>1, TracesEnd
    <2>3. /\ TracesHook(hook)' /\ TracesHere(hook)' /\ TracesCounted(hook)'
      <3>1. UNCHANGED <<separate, runNo>>
        BY <2>1
      <3> QED BY <2>2, <3>1 DEF TracesHook, TracesHere, TracesRun, TracesCounted
    <2>4. /\ path' \in Seq(Traces!Phases \X Nat)
          /\ \A i \in 1..Len(path') : path'[i][1] # "model"
      BY <2>1, TracesFront
    <2>5. path' # <<>> => Traces!Top' # "model"
      <3>1. path' # <<>> => Len(path') \in 1..Len(path')
        BY <2>4
      <3> QED BY <2>4, <3>1 DEF Traces!Top
    <2>6. /\ Traces!Pending \in DOMAIN capture.pending
          /\ capture.pending[Traces!Pending] = capture.calls
          /\ capture.calls \in Nat \ {0} /\ iteration < Len(hook.tree) /\ iteration \in Nat
      BY <2>1 DEF TracesCalls
    <2>7. /\ capture'.calls = capture.calls
          /\ capture'.written = capture.written \union {<<capture.calls, capture.calls>>}
          /\ capture' = [pending |-> capture'.pending, written |-> capture'.written,
                         calls |-> capture'.calls]
      <3>1. PICK p : p = [k \in DOMAIN capture.pending \ {Traces!Pending} |-> capture.pending[k]]
        OBVIOUS
      <3>2. PICK w : w = capture.written \union {<<capture.calls, capture.calls>>}
        OBVIOUS
      <3>3. PICK c1 : c1 = [capture EXCEPT !.pending = p]
        OBVIOUS
      <3>4. c1 = [pending |-> p, written |-> capture.written, calls |-> capture.calls]
        BY <3>3 DEF TracesCalls
      <3>5. [c1 EXCEPT !.written = w] = [pending |-> p, written |-> w, calls |-> capture.calls]
        BY <3>4
      <3>6. capture' = [capture EXCEPT !.pending = p, !.written = w]
        BY <2>1, <2>6, <3>1, <3>2, Zenon DEF Traces!Answers
      <3>7. capture' = [pending |-> p, written |-> w, calls |-> capture.calls]
        BY <3>3, <3>5, <3>6, Zenon
      <3> QED BY <3>2, <3>7
    <2>8. TracesCalls'
      <3>1. /\ iteration' \in Nat /\ iteration' <= Len(hook'.tree) /\ Len(hook'.tree) <= MaxSpans
        BY <1>1, <2>1, <2>2, <2>6 DEF TracesCalls
      <3>2. \A record \in capture'.written :
               record[1] = record[2] /\ record \in (1..capture'.calls) \X (1..capture'.calls)
        BY <2>6, <2>7 DEF TracesCalls
      <3>3. capture'.calls \in Nat /\ capture'.calls <= Len(hook'.tree)
        BY <2>2, <2>6, <2>7 DEF TracesCalls
      <3> QED BY <2>4, <2>5, <2>7, <3>1, <3>2, <3>3 DEF TracesCalls
    <2> QED BY <2>1, <2>3, <2>8
  <1>11. CASE Traces!VerifyRefused
    <2>1. /\ path # <<>> /\ Traces!Top = "milestone" /\ Len(hook.tree) + 1 <= MaxSpans
          /\ hook' = Traces!StartSpan(hook, <<"verify", 0>>)
          /\ UNCHANGED <<separate, runNo, path, iteration, capture>>
      BY <1>11 DEF Traces!VerifyRefused, Traces!Room
    <2>2. /\ TracesHook(hook)' /\ TracesHere(hook)' /\ TracesCounted(hook)'
          /\ Len(hook'.tree) = Len(hook.tree) + 1
      BY <1>7, <2>1
    <2>3. Traces!Top' = Traces!Top /\ Traces!Pending' = Traces!Pending
      BY <2>1 DEF Traces!Top, Traces!Pending
    <2>4. TracesCalls'
      <3>1. /\ iteration' \in Nat /\ iteration' <= Len(hook'.tree) /\ Len(hook'.tree) <= MaxSpans
            /\ capture.calls <= Len(hook'.tree)
        <4>1. Len(hook.tree) + 1 <= MaxSpans /\ iteration' = iteration
          BY <2>1
        <4> QED BY <1>0, <1>1, <2>2, <4>1
      <3> QED BY <2>1, <2>3, <3>1 DEF TracesCalls
    <2> QED BY <2>1, <2>2, <2>4
  <1>12. CASE Traces!Unwinds
    <2>1. path # <<>> /\ path' = <<>>
      BY <1>12 DEF Traces!Unwinds
    <2> QED BY <1>3, <1>12, <2>1 DEF Traces!Unwinds
  <1>13. CASE UNCHANGED Traces!vars
    <2>1. UNCHANGED <<separate, runNo, path, iteration, hook, capture>>
      BY <1>13 DEF Traces!vars
    <2>2. Traces!Top' = Traces!Top /\ Traces!Pending' = Traces!Pending
      BY <2>1 DEF Traces!Top, Traces!Pending
    <2> QED BY <2>1, <2>2 DEF TracesHook, TracesHere, TracesCounted, TracesRun, TracesCalls
  <1>14. ASSUME Traces!Next
         PROVE  TracesInv'
    BY <1>2, <1>4, <1>5, <1>8, <1>9, <1>10, <1>11, <1>12, <1>14
       DEF Traces!Next, Traces!SessionBegins, Traces!MilestoneBegins, Traces!PlanBegins,
           Traces!ExecuteBegins, Traces!ToolBegins, Traces!VerifyBegins, Traces!RunEnds,
           Traces!SessionEnds, Traces!MilestoneEnds, Traces!PlanEnds, Traces!ExecuteEnds,
           Traces!ToolEnds, Traces!VerifyEnds
  <1> QED BY <1>13, <1>14

LEMMA TracesInit ==
    ASSUME TracesParameters, Traces!Init
    PROVE  TracesInv
  <1> USE DEF Traces!Init
  <1>1. /\ hook = [open |-> <<>>, tree |-> <<>>, current |-> 0, counted |-> 0]
        /\ DOMAIN hook.open = {} /\ Len(hook.tree) = 0
    BY DEF Traces!NoHook
  <1>2. TracesHook(hook)
    BY <1>1 DEF TracesHook
  <1>3. TracesCounted(hook)
    <2>1. TracesRun(hook) = {}
      BY <1>1 DEF TracesRun
    <2>2. Cardinality(TracesRun(hook)) = 0
      BY <2>1, FS_EmptySet
    <2> QED BY <1>1, <2>2 DEF TracesCounted
  <1>4. TracesCalls
    BY <1>1 DEF TracesCalls, TracesParameters
  <1> QED BY <1>2, <1>3, <1>4 DEF TracesInv, TracesParameters

\* What the invariant says of the hook and of the captured calls.
LEMMA TracesHolds ==
    ASSUME TracesParameters, TracesInv
    PROVE  Traces!TypeOK /\ Traces!OwnAttribution
  <1>1. /\ hook.tree \in Seq(TracesSpan) /\ Len(hook.tree) \in Nat
        /\ DOMAIN hook.tree = 1..Len(hook.tree) /\ MaxSpans \in Nat
    BY DEF TracesInv, TracesHook, TracesParameters
  <1>2. Traces!TypeOK
    <2>1. separate \in Separate /\ runNo \in 0..MaxRuns
      BY DEF TracesInv
    <2>2. \A i \in DOMAIN path : path[i][1] \in Traces!Phases
      BY DEF TracesInv, TracesCalls
    <2>3. Len(hook.tree) <= MaxSpans /\ hook.current \in 0..Len(hook.tree)
      BY DEF TracesInv, TracesCalls, TracesHook
    <2>4. \A k \in DOMAIN hook.open : hook.open[k].span \in DOMAIN hook.tree
      BY <1>1 DEF TracesInv, TracesHook
    <2>5. capture.calls \in 0..MaxSpans
      BY <1>1 DEF TracesInv, TracesCalls
    <2>6. capture.written \subseteq (0..capture.calls) \X (1..capture.calls)
      BY <2>5 DEF TracesInv, TracesCalls
    <2>7. iteration \in 0..MaxSpans
      BY <1>1 DEF TracesInv, TracesCalls
    <2> QED BY <2>1, <2>2, <2>3, <2>4, <2>5, <2>6, <2>7, Zenon DEF Traces!TypeOK
  <1>3. separate => \A n \in DOMAIN hook.tree :
           LET parent == hook.tree[n].parent
           IN  parent # 0 => hook.tree[parent].run = hook.tree[n].run
    BY <1>1 DEF TracesInv, TracesHook
  <1>4. separate /\ path # <<>> => Traces!TraceOfEvents(hook) \in {0, runNo}
    BY DEF TracesInv, TracesHere, Traces!TraceOfEvents
  <1>5. \A record \in capture.written : record[1] = record[2]
    BY DEF TracesInv, TracesCalls
  <1>6. hook.counted <= Traces!Cardinality({n \in DOMAIN hook.tree : hook.tree[n].run = runNo})
    <2>1. TracesRun(hook) = {n \in DOMAIN hook.tree : hook.tree[n].run = runNo}
      BY <1>1 DEF TracesRun
    <2>2. TracesCounted(hook)
      BY DEF TracesInv
    <2>3. TracesRun(hook) = {n \in DOMAIN hook.tree : hook.tree[n].run = runNo}
             => Traces!Cardinality({n \in DOMAIN hook.tree : hook.tree[n].run = runNo})
                  = Cardinality(TracesRun(hook))
      BY Zenon DEF Traces!Cardinality, Cardinality
    <2> QED BY <2>1, <2>2, <2>3, Zenon DEF TracesCounted
  <1> QED BY <1>2, <1>3, <1>4, <1>5, <1>6, Zenon DEF Traces!OwnAttribution
\* What the hooks record is attributed to what it belongs to, whatever earlier runs
\* and attempts left behind (hooks/_internal/observability_hook.py).
THEOREM TracesAttribute ==
    ASSUME TracesParameters
    PROVE  Traces!Spec => [](Traces!TypeOK /\ Traces!OwnAttribution)
  <1>1. Traces!Init => TracesInv
    BY TracesInit
  <1>2. TracesInv /\ [Traces!Next]_Traces!vars => TracesInv'
    BY TracesStep
  <1>3. TracesInv => Traces!TypeOK /\ Traces!OwnAttribution
    BY TracesHolds
  <1> QED BY <1>1, <1>2, <1>3, PTL DEF Traces!Spec

-----------------------------------------------------------------------------
(* BuiltinTools.                                                             *)

\* There is a workspace root, and what is saved is content of files.
ToolsParameters ==
    /\ MaxLines \in Nat /\ MaxRoots \in Nat \ {0}
    /\ Saved \subseteq Tools!Files

\* The lines of a file, and the file.
LEMMA ToolsLines ==
    ASSUME ToolsParameters, NEW ls
    PROVE  ls \in Tools!SeqOf(Tools!Lines, MaxLines) <=> ls \in Seq(Tools!Lines) /\ Len(ls) <= MaxLines
  <1>1. ASSUME ls \in Tools!SeqOf(Tools!Lines, MaxLines)
        PROVE  ls \in Seq(Tools!Lines) /\ Len(ls) <= MaxLines
    <2>1. PICK m \in 0..MaxLines : ls \in [1..m -> Tools!Lines]
      BY <1>1 DEF Tools!SeqOf
    <2>2. m \in Nat /\ m <= MaxLines
      BY DEF ToolsParameters
    <2> QED BY <2>1, <2>2
  <1>2. ASSUME ls \in Seq(Tools!Lines), Len(ls) <= MaxLines
        PROVE  ls \in Tools!SeqOf(Tools!Lines, MaxLines)
    <2>1. Len(ls) \in 0..MaxLines /\ ls \in [1..Len(ls) -> Tools!Lines]
      BY <1>2 DEF ToolsParameters
    <2> QED BY <2>1 DEF Tools!SeqOf
  <1> QED BY <1>1, <1>2

LEMMA ToolsFile ==
    ASSUME ToolsParameters, NEW ls \in Seq(Tools!Lines), Len(ls) <= MaxLines,
           NEW ends \in {"lf", "crlf"}, NEW cut \in BOOLEAN, ls = <<>> => ~cut
    PROVE  Tools!Content(ls, ends, cut) \in Tools!Files
  <1>1. ls \in Tools!SeqOf(Tools!Lines, MaxLines)
    BY ToolsLines
  <1>2. Tools!Content(ls, ends, cut).lines = ls /\ Tools!Content(ls, ends, cut).open = cut
    BY DEF Tools!Content
  <1> QED BY <1>1, <1>2 DEF Tools!Files

LEMMA ToolsOfFile ==
    ASSUME ToolsParameters, NEW c \in Tools!Files
    PROVE  /\ c = Tools!Content(c.lines, c.ends, c.open)
           /\ c.lines \in Seq(Tools!Lines) /\ Len(c.lines) <= MaxLines /\ Len(c.lines) \in Nat
           /\ c.ends \in {"lf", "crlf"} /\ c.open \in BOOLEAN /\ (c.lines = <<>> => ~c.open)
           /\ c.is = "file"
  <1>1. PICK ls \in Tools!SeqOf(Tools!Lines, MaxLines), e \in {"lf", "crlf"}, o \in BOOLEAN :
           c = Tools!Content(ls, e, o) /\ (c.lines = <<>> => ~c.open)
    BY DEF Tools!Files
  <1>2. c.lines = ls /\ c.ends = e /\ c.open = o /\ c.is = "file"
    BY <1>1 DEF Tools!Content
  <1>3. ls \in Seq(Tools!Lines) /\ Len(ls) <= MaxLines
    BY ToolsLines
  <1> QED BY <1>1, <1>2, <1>3

\* A line that is put in is found where it was put, and taking it out leaves the rest.
LEMMA ToolsInsert ==
    ASSUME NEW S, NEW s \in Seq(S), NEW n \in 1..Len(s) + 1, NEW x \in S
    PROVE  /\ Tools!InsertAt(s, n, x) \in Seq(S) /\ Len(Tools!InsertAt(s, n, x)) = Len(s) + 1
           /\ Len(s) \in Nat
           /\ Tools!RemoveAt(Tools!InsertAt(s, n, x), n) = s
  <1> DEFINE A == SubSeq(s, 1, n - 1)
             B == SubSeq(s, n, Len(s))
             w == <<x>>
             Aw == A \o w
             t == Aw \o B
  <1>1. Len(s) \in Nat /\ n - 1 \in 0..Len(s) /\ (n - 1) + 1 = n /\ n \in Nat
    OBVIOUS
  <1>2. /\ A \in Seq(S) /\ Len(A) = n - 1 /\ \A i \in 1..n - 1 : A[i] = s[i]
        /\ B \in Seq(S) /\ Len(B) = Len(s) - (n - 1)
        /\ \A i \in 1..Len(s) - (n - 1) : B[i] = s[(n - 1) + i]
    BY <1>1, Halves
  <1>3. w \in Seq(S) /\ Len(w) = 1 /\ w[1] = x
    OBVIOUS
  <1> HIDE DEF A, B, w
  <1>4. /\ Aw \in Seq(S) /\ Len(Aw) = n
        /\ \A i \in 1..n - 1 : Aw[i] = s[i]
    <2>1. /\ Aw \in Seq(S) /\ Len(Aw) = Len(A) + Len(w) /\ \A i \in 1..Len(A) : Aw[i] = A[i]
      BY <1>2, <1>3, Joined
    <2> HIDE DEF Aw
    <2> QED BY <1>1, <1>2, <1>3, <2>1
  <1> HIDE DEF Aw
  <1>5. /\ t \in Seq(S) /\ Len(t) = Len(s) + 1
        /\ \A i \in 1..n - 1 : t[i] = s[i]
        /\ \A i \in n..Len(s) : t[i + 1] = s[i]
    <2>1. /\ t \in Seq(S) /\ Len(t) = Len(Aw) + Len(B) /\ \A i \in 1..Len(Aw) : t[i] = Aw[i]
          /\ \A i \in 1..Len(B) : t[Len(Aw) + i] = B[i]
      BY <1>2, <1>4, Joined
    <2> HIDE DEF t
    <2>2. Len(t) = Len(s) + 1
      BY <1>1, <1>2, <1>4, <2>1
    <2>3. \A i \in 1..n - 1 : t[i] = s[i]
      BY <1>1, <1>4, <2>1
    <2>4. ASSUME NEW i \in n..Len(s) PROVE t[i + 1] = s[i]
      <3>1. i - n + 1 \in 1..Len(B) /\ n + (i - n + 1) = i + 1 /\ (n - 1) + (i - n + 1) = i
        BY <1>1, <1>2
      <3>2. t[Len(Aw) + (i - n + 1)] = B[i - n + 1]
        BY <2>1, <3>1
      <3>3. B[i - n + 1] = s[(n - 1) + (i - n + 1)]
        BY <1>2, <3>1
      <3> QED BY <1>4, <3>1, <3>2, <3>3
    <2> QED BY <2>1, <2>2, <2>3, <2>4
  <1>6. Tools!InsertAt(s, n, x) = t
    BY DEF Tools!InsertAt, t, Aw, A, B, w
  <1> HIDE DEF t
  <1> DEFINE C == SubSeq(t, 1, n - 1)
             D == SubSeq(t, n + 1, Len(t))
             r == C \o D
  <1>7. C \in Seq(S) /\ Len(C) = n - 1 /\ \A i \in 1..n - 1 : C[i] = t[i]
    <2>1. n - 1 \in 0..Len(t)
      BY <1>1, <1>5
    <2> QED BY <1>5, <2>1, Halves
  <1>8. D \in Seq(S) /\ Len(D) = Len(t) - n /\ \A i \in 1..Len(t) - n : D[i] = t[n + i]
    <2>1. n \in 0..Len(t)
      BY <1>1, <1>5
    <2> QED BY <1>5, <2>1, Halves
  <1> HIDE DEF C, D
  <1>9. /\ r \in Seq(S) /\ Len(r) = Len(C) + Len(D)
        /\ \A i \in 1..Len(C) : r[i] = C[i]
        /\ \A i \in 1..Len(D) : r[Len(C) + i] = D[i]
    <2>1. C \in Seq(S) /\ D \in Seq(S)
      BY <1>7, <1>8
    <2> QED BY <2>1, Joined
  <1> HIDE DEF r
  <1>10. Len(r) = Len(s)
    BY <1>1, <1>5, <1>7, <1>8, <1>9
  <1>11. ASSUME NEW i \in 1..Len(s) PROVE r[i] = s[i]
    <2>1. CASE i \in 1..n - 1
      BY <1>5, <1>7, <1>9, <2>1
    <2>2. CASE i \in n..Len(s)
      <3>1. i - n + 1 \in 1..Len(D) /\ (n - 1) + (i - n + 1) = i /\ n + (i - n + 1) = i + 1
        BY <1>1, <1>5, <1>8, <2>2
      <3>2. r[Len(C) + (i - n + 1)] = D[i - n + 1]
        BY <1>9, <3>1
      <3>3. D[i - n + 1] = t[n + (i - n + 1)]
        BY <1>8, <3>1
      <3>4. t[i + 1] = s[i]
        BY <1>5, <2>2
      <3> QED BY <1>7, <3>1, <3>2, <3>3, <3>4
    <2>3. i \in 1..n - 1 \/ i \in n..Len(s)
      BY <1>1
    <2> QED BY <2>1, <2>2, <2>3
  <1>12. r = s
    BY <1>9, <1>10, <1>11
  <1>13. Tools!RemoveAt(t, n) = r
    BY DEF Tools!RemoveAt, r, C, D
  <1> QED BY <1>1, <1>5, <1>6, <1>12, <1>13

LEMMA ToolsRemove ==
    ASSUME NEW S, NEW s \in Seq(S), NEW n \in 1..Len(s)
    PROVE  Tools!RemoveAt(s, n) \in Seq(S) /\ Len(Tools!RemoveAt(s, n)) = Len(s) - 1 /\ Len(s) \in Nat
  <1> DEFINE C == SubSeq(s, 1, n - 1)
             D == SubSeq(s, n + 1, Len(s))
  <1>1. Len(s) \in Nat /\ n - 1 \in 0..Len(s) /\ n \in 0..Len(s)
    OBVIOUS
  <1>2. C \in Seq(S) /\ Len(C) = n - 1 /\ D \in Seq(S) /\ Len(D) = Len(s) - n
    BY <1>1, Halves
  <1> HIDE DEF C, D
  <1> DEFINE r == C \o D
  <1>3. r \in Seq(S) /\ Len(r) = Len(C) + Len(D)
    BY <1>2, Joined
  <1>4. Tools!RemoveAt(s, n) = r
    BY DEF Tools!RemoveAt, C, D
  <1> HIDE DEF r
  <1> QED BY <1>1, <1>2, <1>3, <1>4, SMTT(40)

\* What edit_line inserts it can delete again, and both leave a file.
LEMMA ToolsEdit ==
    ASSUME ToolsParameters, NEW c \in Tools!Files, NEW n \in 1..Len(c.lines) + 1, NEW x \in Texts,
           ~(c.open /\ n > Len(c.lines))
    PROVE  Tools!Deleted(Tools!Inserted(c, n, x), n) = [c EXCEPT !.ends = "lf"]
  <1>1. /\ c = Tools!Content(c.lines, c.ends, c.open) /\ c.lines \in Seq(Tools!Lines)
        /\ Len(c.lines) \in Nat /\ c.open \in BOOLEAN
    BY ToolsOfFile
  <1> DEFINE s == c.lines
             m == IF n <= Len(c.lines) THEN n ELSE Len(c.lines) + 1
             t == Tools!InsertAt(s, n, x)
  <1>2. m = n
    BY <1>1
  <1>3. x \in Tools!Lines
    BY DEF Tools!Lines
  <1>4. Len(t) = Len(s) + 1 /\ Tools!RemoveAt(t, n) = s
    <2>1. s \in Seq(Tools!Lines) /\ n \in 1..Len(s) + 1
      BY <1>1
    <2> HIDE DEF s
    <2> QED BY <1>3, <2>1, ToolsInsert
  <1>5. Tools!Inserted(c, n, x) = Tools!Content(t, "lf", c.open)
    BY <1>2, Zenon DEF Tools!Inserted
  <1> DEFINE d == Tools!Content(t, "lf", c.open)
  <1>6. d.lines = t /\ d.open = c.open
    BY DEF Tools!Content
  <1>7. (c.open /\ n < Len(t)) = c.open
    <2> HIDE DEF t
    <2> QED BY <1>1, <1>4
  <1> HIDE DEF t
  <1>8. Tools!Deleted(d, n) = Tools!Content(s, "lf", c.open)
    BY <1>4, <1>6, <1>7, Zenon DEF Tools!Deleted
  <1>9. [c EXCEPT !.ends = "lf"] = Tools!Content(s, "lf", c.open)
    BY <1>1 DEF Tools!Content
  <1> QED BY <1>5, <1>8, <1>9

LEMMA ToolsInserted ==
    ASSUME ToolsParameters, NEW c \in Tools!Files, NEW n \in 1..MaxLines + 1, NEW x \in Texts,
           Len(Tools!Inserted(c, n, x).lines) <= MaxLines
    PROVE  Tools!Inserted(c, n, x) \in Tools!Files
  <1>1. /\ c.lines \in Seq(Tools!Lines) /\ Len(c.lines) \in Nat /\ Len(c.lines) <= MaxLines
        /\ c.open \in BOOLEAN /\ (c.lines = <<>> => ~c.open)
    BY ToolsOfFile
  <1>2. x \in Tools!Lines /\ "joined" \in Tools!Lines
    BY DEF Tools!Lines
  <1>3. CASE c.open /\ n > Len(c.lines)
    <2> DEFINE s == c.lines
               f == Tools!Front(s)
               t == Append(f, "joined")
    <2>1. Tools!Inserted(c, n, x) = Tools!Content(t, "lf", FALSE)
      BY <1>3, Zenon DEF Tools!Inserted
    <2>2. s \in Seq(Tools!Lines) /\ Len(s) \in Nat \ {0}
      BY <1>1, <1>3
    <2>3. f \in Seq(Tools!Lines) /\ Len(f) = Len(s) - 1
      <3> HIDE DEF s
      <3>1. Len(s) - 1 \in 0..Len(s)
        BY <2>2
      <3> QED BY <2>2, <3>1, Halves DEF Tools!Front
    <2> HIDE DEF f
    <2>4. t \in Seq(Tools!Lines) /\ Len(t) = Len(f) + 1
      BY <1>2, <2>3
    <2> HIDE DEF t
    <2>5. Len(t) <= MaxLines
      BY <1>1, <2>2, <2>3, <2>4
    <2> QED BY <2>1, <2>4, <2>5, ToolsFile
  <1>4. CASE ~(c.open /\ n > Len(c.lines))
    <2> DEFINE s == c.lines
               m == IF n <= Len(c.lines) THEN n ELSE Len(c.lines) + 1
               t == Tools!InsertAt(s, m, x)
    <2>1. Tools!Inserted(c, n, x) = Tools!Content(t, "lf", c.open)
      BY <1>4, Zenon DEF Tools!Inserted
    <2>2. s \in Seq(Tools!Lines) /\ m \in 1..Len(s) + 1
      BY <1>1
    <2> HIDE DEF s, m
    <2>3. t \in Seq(Tools!Lines) /\ Len(t) = Len(s) + 1 /\ Len(s) \in Nat
      BY <1>2, <2>2, ToolsInsert
    <2> HIDE DEF t
    <2>4. Len(t) <= MaxLines
      <3>1. Tools!Content(t, "lf", c.open).lines = t
        BY DEF Tools!Content
      <3> QED BY <2>1, <3>1
    <2>5. t # <<>>
      BY <2>3
    <2> QED BY <1>1, <2>1, <2>3, <2>4, <2>5, ToolsFile
  <1> QED BY <1>3, <1>4

LEMMA ToolsDeleted ==
    ASSUME ToolsParameters, NEW c \in Tools!Files, NEW n \in 1..Len(c.lines)
    PROVE  Tools!Deleted(c, n) \in Tools!Files
  <1>1. /\ c.lines \in Seq(Tools!Lines) /\ Len(c.lines) \in Nat /\ Len(c.lines) <= MaxLines
        /\ c.open \in BOOLEAN
    BY ToolsOfFile
  <1> DEFINE s == c.lines
             t == Tools!RemoveAt(s, n)
             cut == c.open /\ n < Len(s)
  <1>2. t \in Seq(Tools!Lines) /\ Len(t) = Len(s) - 1
    <2>1. s \in Seq(Tools!Lines) /\ n \in 1..Len(s)
      BY <1>1
    <2> HIDE DEF s
    <2> QED BY <2>1, ToolsRemove
  <1> HIDE DEF t
  <1>3. Len(t) <= MaxLines /\ cut \in BOOLEAN /\ (t = <<>> => ~cut)
    <2>1. MaxLines \in Nat
      BY DEF ToolsParameters
    <2>2. t = <<>> => Len(t) = 0
      OBVIOUS
    <2> QED BY <1>1, <1>2, <2>1, <2>2
  <1>4. Tools!Deleted(c, n) = Tools!Content(t, "lf", cut)
    BY DEF Tools!Deleted, t
  <1> HIDE DEF cut
  <1> QED BY <1>2, <1>3, <1>4, ToolsFile

\* No file is torn, and what was told names a file of a root there is by the path
\* that its tool shows.
ToolsInv ==
    /\ Tools!TypeOK
    /\ disk \in [1..MaxRoots -> [Names -> Tools!Files \union {Tools!Absent}]]
    /\ told # Tools!Nothing =>
          /\ told.of[1] \in 1..roots
          /\ told.path = IF told.tool = "search_file" THEN Tools!Display(told.of[1], told.of[2])
                         ELSE Tools!Relative(told.of[2])
    /\ Tools!AnsweredIsOver

LEMMA ToolsHolds ==
    ASSUME ToolsParameters, ToolsInv
    PROVE  Tools!TypeOK /\ Tools!EditsAreExact /\ Tools!PathsLeadBack /\ Tools!AnsweredIsOver
  <1>1. Tools!EditsAreExact
    <2> SUFFICES ASSUME NEW r \in 1..MaxRoots, NEW name \in Names
                 PROVE  /\ disk[r][name] # Tools!Torn
                        /\ Tools!Exists(disk[r][name]) =>
                             \A n \in 1..Len(disk[r][name].lines) + 1, t \in Texts :
                               \/ disk[r][name].open /\ n > Len(disk[r][name].lines)
                               \/ Tools!Deleted(Tools!Inserted(disk[r][name], n, t), n)
                                    = [disk[r][name] EXCEPT !.ends = "lf"]
      BY DEF Tools!EditsAreExact
    <2> DEFINE c == disk[r][name]
    <2>1. c \in Tools!Files \union {Tools!Absent}
      BY DEF ToolsInv
    <2> HIDE DEF c
    <2>2. c # Tools!Torn
      <3>1. c.is # "torn"
        BY <2>1, ToolsOfFile DEF Tools!Absent
      <3> QED BY <3>1 DEF Tools!Torn
    <2>3. ASSUME Tools!Exists(c), NEW n \in 1..Len(c.lines) + 1, NEW t \in Texts,
                 ~(c.open /\ n > Len(c.lines))
          PROVE  Tools!Deleted(Tools!Inserted(c, n, t), n) = [c EXCEPT !.ends = "lf"]
      <3>1. c \in Tools!Files
        BY <2>1, <2>3 DEF Tools!Exists, Tools!Absent
      <3> QED BY <2>3, <3>1, ToolsEdit
    <2> QED BY <2>2, <2>3 DEF c
  <1>2. Tools!PathsLeadBack
    <2> SUFFICES ASSUME told # Tools!Nothing, told.tool = "search_file" \/ roots = 1
                 PROVE  Tools!Allowed(told.path) /\ <<Tools!Root(told.path), told.path.name>> = told.of
      BY DEF Tools!PathsLeadBack
    <2>1. /\ told.of[1] \in 1..roots /\ roots \in Nat \ {0}
          /\ told.path = IF told.tool = "search_file" THEN Tools!Display(told.of[1], told.of[2])
                         ELSE Tools!Relative(told.of[2])
      BY DEF ToolsInv, Tools!TypeOK, ToolsParameters
    <2>2. told.of = <<told.of[1], told.of[2]>>
      <3>1. told.of \in (1..MaxRoots) \X Names
        BY DEF ToolsInv, Tools!TypeOK
      <3> QED BY <3>1
    <2> DEFINE r == told.of[1]
               f == told.of[2]
    <2> HIDE DEF r, f
    <2>3. CASE r = 1
      <3>1. told.path = Tools!Relative(f)
        BY <2>1, <2>3 DEF Tools!Display, r, f
      <3>2. told.path.is = "relative" /\ told.path.root = 1 /\ told.path.name = f
        BY <3>1 DEF Tools!Relative
      <3> QED BY <2>1, <2>2, <2>3, <3>2 DEF Tools!Allowed, Tools!Root, r, f
    <2>4. CASE r # 1
      <3>1. told.tool = "search_file"
        BY <2>1, <2>4 DEF r
      <3>2. told.path.is = "prefixed" /\ told.path.root = r /\ told.path.name = f
        BY <2>1, <2>4, <3>1 DEF Tools!Display, r, f
      <3> QED BY <2>1, <2>2, <3>2 DEF Tools!Allowed, Tools!Root, r, f
    <2> QED BY <2>3, <2>4
  <1> QED BY <1>1, <1>2 DEF ToolsInv

LEMMA ToolsInit == ASSUME ToolsParameters, Tools!Init PROVE ToolsInv
  <1>1. roots \in 1..MaxRoots /\ disk = [r \in 1..MaxRoots |-> [f \in Names |-> Tools!Absent]]
        /\ debris = FALSE /\ told = Tools!Nothing /\ command = Tools!NoCommand
    BY DEF Tools!Init
  <1>2. /\ disk \in [1..MaxRoots -> [Names -> Tools!Files \union {Tools!Absent}]]
        /\ disk \in [1..MaxRoots -> [Names -> Tools!Files \union {Tools!Absent, Tools!Torn}]]
    BY <1>1
  <1>3. /\ command \in [phase : {"idle", "running", "killed"}, shell : BOOLEAN, child : BOOLEAN,
                        result : {"none", "done", "timeout", "cancelled", "refused"}]
        /\ Tools!AnsweredIsOver
    BY <1>1 DEF Tools!NoCommand, Tools!AnsweredIsOver
  <1> QED BY <1>1, <1>2, <1>3 DEF ToolsInv, Tools!TypeOK

\* The root of a path that is allowed.
LEMMA ToolsRoot ==
    ASSUME ToolsInv, ToolsParameters, NEW p \in Tools!Paths, Tools!Allowed(p)
    PROVE  Tools!Root(p) \in 1..roots /\ Tools!Root(p) \in 1..MaxRoots /\ p.name \in Names
  <1>1. roots \in 1..MaxRoots /\ p.root \in 1..MaxRoots /\ p.name \in Names /\ p.root <= roots
        /\ MaxRoots \in Nat \ {0}
    BY DEF ToolsInv, Tools!TypeOK, Tools!Paths, Tools!Allowed, ToolsParameters
  <1> QED BY <1>1 DEF Tools!Root

\* What a file tool leaves: a file in one place, and an answer that names its place.
LEMMA ToolsFileStep ==
    ASSUME ToolsParameters, ToolsInv, UNCHANGED <<roots, command>>, debris' \in BOOLEAN,
           \/ disk' = disk
           \/ \E r \in 1..MaxRoots, name \in Names, c \in Tools!Files \union {Tools!Absent} :
                 disk' = [disk EXCEPT ![r][name] = c],
           \/ told' = told
           \/ \E r \in 1..roots, name \in Names,
                 tool \in {"read_file", "write_file", "edit_line", "search_code", "search_file"} :
                 Tools!Tell(tool, r, name)
    PROVE  ToolsInv'
  <1> USE DEF ToolsInv, Tools!TypeOK
  <1>1. roots \in 1..MaxRoots /\ MaxRoots \in Nat \ {0}
    BY DEF ToolsParameters
  <1>2. disk' \in [1..MaxRoots -> [Names -> Tools!Files \union {Tools!Absent}]]
    <2>1. ASSUME NEW r \in 1..MaxRoots, NEW name \in Names, NEW c \in Tools!Files \union {Tools!Absent},
                 disk' = [disk EXCEPT ![r][name] = c]
          PROVE  disk' \in [1..MaxRoots -> [Names -> Tools!Files \union {Tools!Absent}]]
      <3> DEFINE F == Tools!Files \union {Tools!Absent}
      <3>1. disk \in [1..MaxRoots -> [Names -> F]] /\ c \in F
        OBVIOUS
      <3> HIDE DEF F
      <3>2. disk' \in [1..MaxRoots -> [Names -> F]]
        BY <2>1, <3>1
      <3> QED BY <3>2 DEF F
    <2> QED BY <2>1
  <1>3. disk' \in [1..MaxRoots -> [Names -> Tools!Files \union {Tools!Absent, Tools!Torn}]]
    <2> DEFINE F == Tools!Files \union {Tools!Absent}
               G == Tools!Files \union {Tools!Absent, Tools!Torn}
    <2>1. F \subseteq G
      OBVIOUS
    <2>2. disk' \in [1..MaxRoots -> [Names -> F]]
      BY <1>2
    <2> HIDE DEF F, G
    <2>3. disk' \in [1..MaxRoots -> [Names -> G]]
      BY <2>1, <2>2
    <2> QED BY <2>3 DEF G
  <1> DEFINE Replies == [tool : {"read_file", "write_file", "edit_line", "search_code", "search_file"},
                         path : Tools!Paths, of : (1..MaxRoots) \X Names]
             Leads(t) == /\ t.of[1] \in 1..roots
                         /\ t.path = IF t.tool = "search_file" THEN Tools!Display(t.of[1], t.of[2])
                                     ELSE Tools!Relative(t.of[2])
  <1>4. told' \in {Tools!Nothing} \union Replies /\ (told' # Tools!Nothing => Leads(told'))
    <2>1. ASSUME NEW r \in 1..roots, NEW name \in Names,
                 NEW tool \in {"read_file", "write_file", "edit_line", "search_code", "search_file"},
                 Tools!Tell(tool, r, name)
          PROVE  told' \in Replies /\ Leads(told')
      <3> DEFINE at == IF tool = "search_file" THEN Tools!Display(r, name) ELSE Tools!Relative(name)
                 t == [tool |-> tool, of |-> <<r, name>>, path |-> at]
      <3>1. told' = t
        BY <2>1 DEF Tools!Tell
      <3>2. r \in 1..MaxRoots /\ 1 \in 1..MaxRoots
        BY <1>1
      <3>3. at \in Tools!Paths
        BY <3>2 DEF Tools!Paths, Tools!Display, Tools!Relative
      <3>4. t \in Replies
        <4> HIDE DEF at
        <4> QED BY <3>2, <3>3
      <3>5. t.of[1] = r /\ t.of[2] = name /\ t.tool = tool /\ t.path = at
        <4> HIDE DEF at
        <4> QED OBVIOUS
      <3>6. Leads(t)
        BY <3>5
      <3> QED BY <3>1, <3>4, <3>6
    <2>2. CASE told' = told
      <3>1. told \in {Tools!Nothing} \union Replies /\ (told # Tools!Nothing => Leads(told))
        OBVIOUS
      <3> HIDE DEF Leads, Replies
      <3> QED BY <2>2, <3>1
    <2> HIDE DEF Leads, Replies
    <2> QED BY <2>1, <2>2
  <1>5. Tools!AnsweredIsOver'
    BY DEF Tools!AnsweredIsOver
  <1>6. Tools!TypeOK'
    BY <1>3, <1>4 DEF Tools!TypeOK
  <1>7. told' # Tools!Nothing =>
          /\ told'.of[1] \in 1..roots'
          /\ told'.path = IF told'.tool = "search_file" THEN Tools!Display(told'.of[1], told'.of[2])
                          ELSE Tools!Relative(told'.of[2])
    BY <1>4
  <1> QED BY <1>2, <1>5, <1>6, <1>7 DEF ToolsInv

\* A file takes the place of another, whole, or a temporary file is left behind.
LEMMA ToolsWritten ==
    ASSUME ToolsParameters, ToolsInv, NEW r \in 1..roots, r \in 1..MaxRoots, NEW name \in Names,
           NEW c \in Tools!Files, NEW tool \in {"write_file", "edit_line"},
           Tools!AtomicWrite(r, name, c, tool), UNCHANGED <<roots, command>>
    PROVE  ToolsInv'
  <1>1. CASE disk' = [disk EXCEPT ![r][name] = c] /\ Tools!Tell(tool, r, name) /\ UNCHANGED debris
    <2>1. debris' \in BOOLEAN
      BY <1>1 DEF ToolsInv, Tools!TypeOK
    <2> QED BY <1>1, <2>1, ToolsFileStep
  <1>2. CASE debris' = TRUE /\ UNCHANGED <<disk, told>>
    BY <1>2, ToolsFileStep
  <1> QED BY <1>1, <1>2 DEF Tools!AtomicWrite

LEMMA ToolsCommands ==
    ASSUME ToolsInv,
           Tools!Launch \/ Tools!ProcessEnds \/ Tools!CommandReturns \/ Tools!TimesOut \/ Tools!Interrupted
    PROVE  ToolsInv'
  <1>1. UNCHANGED <<roots, disk, debris, told>>
    BY DEF Tools!Launch, Tools!ProcessEnds, Tools!CommandReturns, Tools!TimesOut, Tools!Interrupted
  <1> DEFINE C == [phase : {"idle", "running", "killed"}, shell : BOOLEAN, child : BOOLEAN,
                   result : {"none", "done", "timeout", "cancelled", "refused"}]
  <1>2. command \in C /\ Tools!AnsweredIsOver
    BY DEF ToolsInv, Tools!TypeOK
  <1>3. command' \in C /\ Tools!AnsweredIsOver'
    <2>1. CASE Tools!Launch
      <3>1. PICK c \in BOOLEAN, where \in {"none", "relative", "in a root", "outside"} :
               command' = IF Tools!MayRunIn(where)
                          THEN [phase |-> "running", shell |-> TRUE, child |-> c, result |-> "none"]
                          ELSE [Tools!NoCommand EXCEPT !.result = "refused"]
        BY <2>1 DEF Tools!Launch
      <3>2. CASE Tools!MayRunIn(where)
        <4>1. command' = [phase |-> "running", shell |-> TRUE, child |-> c, result |-> "none"]
          BY <3>1, <3>2
        <4> QED BY <4>1 DEF Tools!AnsweredIsOver
      <3>3. CASE ~Tools!MayRunIn(where)
        <4>1. command' = [phase |-> "idle", shell |-> FALSE, child |-> FALSE, result |-> "refused"]
          BY <3>1, <3>3 DEF Tools!NoCommand
        <4> QED BY <4>1 DEF Tools!AnsweredIsOver
      <3> QED BY <3>2, <3>3
    <2>2. CASE Tools!ProcessEnds
      BY <1>2, <2>2 DEF Tools!ProcessEnds, Tools!AnsweredIsOver
    <2>3. CASE Tools!CommandReturns
      BY <1>2, <2>3 DEF Tools!CommandReturns, Tools!NoCommand, Tools!AnsweredIsOver
    <2>4. CASE Tools!TimesOut
      BY <1>2, <2>4 DEF Tools!TimesOut, Tools!AnsweredIsOver
    <2>5. CASE Tools!Interrupted
      BY <1>2, <2>5 DEF Tools!Interrupted, Tools!AnsweredIsOver
    <2> QED BY <2>1, <2>2, <2>3, <2>4, <2>5
  <1> QED BY <1>1, <1>3 DEF ToolsInv, Tools!TypeOK

LEMMA ToolsStep == ASSUME ToolsParameters, ToolsInv, [Tools!Next]_Tools!vars PROVE ToolsInv'
  <1>1. ASSUME NEW p \in Tools!Paths, Tools!Write(p) PROVE ToolsInv'
    <2>1. PICK c \in Saved : Tools!AtomicWrite(Tools!Root(p), p.name, c, "write_file")
      BY <1>1 DEF Tools!Write
    <2>2. Tools!Allowed(p) /\ UNCHANGED <<roots, command>> /\ c \in Tools!Files
      BY <1>1 DEF Tools!Write, ToolsParameters
    <2> QED BY <2>1, <2>2, ToolsRoot, ToolsWritten
  <1>2. ASSUME NEW p \in Tools!Paths, NEW n \in 1..MaxLines + 1, NEW text \in Texts, Tools!Edit(p, n, text)
        PROVE  ToolsInv'
    <2> DEFINE old == disk[Tools!Root(p)][p.name]
    <2>1. /\ Tools!Allowed(p) /\ UNCHANGED <<roots, command>> /\ Tools!Exists(old)
          /\ \/ /\ Len(Tools!Inserted(old, n, text).lines) <= MaxLines
                /\ Tools!AtomicWrite(Tools!Root(p), p.name, Tools!Inserted(old, n, text), "edit_line")
             \/ /\ n <= Len(old.lines)
                /\ Tools!AtomicWrite(Tools!Root(p), p.name, Tools!Deleted(old, n), "edit_line")
      BY <1>2 DEF Tools!Edit, Tools!MayDelete
    <2>2. Tools!Root(p) \in 1..roots /\ Tools!Root(p) \in 1..MaxRoots /\ p.name \in Names
      BY <2>1, ToolsRoot
    <2>3. old \in Tools!Files
      <3>1. old \in Tools!Files \union {Tools!Absent}
        BY <2>2 DEF ToolsInv
      <3> HIDE DEF old
      <3> QED BY <2>1, <3>1 DEF Tools!Exists, Tools!Absent
    <2> HIDE DEF old
    <2>4. CASE /\ Len(Tools!Inserted(old, n, text).lines) <= MaxLines
               /\ Tools!AtomicWrite(Tools!Root(p), p.name, Tools!Inserted(old, n, text), "edit_line")
      BY <2>1, <2>2, <2>3, <2>4, ToolsInserted, ToolsWritten
    <2>5. CASE /\ n <= Len(old.lines)
               /\ Tools!AtomicWrite(Tools!Root(p), p.name, Tools!Deleted(old, n), "edit_line")
      <3>1. n \in 1..Len(old.lines)
        <4>1. Len(old.lines) \in Nat
          BY <2>3, ToolsOfFile
        <4> QED BY <2>5, <4>1
      <3> QED BY <2>1, <2>2, <2>3, <2>5, <3>1, ToolsDeleted, ToolsWritten
    <2> QED BY <2>1, <2>4, <2>5
  <1>3. ASSUME NEW p \in Tools!Paths, Tools!ReadFile(p) \/ Tools!SearchCode(p) \/ Tools!SearchFile(p)
        PROVE  ToolsInv'
    <2>1. PICK tool \in {"read_file", "search_code", "search_file"} : Tools!Found(tool, p)
      BY <1>3 DEF Tools!ReadFile, Tools!SearchCode, Tools!SearchFile
    <2>2. /\ Tools!Allowed(p) /\ Tools!Tell(tool, Tools!Root(p), p.name)
          /\ UNCHANGED <<roots, disk, debris, command>>
      BY <2>1 DEF Tools!Found
    <2>3. debris' \in BOOLEAN
      BY <2>2 DEF ToolsInv, Tools!TypeOK
    <2> QED BY <2>2, <2>3, ToolsRoot, ToolsFileStep
  <1>4. ASSUME NEW r \in 1..MaxRoots, NEW name \in Names, Tools!UserSaves(r, name) PROVE ToolsInv'
    <2>1. /\ \E c \in Saved \union {Tools!Absent} : disk' = [disk EXCEPT ![r][name] = c]
          /\ UNCHANGED <<roots, debris, told, command>>
      BY <1>4 DEF Tools!UserSaves
    <2>2. debris' \in BOOLEAN
      BY <2>1 DEF ToolsInv, Tools!TypeOK
    <2>3. Saved \subseteq Tools!Files
      BY DEF ToolsParameters
    <2> QED BY <2>1, <2>2, <2>3, ToolsFileStep
  <1>5. CASE Tools!Launch \/ Tools!ProcessEnds \/ Tools!CommandReturns \/ Tools!TimesOut \/ Tools!Interrupted
    BY <1>5, ToolsCommands
  <1>6. CASE UNCHANGED Tools!vars
    BY <1>6 DEF Tools!vars, ToolsInv, Tools!TypeOK, Tools!AnsweredIsOver
  <1> QED BY <1>1, <1>2, <1>3, <1>4, <1>5, <1>6 DEF Tools!Next

\* What an edit inserts an edit takes out again and no kill leaves half a file, the path a
\* search answers with leads back to the file, and an answered command is over, for any
\* number of roots, names, texts and lines (edit_line, search_file, run_command).
THEOREM FilesAreExact ==
    ASSUME ToolsParameters
    PROVE  Tools!Spec => [](/\ Tools!TypeOK /\ Tools!EditsAreExact
                            /\ Tools!PathsLeadBack /\ Tools!AnsweredIsOver)
  <1>1. Tools!Init => ToolsInv
    BY ToolsInit
  <1>2. ToolsInv /\ [Tools!Next]_Tools!vars => ToolsInv'
    BY ToolsStep
  <1>3. ToolsInv => /\ Tools!TypeOK /\ Tools!EditsAreExact
                    /\ Tools!PathsLeadBack /\ Tools!AnsweredIsOver
    BY ToolsHolds
  <1> QED BY <1>1, <1>2, <1>3, PTL DEF Tools!Spec

-----------------------------------------------------------------------------
(* KnowledgeStores.                                                          *)

\* The embedding model makes a number of any query and any text, a blank too.
KnowledgeParameters ==
    /\ Stores \subseteq Knowledge!Raw \union Knowledge!Vector
    /\ \A q \in Words \ {Knowledge!NoText}, t \in Words \union {Knowledge!Blank} : Similar[q][t] \in Int
    /\ MaxRows \in Nat /\ MaxTop \in Nat

KnowledgeMessage == [text : Words, form : Knowledge!Forms]
KnowledgeRow ==
    [content : Words \union {Knowledge!Blank}, message : KnowledgeMessage,
     fields : [text : {"absent", "kept"}, form : Knowledge!Forms, rich : BOOLEAN],
     model : Models \union {0}]

\* What a record has of its message.
KnowledgeTrue(row) ==
    /\ row.content = Knowledge!Content(row.message)
    /\ row.fields = Knowledge!Fields(bank.kind, row.message)

\* The inductive invariant: every record is a message's.
KnowledgeInv ==
    /\ bank \in [kind : Stores, front : Fronts] /\ embedder \in Models
    /\ entries \in Seq(KnowledgeRow) /\ Len(entries) <= MaxRows
    /\ \A i \in 1..Len(entries) : KnowledgeTrue(entries[i])

LEMMA KnowledgeListings ==
    /\ \A S, R : Knowledge!InOrder(S, R) = InOrder(S, R)
    /\ \A s, P : Knowledge!Taken(s, P) = Taken(s, P)
    /\ \A s : Knowledge!Range(s) = {s[i] : i \in DOMAIN s}
  <1>1. \A S, R : Knowledge!InOrder(S, R) = InOrder(S, R)
    BY Zenon DEF Knowledge!InOrder, InOrder, Knowledge!Cardinality, Cardinality,
       Knowledge!IsFiniteSet, IsFiniteSet
  <1>2. \A P : Knowledge!Places(P) = Places(P)
    BY <1>1, Zenon DEF Knowledge!Places, Places
  <1>3. \A s, P : Knowledge!Taken(s, P) = Taken(s, P)
    BY <1>1, <1>2, Zenon DEF Knowledge!Taken, Taken
  <1> QED BY <1>1, <1>3 DEF Knowledge!Range

LEMMA KnowledgePrefix ==
    ASSUME NEW X, NEW s \in Seq(X), NEW k \in Nat
    PROVE  LET t == Knowledge!Prefix(s, k)
           IN  /\ t \in Seq(X) /\ Len(t) = IF k < Len(s) THEN k ELSE Len(s)
               /\ Len(t) \in Nat /\ Len(s) \in Nat
               /\ \A i \in 1..Len(t) : i \in 1..Len(s) /\ t[i] = s[i]
  <1> DEFINE n == IF k < Len(s) THEN k ELSE Len(s)
  <1>1. Len(s) \in Nat /\ n \in 0..Len(s)
    OBVIOUS
  <1>2. Knowledge!Prefix(s, k) = SubSeq(s, 1, n)
    BY DEF Knowledge!Prefix
  <1>3. SubSeq(s, 1, n) \in Seq(X) /\ Len(SubSeq(s, 1, n)) = n /\ \A i \in 1..n : SubSeq(s, 1, n)[i] = s[i]
    BY <1>1, Halves
  <1> QED BY <1>1, <1>2, <1>3

\* The records in the order of their scores.
LEMMA KnowledgeRanked ==
    ASSUME KnowledgeParameters, KnowledgeInv, NEW q \in Words \ {Knowledge!NoText}
    PROVE  LET v == Knowledge!Ranked(q, DOMAIN entries)
           IN  /\ v \in Seq(KnowledgeRow) /\ Len(v) = Len(entries) /\ Len(v) \in Nat
               /\ \A i, j \in 1..Len(v) : i < j => Knowledge!Score(q, v[i]) >= Knowledge!Score(q, v[j])
               /\ \A i \in 1..Len(entries) : \E j \in 1..Len(v) : v[j] = entries[i]
  <1> DEFINE D == 1..Len(entries)
             n == Cardinality(D)
             f == [i \in D |-> Knowledge!Score(q, entries[i])]
             R == {p \in D \X D : Knowledge!Better(q, p[1], p[2])}
             L == InOrder(D, R)
             v == Knowledge!Ranked(q, DOMAIN entries)
  <1>1. Len(entries) \in Nat /\ DOMAIN entries = D /\ \A i \in D : entries[i] \in KnowledgeRow
    BY DEF KnowledgeInv
  <1>2. IsFiniteSet(D) /\ n = Len(entries)
    BY <1>1, FS_Interval, 1 \in Int, Len(entries) \in Int
  <1>3. \A i \in D : f[i] \in Int /\ i \in Int
    BY <1>1 DEF KnowledgeParameters, KnowledgeRow, Knowledge!Score
  <1>4. \A i, j \in D : <<i, j>> \in R <=> f[i] > f[j] \/ (f[i] = f[j] /\ i < j)
    BY DEF Knowledge!Better
  <1>5. Orders(R, D)
    <2> HIDE DEF f, R, D
    <2> QED BY <1>3, <1>4 DEF Orders
  <1>6. v = [k \in DOMAIN L |-> entries[L[k]]]
    BY <1>1, KnowledgeListings, Zenon DEF Knowledge!Ranked
  <1>7. /\ L \in [1..n -> D] /\ \A x \in D : \E k \in 1..n : L[k] = x
        /\ \A j, k \in 1..n : j < k => <<L[j], L[k]>> \in R
    <2> HIDE DEF R, D
    <2> QED BY <1>2, <1>5, Listing
  <1> HIDE DEF L, v, R
  <1>8. /\ v \in Seq(KnowledgeRow) /\ Len(v) = Len(entries)
        /\ \A k \in D : v[k] = entries[L[k]] /\ L[k] \in D
    <2>1. v = [k \in 1..Len(entries) |-> entries[L[k]]]
      BY <1>2, <1>6, <1>7
    <2>2. \A k \in D : L[k] \in D
      BY <1>2, <1>7
    <2>3. \A k \in D : v[k] = entries[L[k]] /\ v[k] \in KnowledgeRow
      <3> TAKE k \in D
      <3>1. v[k] = entries[L[k]]
        BY <2>1
      <3> QED BY <1>1, <2>2, <3>1
    <2>4. v \in [1..Len(entries) -> KnowledgeRow]
      BY <2>1, <2>3
    <2>5. v \in Seq(KnowledgeRow) /\ Len(v) = Len(entries)
      BY <1>1, <2>4
    <2> QED BY <2>2, <2>3, <2>5
  <1>9. ASSUME NEW i \in D, NEW j \in D, i < j
        PROVE  Knowledge!Score(q, v[i]) >= Knowledge!Score(q, v[j])
    <2>1. <<L[i], L[j]>> \in R /\ L[i] \in D /\ L[j] \in D
      BY <1>2, <1>7, <1>9
    <2>2. f[L[i]] >= f[L[j]]
      <3> HIDE DEF f, D
      <3> QED BY <1>3, <1>4, <2>1
    <2> QED BY <1>8, <2>1, <2>2
  <1>10. ASSUME NEW i \in D PROVE \E j \in D : v[j] = entries[i]
    <2>1. PICK k \in 1..n : L[k] = i
      BY <1>7
    <2>2. k \in D
      BY <1>2, <2>1
    <2> QED BY <1>8, <2>1, <2>2
  <1> QED BY <1>1, <1>8, <1>9, <1>10 DEF v

\* Of a sequence with the best first, the first p are looked at, those with at least
\* `least' are left, and of these the first k.
KnowledgeTop(f, v, k, p, least) ==
    LET w == Knowledge!Prefix(v, p)
    IN  Knowledge!Prefix(Taken(w, {i \in DOMAIN w : f[w[i]] >= least}), k)

\* The first p are enough, and the best is first.
KnowledgeSorted(X, f, v, k, p, least) ==
    /\ f \in [X -> Int] /\ v \in Seq(X) /\ k \in Nat /\ p \in Nat /\ least \in Int
    /\ p = k \/ p >= Len(v)
    /\ \A i, j \in 1..Len(v) : i < j => f[v[i]] >= f[v[j]]

\* No better one is missing.
KnowledgeBestOf(X, f, v, k, least, t) ==
    /\ t \in Seq(X) /\ Len(t) \in Nat /\ Len(t) <= k
    /\ \A i, j \in 1..Len(t) : i < j => f[t[i]] >= f[t[j]]
    /\ Len(t) < k => \A n \in 1..Len(v) : f[v[n]] >= least => \E i \in 1..Len(t) : t[i] = v[n]
    /\ \A i \in 1..Len(t), n \in 1..Len(v) :
          f[t[i]] >= f[v[n]] \/ \E j \in 1..Len(t) : t[j] = v[n]

LEMMA KnowledgeCut ==
    ASSUME NEW X, NEW f, NEW v, NEW k, NEW p, NEW least, KnowledgeSorted(X, f, v, k, p, least)
    PROVE  KnowledgeBestOf(X, f, v, k, least, KnowledgeTop(f, v, k, p, least))
  <1>0. /\ f \in [X -> Int] /\ v \in Seq(X) /\ k \in Nat /\ p \in Nat /\ least \in Int
        /\ p = k \/ p >= Len(v)
        /\ \A i, j \in 1..Len(v) : i < j => f[v[i]] >= f[v[j]]
    BY DEF KnowledgeSorted
  <1> DEFINE w == Knowledge!Prefix(v, p)
             P == {i \in 1..Len(w) : f[w[i]] >= least}
             a == Taken(w, P)
             at == Places(P)
             t == Knowledge!Prefix(a, k)
  <1>1. /\ w \in Seq(X) /\ Len(w) = IF p < Len(v) THEN p ELSE Len(v)
        /\ Len(w) \in Nat /\ Len(v) \in Nat
        /\ \A i \in 1..Len(w) : i \in 1..Len(v) /\ w[i] = v[i]
    BY <1>0, KnowledgePrefix
  <1> HIDE DEF w
  <1>2. /\ P \in SUBSET (1..Len(w)) /\ DOMAIN w = 1..Len(w)
        /\ \A i \in 1..Len(w) : i \in P <=> f[v[i]] >= least
    BY <1>0, <1>1
  <1>3. /\ a \in Seq(X) /\ Len(a) = Cardinality(P) /\ Len(a) \in Nat
        /\ \A i \in 1..Len(a) : at[i] \in P /\ a[i] = w[at[i]]
        /\ \A n \in P : \E i \in 1..Len(a) : at[i] = n /\ a[i] = w[n]
        /\ \A i, j \in 1..Len(a) : i < j => at[i] < at[j]
    <2> HIDE DEF P
    <2> QED BY <1>0, <1>1, <1>2, Taking
  <1> HIDE DEF P, a, at
  <1>4. /\ t \in Seq(X) /\ Len(t) = IF k < Len(a) THEN k ELSE Len(a)
        /\ Len(t) \in Nat /\ \A i \in 1..Len(t) : i \in 1..Len(a) /\ t[i] = a[i]
    BY <1>0, <1>3, KnowledgePrefix
  <1> HIDE DEF t
  <1>5. \A i \in 1..Len(t) : at[i] \in P /\ at[i] \in 1..Len(v) /\ t[i] = v[at[i]] /\ at[i] \in 1..Len(w)
    BY <1>0, <1>1, <1>2, <1>3, <1>4
  <1>6. \A i \in 1..Len(v) : f[v[i]] \in Int
    BY <1>0
  <1>7. Len(t) <= k
    BY <1>0, <1>3, <1>4
  <1>8. \A i, j \in 1..Len(t) : i < j => f[t[i]] >= f[t[j]]
    BY <1>0, <1>3, <1>4, <1>5
  <1>9. ASSUME Len(t) < k, NEW n \in 1..Len(v), f[v[n]] >= least
        PROVE  \E i \in 1..Len(t) : t[i] = v[n]
    <2>1. Len(t) = Len(a) /\ Len(a) < k
      BY <1>0, <1>3, <1>4, <1>9
    <2>2. CASE n \in 1..Len(w)
      <3>1. n \in P
        BY <1>0, <1>2, <1>9, <2>2
      <3>2. PICK i \in 1..Len(a) : at[i] = n /\ a[i] = w[n]
        BY <1>0, <1>3, <3>1
      <3> QED BY <1>0, <1>1, <1>4, <2>1, <2>2, <3>2
    <2>3. CASE n \notin 1..Len(w)
      <3>1. Len(w) = k /\ k < n
        BY <1>0, <1>1, <2>3
      <3>2. IsFiniteSet(1..k) /\ Cardinality(1..k) = k
        BY <1>0, FS_Interval, 1 \in Int, k \in Int
      <3>3. PICK j \in 1..k : j \notin P
        <4>1. P \subseteq 1..k /\ (P = 1..k => Cardinality(P) = k) /\ Cardinality(P) < k
          BY <1>0, <1>2, <1>3, <2>1, <3>1, <3>2
        <4>2. P # 1..k
          BY <1>0, <4>1
        <4> QED BY <4>1, <4>2
      <3>4. ~(f[v[j]] >= least) /\ j \in 1..Len(v) /\ j < n
        BY <1>0, <1>1, <1>2, <3>1, <3>3
      <3>5. f[v[j]] >= f[v[n]]
        BY <1>0, <3>4
      <3> QED BY <1>0, <1>6, <1>9, <3>4, <3>5
    <2> QED BY <2>2, <2>3
  <1>10. ASSUME NEW i \in 1..Len(t), NEW n \in 1..Len(v)
         PROVE  f[t[i]] >= f[v[n]] \/ \E j \in 1..Len(t) : t[j] = v[n]
    <2>1. at[i] \in P /\ at[i] \in 1..Len(v) /\ t[i] = v[at[i]] /\ at[i] \in 1..Len(w)
      BY <1>5
    <2>2. CASE at[i] < n
      BY <1>0, <2>1, <2>2
    <2>3. CASE n = at[i]
      BY <2>1, <2>3
    <2>4. CASE n < at[i] /\ f[v[n]] >= least
      <3>1. n \in P
        BY <1>0, <1>1, <1>2, <2>1, <2>4, SMTT(40)
      <3>2. PICK j \in 1..Len(a) : at[j] = n /\ a[j] = w[n]
        BY <1>0, <1>3, <3>1
      <3>3. j < i
        <4>4. i \in 1..Len(a) /\ i \in Nat /\ j \in Nat
          BY <1>0, <1>3, <1>4
        <4>5. at[i] \in Nat /\ n \in Nat
          BY <1>0, <1>1, <2>1
        <4>1. i \in 1..Len(a) /\ i \in Nat /\ j \in Nat /\ at[j] < at[i] /\ at[i] \in Nat /\ at[j] \in Nat
          BY <2>4, <3>2, <4>4, <4>5
        <4>2. CASE j = i
          BY <4>1, <4>2
        <4>3. CASE i < j
          <5>1. at[i] < at[j]
            BY <1>0, <1>3, <3>2, <4>1, <4>3
          <5> QED BY <4>1, <5>1
        <4> QED BY <4>1, <4>2, <4>3
      <3>4. j \in 1..Len(t) /\ n \in 1..Len(w)
        BY <1>0, <1>1, <1>2, <1>4, <3>1, <3>3
      <3> QED BY <1>0, <1>1, <1>4, <3>2, <3>4
    <2>5. CASE n < at[i] /\ ~(f[v[n]] >= least)
      <3>1. f[v[at[i]]] >= least
        BY <1>0, <1>2, <2>1
      <3> QED BY <1>0, <1>6, <2>1, <2>5, <3>1
    <2>6. at[i] \in Nat /\ n \in Nat
      BY <1>0, <1>1, <2>1
    <2> QED BY <2>2, <2>3, <2>4, <2>5, <2>6
  <1>11. t = KnowledgeTop(f, v, k, p, least)
    BY <1>2, Zenon DEF KnowledgeTop, t, a, P, w
  <1> QED BY <1>4, <1>7, <1>8, <1>9, <1>10, <1>11 DEF KnowledgeBestOf

\* The parts of an answer of a vector store, the records above a threshold.
LEMMA KnowledgeScanned ==
    ASSUME KnowledgeParameters, KnowledgeInv, NEW q \in Words \ {Knowledge!NoText}, NEW k \in Nat,
           NEW least \in Int, NEW p \in Nat, p = k \/ p >= Len(entries)
    PROVE  LET t == Knowledge!Prefix(Knowledge!Above(Knowledge!Prefix(Knowledge!Ranked(q, DOMAIN entries), p), q, least), k)
           IN  /\ t \in Seq(KnowledgeRow) /\ Len(t) <= k
               /\ Len(t) < k => \A row \in Knowledge!Range(entries) :
                                    Knowledge!Score(q, row) >= least => row \in Knowledge!Range(t)
               /\ \A i, j \in DOMAIN t : i < j => Knowledge!Score(q, t[i]) >= Knowledge!Score(q, t[j])
               /\ \A i \in DOMAIN t, row \in Knowledge!Range(entries) \ Knowledge!Range(t) :
                     Knowledge!Score(q, t[i]) >= Knowledge!Score(q, row)
  <1> DEFINE f == [row \in KnowledgeRow |-> Knowledge!Score(q, row)]
             v == Knowledge!Ranked(q, DOMAIN entries)
             w == Knowledge!Prefix(v, p)
             t == Knowledge!Prefix(Taken(w, {i \in DOMAIN w : f[w[i]] >= least}), k)
  <1>1. /\ v \in Seq(KnowledgeRow) /\ Len(v) = Len(entries) /\ Len(v) \in Nat
        /\ \A i, j \in 1..Len(v) : i < j => Knowledge!Score(q, v[i]) >= Knowledge!Score(q, v[j])
        /\ \A i \in 1..Len(entries) : \E j \in 1..Len(v) : v[j] = entries[i]
    BY KnowledgeRanked
  <1>2. f \in [KnowledgeRow -> Int] /\ \A row \in KnowledgeRow : f[row] = Knowledge!Score(q, row)
    BY DEF KnowledgeParameters, KnowledgeRow, Knowledge!Score
  <1> HIDE DEF f, v
  <1>3. \A i \in 1..Len(v) : v[i] \in KnowledgeRow
    BY <1>1
  <1>4. \A i, j \in 1..Len(v) : i < j => f[v[i]] >= f[v[j]]
    BY <1>1, <1>2, <1>3
  <1>5. /\ t \in Seq(KnowledgeRow) /\ Len(t) \in Nat /\ Len(t) <= k
        /\ \A i, j \in 1..Len(t) : i < j => f[t[i]] >= f[t[j]]
        /\ Len(t) < k => \A n \in 1..Len(v) : f[v[n]] >= least => \E i \in 1..Len(t) : t[i] = v[n]
        /\ \A i \in 1..Len(t), n \in 1..Len(v) :
              f[t[i]] >= f[v[n]] \/ \E j \in 1..Len(t) : t[j] = v[n]
    <2>1. KnowledgeSorted(KnowledgeRow, f, v, k, p, least)
      BY <1>1, <1>2, <1>4 DEF KnowledgeSorted
    <2>2. t = KnowledgeTop(f, v, k, p, least)
      BY Zenon DEF KnowledgeTop
    <2> HIDE DEF t
    <2>3. KnowledgeBestOf(KnowledgeRow, f, v, k, least, KnowledgeTop(f, v, k, p, least))
      BY <2>1, KnowledgeCut
    <2>4. KnowledgeBestOf(KnowledgeRow, f, v, k, least, t)
      BY <2>2, <2>3
    <2> QED BY <2>4, Zenon DEF KnowledgeBestOf
  <1>6. w \in Seq(KnowledgeRow) /\ \A i \in DOMAIN w : w[i] \in KnowledgeRow
    BY <1>1, KnowledgePrefix
  <1>7. Knowledge!Above(w, q, least) = Taken(w, {i \in DOMAIN w : f[w[i]] >= least})
    <2> HIDE DEF w
    <2>1. {i \in DOMAIN w : f[w[i]] >= least} = {i \in DOMAIN w : Knowledge!Score(q, w[i]) >= least}
      BY <1>2, <1>6
    <2>2. Knowledge!Above(w, q, least) = Taken(w, {i \in DOMAIN w : Knowledge!Score(q, w[i]) >= least})
      BY KnowledgeListings, Zenon DEF Knowledge!Above
    <2> QED BY <2>1, <2>2
  <1>8. t = Knowledge!Prefix(Knowledge!Above(Knowledge!Prefix(Knowledge!Ranked(q, DOMAIN entries), p), q, least), k)
    BY <1>7 DEF v
  <1>9. DOMAIN t = 1..Len(t) /\ \A i \in DOMAIN t : t[i] \in KnowledgeRow /\ f[t[i]] = Knowledge!Score(q, t[i])
    <2> HIDE DEF t
    <2> QED BY <1>2, <1>5
  <1>10. ASSUME NEW row \in Knowledge!Range(entries)
         PROVE  \E n \in 1..Len(v) : row = v[n] /\ f[v[n]] = Knowledge!Score(q, row)
    <2>1. PICK i \in 1..Len(entries) : row = entries[i]
      BY KnowledgeListings DEF KnowledgeInv
    <2>2. PICK j \in 1..Len(v) : v[j] = entries[i]
      BY <1>1
    <2> QED BY <1>2, <1>3, <2>1, <2>2
  <1>11. Knowledge!Range(t) = {t[i] : i \in DOMAIN t}
    BY KnowledgeListings
  <1> HIDE DEF t, w
  <1>12. ASSUME Len(t) < k, NEW row \in Knowledge!Range(entries), Knowledge!Score(q, row) >= least
         PROVE  row \in Knowledge!Range(t)
    BY <1>5, <1>9, <1>10, <1>11, <1>12
  <1>13. \A i, j \in DOMAIN t : i < j => Knowledge!Score(q, t[i]) >= Knowledge!Score(q, t[j])
    BY <1>5, <1>9
  <1>14. ASSUME NEW i \in DOMAIN t, NEW row \in Knowledge!Range(entries) \ Knowledge!Range(t)
         PROVE  Knowledge!Score(q, t[i]) >= Knowledge!Score(q, row)
    <2>1. PICK n \in 1..Len(v) : row = v[n] /\ f[v[n]] = Knowledge!Score(q, row)
      BY <1>10
    <2>2. ~\E j \in 1..Len(t) : t[j] = v[n]
      BY <1>9, <1>11, <1>14, <2>1
    <2>3. i \in 1..Len(t) /\ f[t[i]] = Knowledge!Score(q, t[i])
      BY <1>9
    <2>4. f[t[i]] >= f[v[n]]
      BY <1>5, <2>2, <2>3
    <2> QED BY <2>1, <2>3, <2>4
  <1> QED BY <1>5, <1>8, <1>12, <1>13, <1>14

\* The answer of a store without vectors: the first k of the records that have the text.
LEMMA KnowledgeFound ==
    ASSUME KnowledgeInv, NEW q \in Words, NEW k \in Nat
    PROVE  LET t == Knowledge!RawAnswer(q, k)
           IN  /\ t \in Seq(KnowledgeRow) /\ Len(t) <= k
               /\ Len(t) < k => \A row \in Knowledge!Range(entries) :
                                    Knowledge!Inside(q, row.content, Knowledge!Exactly) => row \in Knowledge!Range(t)
  <1> DEFINE P == {i \in DOMAIN entries : Knowledge!Matches(q, entries[i])}
             a == Taken(entries, P)
             t == Knowledge!RawAnswer(q, k)
  <1>1. entries \in Seq(KnowledgeRow) /\ DOMAIN entries = 1..Len(entries) /\ Len(entries) \in Nat
    BY DEF KnowledgeInv
  <1>2. t = Knowledge!Prefix(a, k)
    BY KnowledgeListings, Zenon DEF Knowledge!RawAnswer
  <1>3. /\ P \in SUBSET (1..Len(entries))
        /\ \A i \in 1..Len(entries) : i \in P <=> Knowledge!Matches(q, entries[i])
    BY <1>1
  <1> HIDE DEF P
  <1>4. /\ a \in Seq(KnowledgeRow) /\ Len(a) \in Nat
        /\ \A n \in P : \E i \in 1..Len(a) : a[i] = entries[n]
    BY <1>1, <1>3, Taking
  <1> HIDE DEF a
  <1>5. /\ Knowledge!Prefix(a, k) \in Seq(KnowledgeRow)
        /\ Len(Knowledge!Prefix(a, k)) = IF k < Len(a) THEN k ELSE Len(a)
        /\ \A i \in 1..Len(Knowledge!Prefix(a, k)) : Knowledge!Prefix(a, k)[i] = a[i]
    BY <1>4, KnowledgePrefix
  <1> HIDE DEF t
  <1>6. ASSUME Len(t) < k, NEW row \in Knowledge!Range(entries),
               Knowledge!Inside(q, row.content, Knowledge!Exactly)
        PROVE  row \in Knowledge!Range(t)
    <2>1. PICK n \in 1..Len(entries) : row = entries[n]
      BY <1>1, KnowledgeListings
    <2>2. Knowledge!Matches(q, entries[n])
      BY <1>6, <2>1 DEF Knowledge!Matches, Knowledge!Inside, Knowledge!HasAt, Knowledge!Exactly, Knowledge!Like
    <2>3. PICK i \in 1..Len(a) : a[i] = entries[n]
      BY <1>3, <1>4, <2>2
    <2>4. Len(t) = Len(a)
      BY <1>2, <1>4, <1>5, <1>6
    <2>5. t[i] = row /\ i \in DOMAIN t
      BY <1>2, <1>5, <2>1, <2>3, <2>4
    <2> QED BY <2>5, KnowledgeListings
  <1>7. t \in Seq(KnowledgeRow) /\ Len(t) <= k
    BY <1>2, <1>4, <1>5
  <1> QED BY <1>6, <1>7 DEF t

\* Where the fields are kept as they are, so is the message.
LEMMA KnowledgeRestored ==
    ASSUME NEW row \in KnowledgeRow, KnowledgeTrue(row), bank.kind # "vector chroma"
    PROVE  Knowledge!Restored(row) = row.message
  <1>1. row.fields = [text |-> "kept", form |-> row.message.form, rich |-> TRUE]
    BY Zenon DEF KnowledgeTrue, Knowledge!Fields
  <1>2. row.fields.text = "kept" /\ row.fields.rich = TRUE /\ row.fields.form = row.message.form
    <2> DEFINE g == [text |-> "kept", form |-> row.message.form, rich |-> TRUE]
    <2>1. g.text = "kept"
      OBVIOUS
    <2>2. g.rich = TRUE
      OBVIOUS
    <2>3. g.form = row.message.form
      OBVIOUS
    <2> HIDE DEF g
    <2>4. row.fields = g
      BY <1>1 DEF g
    <2> QED BY <2>1, <2>2, <2>3, <2>4, Zenon
  <1>3. Knowledge!Restored(row) = [text |-> row.message.text, form |-> row.message.form]
    BY <1>2, Zenon DEF Knowledge!Restored, Knowledge!AsMessage
  <1>4. row.message \in KnowledgeMessage
    BY DEF KnowledgeRow
  <1>5. row.message = [text |-> row.message.text, form |-> row.message.form]
    BY <1>4 DEF KnowledgeMessage
  <1> QED BY <1>3, <1>5

\* What the invariant says, query by query and record by record.
LEMMA KnowledgeHolds ==
    ASSUME KnowledgeParameters, KnowledgeInv
    PROVE  Knowledge!TypeOK /\ Knowledge!AnswersBest /\ Knowledge!ReadBack
  <1>1. entries \in Seq(KnowledgeRow) /\ DOMAIN entries = 1..Len(entries) /\ Len(entries) \in Nat
    BY DEF KnowledgeInv
  <1>2. Knowledge!TypeOK
    <2>1. \A i \in DOMAIN entries : entries[i] \in KnowledgeRow
      BY <1>1
    <2>2. \A i \in DOMAIN entries : /\ entries[i].message \in [text : Words, form : Knowledge!Forms]
                                    /\ entries[i].model \in Models \union {0}
      BY <2>1 DEF KnowledgeRow, KnowledgeMessage
    <2>3. /\ bank \in [kind : Knowledge!Raw \union Knowledge!Vector, front : Fronts]
          /\ Len(entries) <= MaxRows /\ embedder \in Models
      BY DEF KnowledgeInv, KnowledgeParameters
    <2> QED BY <2>2, <2>3 DEF Knowledge!TypeOK
  <1>6. \A i \in DOMAIN entries : entries[i] \in KnowledgeRow
    BY <1>1
  <1>7. \A i \in DOMAIN entries : KnowledgeTrue(entries[i])
    BY <1>1, Zenon DEF KnowledgeInv
  <1>3. Knowledge!ReadBack
    BY <1>6, <1>7, KnowledgeRestored, Zenon DEF Knowledge!ReadBack
  <1>4. ASSUME ~Knowledge!Fails, NEW q \in Words \ {Knowledge!NoText}, NEW k \in 1..MaxTop,
               NEW least \in Knowledge!Least
        PROVE  LET answer == Knowledge!Answer(q, k, least)
               IN /\ Len(answer) <= k
                  /\ Len(Knowledge!KnowledgeGet(q, k).messages) = Len(Knowledge!Answer(q, k, 0))
                  /\ Len(answer) < k => \A row \in Knowledge!Range(entries) :
                        Knowledge!Fits(q, least, row) => row \in Knowledge!Range(answer)
                  /\ bank.kind \in Knowledge!Vector => Knowledge!BestFirst(q, answer)
    <2>1. k \in Nat /\ least \in Int /\ q \in Words /\ least \in {0, 2}
      BY DEF KnowledgeParameters, Knowledge!Least
    <2>2. ASSUME NEW l \in {0, 2}, bank.kind \in Knowledge!Vector
          PROVE  \E p \in Nat : /\ p = k \/ p >= Len(entries)
                    /\ Knowledge!Answer(q, k, l) =
                          Knowledge!Prefix(Knowledge!Above(
                             Knowledge!Prefix(Knowledge!Ranked(q, DOMAIN entries), p), q, l), k)
      <3>1. bank.kind \notin Knowledge!Raw
        BY <2>2 DEF Knowledge!Raw, Knowledge!Vector
      <3>2. CASE bank.kind = "vector chroma"
        <4> DEFINE p == Knowledge!Pool(k, l)
        <4>1. p \in Nat /\ (p = k \/ p >= Len(entries))
          BY <1>1, <2>1 DEF Knowledge!Pool
        <4>2. Knowledge!Answer(q, k, l) = Knowledge!ChromaAnswer(q, k, l)
          BY <3>1, <3>2 DEF Knowledge!Answer
        <4> QED BY <4>1, <4>2 DEF Knowledge!ChromaAnswer
      <3>3. CASE bank.kind # "vector chroma"
        <4> DEFINE v == Knowledge!Ranked(q, DOMAIN entries)
        <4>1. Knowledge!Answer(q, k, l) = Knowledge!ScanAnswer(q, k, l)
          BY <3>1, <3>3 DEF Knowledge!Answer
        <4>2. v \in Seq(KnowledgeRow) /\ Len(v) = Len(entries)
          BY KnowledgeRanked
        <4> HIDE DEF v
        <4>3. Knowledge!Prefix(v, Len(entries)) = v
          <5>1. SubSeq(v, 1, Len(v)) = v
            BY <4>2
          <5> QED BY <1>1, <4>2, <5>1 DEF Knowledge!Prefix
        <4>4. Knowledge!ScanAnswer(q, k, l) = Knowledge!Prefix(Knowledge!Above(v, q, l), k)
          BY DEF Knowledge!ScanAnswer, v
        <4> QED BY <1>1, <4>1, <4>3, <4>4 DEF v
      <3> QED BY <3>2, <3>3
    <2>3. ASSUME NEW l \in {0, 2}
          PROVE  LET t == Knowledge!Answer(q, k, l)
                 IN  /\ t \in Seq(KnowledgeRow) /\ Len(t) <= k
                     /\ bank.kind \in Knowledge!Vector =>
                          /\ Len(t) < k => \A row \in Knowledge!Range(entries) :
                                              Knowledge!Score(q, row) >= l => row \in Knowledge!Range(t)
                          /\ \A i, j \in DOMAIN t : i < j => Knowledge!Score(q, t[i]) >= Knowledge!Score(q, t[j])
                          /\ \A i \in DOMAIN t, row \in Knowledge!Range(entries) \ Knowledge!Range(t) :
                                Knowledge!Score(q, t[i]) >= Knowledge!Score(q, row)
                     /\ bank.kind \in Knowledge!Raw /\ Len(t) < k =>
                          \A row \in Knowledge!Range(entries) :
                             Knowledge!Inside(q, row.content, Knowledge!Exactly) => row \in Knowledge!Range(t)
      <3>1. CASE bank.kind \in Knowledge!Vector
        <4>1. PICK p \in Nat : /\ p = k \/ p >= Len(entries)
                    /\ Knowledge!Answer(q, k, l) =
                          Knowledge!Prefix(Knowledge!Above(
                             Knowledge!Prefix(Knowledge!Ranked(q, DOMAIN entries), p), q, l), k)
          BY <2>2, <3>1
        <4>2. bank.kind \notin Knowledge!Raw
          BY <3>1 DEF Knowledge!Raw, Knowledge!Vector
        <4>3. l \in Int
          OBVIOUS
        <4> QED BY <2>1, <4>1, <4>2, <4>3, KnowledgeScanned, Zenon
      <3>2. CASE bank.kind \in Knowledge!Raw
        <4>1. bank.kind \notin Knowledge!Vector
          BY <3>2 DEF Knowledge!Raw, Knowledge!Vector
        <4>2. Knowledge!Answer(q, k, l) = Knowledge!RawAnswer(q, k)
          BY <3>2 DEF Knowledge!Answer, Knowledge!Raw
        <4> QED BY <2>1, <4>1, <4>2, KnowledgeFound, Zenon
      <3>3. bank.kind \in Knowledge!Raw \union Knowledge!Vector
        BY DEF KnowledgeInv, KnowledgeParameters
      <3> QED BY <3>1, <3>2, <3>3
    <2>4. Len(Knowledge!KnowledgeGet(q, k).messages) = Len(Knowledge!Answer(q, k, 0))
      <3> DEFINE t == Knowledge!Answer(q, k, 0)
      <3>1. t \in Seq(KnowledgeRow)
        BY <2>3
      <3>2. Knowledge!KnowledgeGet(q, k).messages = [i \in DOMAIN t |-> Knowledge!Shown(t[i])]
        BY <1>4 DEF Knowledge!KnowledgeGet
      <3> HIDE DEF t
      <3>3. Knowledge!KnowledgeGet(q, k).messages = [i \in 1..Len(t) |-> Knowledge!NoText] /\ Len(t) \in Nat
        BY <3>1, <3>2 DEF Knowledge!Shown
      <3> QED BY <3>3 DEF t
    <2>5. least \in {0, 2}
      BY <2>1
    <2>6. bank.kind \in Knowledge!Raw \/ (bank.kind \notin Knowledge!Raw /\ bank.kind \in Knowledge!Vector)
      BY DEF KnowledgeInv, KnowledgeParameters
    <2> QED BY <2>3, <2>4, <2>5, <2>6 DEF Knowledge!Fits, Knowledge!BestFirst
  <1>5. Knowledge!AnswersBest
    BY <1>4, Zenon DEF Knowledge!AnswersBest
  <1> QED BY <1>2, <1>3, <1>5

LEMMA KnowledgeInit == ASSUME KnowledgeParameters, Knowledge!Init PROVE KnowledgeInv
  BY DEF Knowledge!Init, KnowledgeInv, KnowledgeParameters

\* A record that is written is its message's.
LEMMA KnowledgeWritten ==
    ASSUME KnowledgeParameters, KnowledgeInv, NEW t \in Words, NEW f \in Knowledge!Forms,
           Len(entries) < MaxRows, Knowledge!Write(Knowledge!Row(Knowledge!AsMessage(t, f)))
    PROVE  KnowledgeInv'
  <1> DEFINE row == Knowledge!Row(Knowledge!AsMessage(t, f))
  <1>1. row \in KnowledgeRow /\ KnowledgeTrue(row)
    BY DEF Knowledge!Row, Knowledge!AsMessage, Knowledge!Content, Knowledge!Fields, KnowledgeRow, KnowledgeMessage,
       KnowledgeTrue, KnowledgeInv, KnowledgeParameters
  <1> HIDE DEF row
  <1>2. entries' \in {entries, Append(entries, row)} /\ bank' = bank /\ embedder' = embedder
    BY DEF Knowledge!Write, row
  <1>3. CASE entries' = entries
    BY <1>2, <1>3 DEF KnowledgeInv, KnowledgeTrue
  <1>4. CASE entries' = Append(entries, row)
    <2>1. entries' \in Seq(KnowledgeRow) /\ Len(entries') = Len(entries) + 1 /\ Len(entries) \in Nat
      BY <1>1, <1>4 DEF KnowledgeInv
    <2>2. ASSUME NEW i \in 1..Len(entries') PROVE KnowledgeTrue(entries'[i])
      <3>1. CASE i = Len(entries) + 1
        BY <1>1, <1>4, <3>1 DEF KnowledgeInv
      <3>2. CASE i \in 1..Len(entries)
        BY <1>4, <3>2 DEF KnowledgeInv
      <3> QED BY <2>1, <3>1, <3>2
    <2> QED BY <1>2, <2>1, <2>2 DEF KnowledgeInv, KnowledgeTrue, KnowledgeParameters
  <1> QED BY <1>2, <1>3, <1>4

LEMMA KnowledgeStep ==
    ASSUME KnowledgeParameters, KnowledgeInv, [Knowledge!Next]_Knowledge!vars
    PROVE  KnowledgeInv'
  <1>1. CASE Knowledge!AddKnowledge
    <2>1. PICK t \in Words : Knowledge!Write(Knowledge!Row(Knowledge!AsMessage(t, "plain")))
      BY <1>1 DEF Knowledge!AddKnowledge
    <2>2. "plain" \in Knowledge!Forms
      BY DEF Knowledge!Forms
    <2> QED BY <1>1, <2>1, <2>2, KnowledgeWritten DEF Knowledge!AddKnowledge
  <1>2. CASE Knowledge!Persist
    <2>1. PICK t \in Words, f \in Knowledge!Forms : Knowledge!Write(Knowledge!Row(Knowledge!AsMessage(t, f)))
      BY <1>2 DEF Knowledge!Persist
    <2> QED BY <1>2, <2>1, KnowledgeWritten DEF Knowledge!Persist
  <1>3. CASE Knowledge!RemoveOne
    <2>1. PICK i \in DOMAIN entries : entries' = Knowledge!RemoveAt(entries, i)
      BY <1>3 DEF Knowledge!RemoveOne
    <2>2. /\ entries \in Seq(KnowledgeRow) /\ Len(entries) \in Nat /\ i \in 1..Len(entries)
          /\ Len(entries) <= MaxRows
      BY DEF KnowledgeInv
    <2> DEFINE a == SubSeq(entries, 1, i - 1)
               b == SubSeq(entries, i + 1, Len(entries))
    <2>3. /\ a \in Seq(KnowledgeRow) /\ Len(a) = i - 1 /\ \A j \in 1..(i - 1) : a[j] = entries[j]
          /\ b \in Seq(KnowledgeRow) /\ Len(b) = Len(entries) - i
          /\ \A j \in 1..(Len(entries) - i) : b[j] = entries[i + j]
      BY <2>2
    <2>4. entries' = a \o b
      BY <2>1 DEF Knowledge!RemoveAt
    <2> HIDE DEF a, b
    <2>5. /\ entries' \in Seq(KnowledgeRow) /\ Len(entries') = Len(entries) - 1
          /\ \A j \in 1..Len(entries') : \E n \in 1..Len(entries) : entries'[j] = entries[n]
      <3>1. entries' \in Seq(KnowledgeRow) /\ Len(entries') = Len(entries) - 1
        BY <2>2, <2>3, <2>4
      <3>2. ASSUME NEW j \in 1..Len(entries') PROVE \E n \in 1..Len(entries) : entries'[j] = entries[n]
        <4>1. CASE j <= i - 1
          <5>1. entries'[j] = entries[j] /\ j \in 1..Len(entries)
            BY <2>2, <2>3, <2>4, <3>1, <4>1
          <5> QED BY <5>1
        <4>2. CASE j > i - 1
          <5>1. entries'[j] = b[j - (i - 1)] /\ j - (i - 1) \in 1..(Len(entries) - i)
            BY <2>2, <2>3, <2>4, <3>1, <4>2
          <5>2. entries'[j] = entries[i + (j - (i - 1))] /\ i + (j - (i - 1)) \in 1..Len(entries)
            BY <2>2, <2>3, <3>1, <5>1, SMTT(40)
          <5> QED BY <5>2
        <4> QED BY <2>2, <3>1, <4>1, <4>2
      <3> QED BY <3>1, <3>2
    <2>6. bank' = bank /\ embedder' = embedder
      BY <1>3 DEF Knowledge!RemoveOne
    <2>7. Len(entries') <= MaxRows
      BY <2>2, <2>5 DEF KnowledgeParameters
    <2> QED BY <2>5, <2>6, <2>7 DEF KnowledgeInv, KnowledgeTrue
  <1>4. CASE Knowledge!Clear
    BY <1>4 DEF Knowledge!Clear, KnowledgeInv, KnowledgeTrue, KnowledgeParameters
  <1>5. CASE Knowledge!Restart
    BY <1>5 DEF Knowledge!Restart, KnowledgeInv, KnowledgeTrue, KnowledgeParameters
  <1>6. CASE UNCHANGED Knowledge!vars
    BY <1>6 DEF Knowledge!vars, KnowledgeInv, KnowledgeTrue
  <1> QED BY <1>1, <1>2, <1>3, <1>4, <1>5, <1>6 DEF Knowledge!Next

\* For any texts, any table of similarities, any number of records and any of the five
\* stores: a query gets the best of what is stored, and what was persisted is read back as
\* the message it was (IVectorStore.search, IRawDataStore.search, rawdata_ltm.py,
\* vector_ltm.py).
THEOREM AnswersStayBest ==
    ASSUME KnowledgeParameters
    PROVE  Knowledge!Spec => [](Knowledge!TypeOK /\ Knowledge!AnswersBest /\ Knowledge!ReadBack)
  <1>1. Knowledge!Init => KnowledgeInv
    BY KnowledgeInit
  <1>2. KnowledgeInv /\ [Knowledge!Next]_Knowledge!vars => KnowledgeInv'
    BY KnowledgeStep
  <1>3. KnowledgeInv => Knowledge!TypeOK /\ Knowledge!AnswersBest /\ Knowledge!ReadBack
    BY KnowledgeHolds
  <1> QED BY <1>1, <1>2, <1>3, PTL DEF Knowledge!Spec

-----------------------------------------------------------------------------
(* Skills.                                                                   *)

\* Finitely many directories; an id is a name in lower case, so that one name gives one
\* id and an id gives itself; scores are numbers, and no skill is called "none".
LibraryParameters ==
    /\ IsFiniteSet(Dirs)
    /\ \A d, e \in Dirs : d.name = e.name \/ d.id = e.name => d.id = e.id
    /\ \A d \in Dirs : \A q \in DOMAIN d.score : d.score[q] \in Nat
    /\ "none" \notin Disabled
    /\ MaxLoads \in Nat \ {0}

\* A store: one skill of each id, and none that was disabled.
LibraryStore(s) ==
    /\ s \in Seq(Dirs)
    /\ \A i, j \in 1..Len(s) : i < j => s[i].id # s[j].id
    /\ \A i \in 1..Len(s) : s[i].id \notin Disabled

\* The inductive invariant: what was promised since the last call of the model has the
\* mounted skill in it.
LibraryInv ==
    /\ shelf \subseteq Dirs /\ setup \in [mounts : BOOLEAN, prompt : BOOLEAN]
    /\ LibraryStore(skills) /\ loads \in 0..MaxLoads
    /\ catalogue \subseteq Library!Ids \ Disabled /\ promised \subseteq Library!Ids
    /\ IsFiniteSet(promised)
    /\ mounted \in (Library!Ids \union {"none"}) \ Disabled
    /\ setup.mounts /\ promised # {} => mounted \in promised

LEMMA LibraryListings == \A s, P : Library!Taken(s, P) = Taken(s, P)
  <1>1. \A S, R : Library!InOrder(S, R) = InOrder(S, R)
    BY Zenon DEF Library!InOrder, InOrder, Library!Cardinality, Cardinality, Library!IsFiniteSet,
       IsFiniteSet
  <1>2. \A P : Library!Places(P) = Places(P)
    BY <1>1, Zenon DEF Library!Places, Places
  <1> QED BY <1>1, <1>2, Zenon DEF Library!Taken, Taken

LEMMA LibraryRange == ASSUME NEW s \in Seq(Dirs) PROVE Library!Range(s) = {s[i] : i \in 1..Len(s)}
  BY DEF Library!Range

\* Of one id the first is kept.
LEMMA LibraryFirst ==
    ASSUME NEW s \in Seq(Dirs)
    PROVE  LET t == Library!FirstOfId(s)
           IN  /\ t \in Seq(Dirs)
               /\ \A i, j \in 1..Len(t) : i < j => t[i].id # t[j].id
               /\ \A i \in 1..Len(t) : \E j \in 1..Len(s) : t[i] = s[j]
  <1> DEFINE P == {i \in DOMAIN s : \A j \in 1..(i - 1) : s[j].id # s[i].id}
             t == Library!FirstOfId(s)
             at == Places(P)
  <1>1. Library!FirstOfId(s) = Taken(s, P)
    BY LibraryListings, Zenon DEF Library!FirstOfId
  <1>2. P \in SUBSET (1..Len(s)) /\ Len(s) \in Nat
    OBVIOUS
  <1>3. \A i \in P, j \in P : j < i => s[j].id # s[i].id
    BY <1>2
  <1> HIDE DEF P
  <1>4. /\ t \in Seq(Dirs) /\ Len(t) \in Nat
        /\ \A k \in 1..Len(t) : at[k] \in P /\ t[k] = s[at[k]]
        /\ \A j, k \in 1..Len(t) : j < k => at[j] < at[k]
    BY <1>1, <1>2, Taking
  <1> HIDE DEF t, at
  <1>5. \A i, j \in 1..Len(t) : i < j => t[i].id # t[j].id
    BY <1>3, <1>4
  <1>6. \A i \in 1..Len(t) : \E j \in 1..Len(s) : t[i] = s[j]
    BY <1>2, <1>4
  <1> QED BY <1>4, <1>5, <1>6 DEF t

\* What is loaded is a store of what was read.
LEMMA LibraryStored ==
    ASSUME NEW s \in Seq(Dirs)
    PROVE  LibraryStore(Library!Store(s))
  <1> DEFINE P == {i \in DOMAIN s : s[i].id \notin Disabled}
             t == Taken(s, P)
  <1>1. Library!Store(s) = Library!FirstOfId(t)
    BY LibraryListings, Zenon DEF Library!Store
  <1>2. P \in SUBSET (1..Len(s)) /\ \A i \in P : s[i].id \notin Disabled
    OBVIOUS
  <1> HIDE DEF P
  <1>3. t \in Seq(Dirs) /\ \A k \in 1..Len(t) : t[k].id \notin Disabled
    <2> DEFINE at == Places(P)
    <2>1. t \in Seq(Dirs) /\ \A k \in 1..Len(t) : at[k] \in P /\ t[k] = s[at[k]]
      BY <1>2, Taking
    <2> HIDE DEF t, at
    <2> QED BY <1>2, <2>1
  <1> HIDE DEF t
  <1> QED BY <1>1, <1>3, LibraryFirst DEF LibraryStore

\* A loader's skills are read from the disk.
LEMMA LibraryLoaded ==
    ASSUME LibraryParameters, LibraryInv, NEW root, NEW s \in Library!Loaded(root)
    PROVE  s \in Seq(Dirs)
  <1> DEFINE S == {d \in shelf : d.root = root /\ ~d.blank}
  <1>1. IsFiniteSet(S) /\ S \subseteq Dirs
    <2>1. S \subseteq Dirs
      BY DEF LibraryInv
    <2> QED BY <2>1, FS_Subset DEF LibraryParameters
  <1>2. Cardinality(S) \in Nat
    BY <1>1, FS_CardinalityType
  <1>3. s \in [1..Cardinality(S) -> S]
    BY DEF Library!Loaded, Library!Orders, Library!Cardinality, Cardinality, Library!IsFiniteSet, IsFiniteSet
  <1> HIDE DEF S
  <1> QED BY <1>1, <1>2, <1>3

\* Among the skills that answer a query at all there is a best one.
LEMMA LibraryBest ==
    ASSUME LibraryParameters, LibraryInv, NEW q
    PROVE  Library!Selected(q) \subseteq Library!Range(skills)
  <1> DEFINE score(d) == IF q \in DOMAIN d.score THEN d.score[q] ELSE 0
             found == {d \in Library!Range(skills) : score(d) > 0}
             best == {d \in found : \A e \in found : score(e) <= score(d)}
             P == {i \in 1..Len(skills) : score(skills[i]) > 0}
             R == {p \in P \X P : \/ score(skills[p[1]]) < score(skills[p[2]])
                                  \/ score(skills[p[1]]) = score(skills[p[2]]) /\ p[1] < p[2]}
             n == Cardinality(P)
             L == InOrder(P, R)
  <1>1. skills \in Seq(Dirs) /\ Library!Range(skills) = {skills[i] : i \in 1..Len(skills)}
    BY LibraryRange DEF LibraryInv, LibraryStore
  <1>2. Len(skills) \in Nat /\ \A i \in 1..Len(skills) : skills[i] \in Dirs /\ score(skills[i]) \in Nat
    BY <1>1 DEF LibraryParameters
  <1>3. ASSUME found # {} PROVE best # {}
    <2>1. P \subseteq 1..Len(skills) /\ P # {}
      BY <1>1, <1>3
    <2>2. IsFiniteSet(P)
      BY <1>2, <2>1, FS_Interval, FS_Subset, 1 \in Int, Len(skills) \in Int
    <2>3. Orders(R, P)
      <3> DEFINE f == [i \in P |-> score(skills[i])]
      <3>1. \A i \in P : f[i] \in Nat /\ i \in Nat
        BY <1>2, <2>1
      <3>2. \A i, j \in P : <<i, j>> \in R <=> f[i] < f[j] \/ (f[i] = f[j] /\ i < j)
        OBVIOUS
      <3> HIDE DEF f, R, P
      <3> QED BY <3>1, <3>2 DEF Orders
    <2> HIDE DEF P
    <2>4. /\ n \in Nat /\ L \in [1..n -> P]
          /\ \A x \in P : \E k \in 1..n : L[k] = x
          /\ \A j, k \in 1..n : j < k => <<L[j], L[k]>> \in R
      <3> HIDE DEF R
      <3> QED BY <2>2, <2>3, Listing
    <2>9. /\ \A i, j \in P : <<i, j>> \in R => score(skills[i]) <= score(skills[j])
          /\ \A i \in P : score(skills[i]) \in Nat
      <3> HIDE DEF score
      <3> QED BY <1>2, <2>1
    <2> HIDE DEF L, n, R
    <2>5. n \in 1..n /\ L[n] \in P
      <3>1. PICK x \in P : TRUE
        BY <2>1
      <3>2. PICK k \in 1..n : L[k] = x
        BY <2>4, <3>1
      <3>3. n \in 1..n
        BY <2>4, <3>2
      <3> QED BY <2>4, <3>3
    <2>6. \A x \in P : score(skills[x]) <= score(skills[L[n]])
      <3> HIDE DEF score
      <3> TAKE x \in P
      <3>1. PICK k \in 1..n : L[k] = x
        BY <2>4
      <3>2. CASE k = n
        BY <3>1, <3>2, <2>5, <2>9
      <3>3. CASE k < n
        <4>1. <<x, L[n]>> \in R
          BY <3>1, <3>3, <2>4, <2>5
        <4> QED BY <4>1, <2>5, <2>9
      <3>4. k = n \/ k < n
        BY <2>4
      <3> QED BY <3>2, <3>3, <3>4
    <2>7. /\ skills[L[n]] \in found
          /\ \A e \in found : \E x \in P : e = skills[x]
      BY <1>1, <2>1, <2>5 DEF P
    <2> HIDE DEF L, n, score
    <2>8. skills[L[n]] \in best
      BY <2>6, <2>7
    <2> QED BY <2>8
  <1>4. CASE skills = <<>>
    BY <1>4 DEF Library!Selected
  <1>5. CASE skills # <<>> /\ found = {}
    <2>1. Library!Selected(q) = {skills[1]}
      BY <1>5 DEF Library!Selected
    <2>2. 1 \in 1..Len(skills)
      BY <1>1, <1>5
    <2> QED BY <1>1, <2>1, <2>2
  <1>6. CASE skills # <<>> /\ found # {}
    <2>1. Library!Selected(q) = {CHOOSE d \in best : TRUE}
      BY <1>6 DEF Library!Selected
    <2>2. (CHOOSE d \in best : TRUE) \in best
      BY <1>3, <1>6
    <2>3. best \subseteq Library!Range(skills)
      OBVIOUS
    <2> QED BY <2>1, <2>2, <2>3
  <1> QED BY <1>4, <1>5, <1>6

\* What the invariant says: an id or a name of the store is served by its own skill.
LEMMA LibraryHolds ==
    ASSUME LibraryParameters, LibraryInv
    PROVE  Library!TypeOK /\ Library!NamedIsServed
  <1>1. skills \in Seq(Dirs) /\ Library!Range(skills) = {skills[i] : i \in 1..Len(skills)}
    BY LibraryRange DEF LibraryInv, LibraryStore
  <1>2. Library!TypeOK
    BY <1>1 DEF Library!TypeOK, LibraryInv, LibraryParameters
  <1>3. \A d, e \in Library!Range(skills) : d.id = e.id => d = e
    <2> SUFFICES ASSUME NEW i \in 1..Len(skills), NEW j \in 1..Len(skills), skills[i].id = skills[j].id
                 PROVE  skills[i] = skills[j]
      BY <1>1
    <2>1. i < j \/ j < i \/ i = j
      BY <1>1
    <2> QED BY <2>1 DEF LibraryInv, LibraryStore
  <1>4. ASSUME NEW d \in Library!Range(skills)
        PROVE  Library!Resolved(d.id) = {d} /\ Library!Resolved(d.name) = {d}
    <2>1. Library!Range(skills) \subseteq Dirs
      BY <1>1
    <2>2. \A e \in Library!Range(skills) : e.id = d.name \/ e.name = d.name => e = d
      BY <1>3, <2>1 DEF LibraryParameters
    <2>3. {e \in Library!Range(skills) : e.id = d.id} = {d}
      BY <1>3
    <2>4. {e \in Library!Range(skills) : e.name = d.name} = {d}
      BY <2>2
    <2>5. {e \in Library!Range(skills) : e.id = d.name} \in {{}, {d}}
      BY <2>2
    <2> QED BY <2>3, <2>4, <2>5, Zenon DEF Library!Resolved
  <1>5. mounted \notin Disabled /\ catalogue \intersect Disabled = {}
    BY DEF LibraryInv
  <1>6. ASSUME setup.mounts, NEW id \in promised, Library!Cardinality(promised) = 1
        PROVE  mounted = id
    <2>1. mounted \in promised
      BY <1>6 DEF LibraryInv
    <2>2. Cardinality(promised) = 1
      BY <1>6 DEF Library!Cardinality, Cardinality, Library!IsFiniteSet, IsFiniteSet
    <2>3. IsFiniteSet(promised)
      BY DEF LibraryInv
    <2>4. PICK x : promised = {x}
      BY <2>2, <2>3, FS_Singleton
    <2> QED BY <1>6, <2>1, <2>4
  <1> QED BY <1>2, <1>4, <1>5, <1>6 DEF Library!NamedIsServed

LEMMA LibraryInit == ASSUME LibraryParameters, Library!Init PROVE LibraryInv
  BY FS_EmptySet DEF Library!Init, LibraryInv, LibraryParameters, LibraryStore

\* A build or a reload: the workspace's skills before the user's.
LEMMA LibraryReads ==
    ASSUME LibraryParameters, LibraryInv, NEW a \in Library!Loaded(1), NEW b \in Library!Loaded(2)
    PROVE  LET s == Library!Store(Library!FirstOfId(a \o b))
           IN  LibraryStore(s) /\ {d.id : d \in Library!Range(s)} \subseteq Library!Ids \ Disabled
  <1> DEFINE s == Library!Store(Library!FirstOfId(a \o b))
  <1>1. a \in Seq(Dirs) /\ b \in Seq(Dirs)
    BY LibraryLoaded
  <1>2. a \o b \in Seq(Dirs)
    BY <1>1
  <1>3. Library!FirstOfId(a \o b) \in Seq(Dirs)
    BY <1>2, LibraryFirst
  <1>4. LibraryStore(s)
    BY <1>3, LibraryStored
  <1> HIDE DEF s
  <1>5. Library!Range(s) = {s[i] : i \in 1..Len(s)}
    BY <1>4, LibraryRange DEF LibraryStore
  <1>6. {d.id : d \in Library!Range(s)} \subseteq Library!Ids \ Disabled
    BY <1>4, <1>5 DEF LibraryStore, Library!Ids
  <1> QED BY <1>4, <1>6 DEF s

LEMMA LibraryStep == ASSUME LibraryParameters, LibraryInv, [Library!Next]_Library!vars PROVE LibraryInv'
  <1> USE DEF LibraryInv
  <1>1. CASE Library!Edit
    BY <1>1 DEF Library!Edit, LibraryStore, Library!Ids
  <1>2. CASE Library!Build
    <2>1. PICK a \in Library!Loaded(1), b \in Library!Loaded(2) :
             /\ skills' = Library!Store(Library!FirstOfId(a \o b))
             /\ catalogue' = {d.id : d \in Library!Range(Library!Store(Library!FirstOfId(a \o b)))}
      BY <1>2 DEF Library!Build
    <2>2. LibraryStore(skills') /\ catalogue' \subseteq Library!Ids \ Disabled
      BY <2>1, LibraryReads
    <2>3. loads' = 1 /\ UNCHANGED <<shelf, setup, mounted, promised>>
      BY <1>2 DEF Library!Build
    <2> QED BY <2>2, <2>3 DEF LibraryParameters, LibraryStore, Library!Ids
  <1>3. CASE Library!Reload
    <2>1. PICK a \in Library!Loaded(1), b \in Library!Loaded(2) :
             skills' = Library!Store(Library!FirstOfId(a \o b))
      BY <1>3 DEF Library!Reload
    <2>2. LibraryStore(skills')
      BY <2>1, LibraryReads
    <2>3. /\ loads < MaxLoads /\ loads' = loads + 1
          /\ UNCHANGED <<shelf, setup, catalogue, mounted, promised>>
      BY <1>3 DEF Library!Reload
    <2>4. loads' \in 0..MaxLoads
      BY <2>3 DEF LibraryParameters
    <2> QED BY <2>2, <2>3, <2>4 DEF LibraryStore, Library!Ids
  <1>4. CASE Library!CallTool
    <2>0. PICK q : \E d \in Library!Resolved(q) :
             promised' = promised \union {d.id} /\ mounted' = Library!Mounted(d)
      BY <1>4 DEF Library!CallTool
    <2>1. PICK d \in Library!Resolved(q) :
             promised' = promised \union {d.id} /\ mounted' = Library!Mounted(d)
      BY <2>0
    <2>2. d \in Library!Range(skills)
      BY <2>1, LibraryBest DEF Library!Resolved
    <2>3. d.id \in Library!Ids \ Disabled
      BY <2>2, LibraryRange DEF LibraryStore, Library!Ids
    <2>4. UNCHANGED <<shelf, setup, skills, loads, catalogue>>
      BY <1>4 DEF Library!CallTool
    <2>5. mounted' \in (Library!Ids \union {"none"}) \ Disabled /\ (setup.mounts => mounted' \in promised')
      BY <2>1, <2>3 DEF Library!Mounted
    <2>6. IsFiniteSet(promised')
      BY <2>1, FS_AddElement
    <2> QED BY <2>1, <2>3, <2>4, <2>5, <2>6 DEF LibraryStore, Library!Ids
  <1>5. CASE Library!CallModel
    BY <1>5, FS_EmptySet DEF Library!CallModel, LibraryStore, Library!Ids
  <1>6. CASE UNCHANGED Library!vars
    BY <1>6 DEF Library!vars, LibraryStore, Library!Ids
  <1> QED BY <1>1, <1>2, <1>3, <1>4, <1>5, <1>6 DEF Library!Next

\* What the model asks for by an id or a name of the store is what it gets, no disabled
\* skill is loaded or mounted, and the one skill promised is mounted, for any directories,
\* edits, reloads and queries (SkillStore, _resolve_skill, _mount_skill_from_result).
THEOREM NamedStaysServed ==
    ASSUME LibraryParameters
    PROVE  Library!Spec => [](Library!TypeOK /\ Library!NamedIsServed)
  <1>1. Library!Init => LibraryInv
    BY LibraryInit
  <1>2. LibraryInv /\ [Library!Next]_Library!vars => LibraryInv'
    BY LibraryStep
  <1>3. LibraryInv => Library!TypeOK /\ Library!NamedIsServed
    BY LibraryHolds
  <1> QED BY <1>1, <1>2, <1>3, PTL DEF Library!Spec

-----------------------------------------------------------------------------
(* ModelAdapters.                                                            *)

\* At most two calls in an answer.
ChatParameters ==
    /\ Apis \subseteq {"anthropic", "openai", "openrouter", "huawei-modelarts"}
    /\ \A raw \in Answers : raw \in Seq(Chat!RawCall) /\ Len(raw) <= 2
    /\ MaxTalk \in Nat

\* Calls of the message at a place: an id that was given is of this place, and of one call.
ChatCalls(calls, at) ==
    /\ calls \in Seq(Chat!Calls) /\ Len(calls) <= 2
    /\ \A n \in 1..Len(calls) : calls[n].id.is = "given" => calls[n].id.at = at
    /\ \A m, n \in 1..Len(calls) : m < n /\ calls[m].id.is = "given" => calls[m].id # calls[n].id

\* What a result says of its call.
ChatResult(call) ==
    Chat!Tool(IF call.id # Chat!NoId THEN call.id
              ELSE Chat!Other(IF call.name THEN "name" ELSE "blank", 0), call.name)

\* The message at i has the call that the one at j answers: results stand behind their
\* calls, in their order.
ChatAnswered(i, j) ==
    /\ i < j /\ talk[i].role = "assistant"
    /\ \A k \in i + 1..j : talk[k].role = "tool"
    /\ j - i <= Len(talk[i].calls)
    /\ talk[j] = ChatResult(talk[i].calls[j - i])

ChatTalk ==
    /\ talk \in Seq(Chat!Messages) /\ Len(talk) <= MaxTalk
    /\ \A i \in 1..Len(talk) : ChatCalls(talk[i].calls, i)
    /\ \A i \in 1..Len(talk) : \A n \in 1..Len(talk[i].calls) :
          talk[i].calls[n].id.is \in {"none", "given"}
    /\ \A j \in 1..Len(talk) : talk[j].role = "tool" =>
          \E i \in 1..Len(talk) : ChatAnswered(i, j)

\* The calls that have no result yet are the last ones of the last answer.
ChatTodo ==
    /\ todo \in 0..2
    /\ todo > 0 => \E i \in 1..Len(talk) :
          /\ talk[i].role = "assistant"
          /\ \A k \in i + 1..Len(talk) : talk[k].role = "tool"
          /\ Len(talk[i].calls) - todo = Len(talk) - i

\* The inductive invariant.
ChatInv ==
    /\ adapter \in Apis
    /\ ChatTalk /\ ChatTodo
    /\ Len(request) <= MaxTalk /\ request \in Seq(Chat!Messages) /\ Chat!ResultsKeepTheirCalls
    /\ bill \in [by : Apis, report : Chat!Reports, charged : 0..Chat!Tokens,
                 recorded : 0..Chat!Tokens]
    /\ Chat!TokensCharged

LEMMA ChatListings ==
    /\ \A s, P : Chat!Taken(s, P) = Taken(s, P)
    /\ \A s : Chat!Range(s) = {s[i] : i \in DOMAIN s}
    /\ \A S : Chat!Cardinality(S) = Cardinality(S)
  <1>1. \A S, R : Chat!InOrder(S, R) = InOrder(S, R)
    BY Zenon DEF Chat!InOrder, InOrder, Chat!Cardinality, Cardinality, Chat!IsFiniteSet, IsFiniteSet
  <1>2. \A P : Chat!Places(P) = Places(P)
    BY <1>1, Zenon DEF Chat!Places, Places
  <1>3. \A s, P : Chat!Taken(s, P) = Taken(s, P)
    BY <1>1, <1>2, Zenon DEF Chat!Taken, Taken
  <1>4. \A S : Chat!Cardinality(S) = Cardinality(S)
    BY Zenon DEF Chat!Cardinality, Cardinality, Chat!IsFiniteSet, IsFiniteSet
  <1> QED BY <1>3, <1>4 DEF Chat!Range

\* Some of the calls, in their order.
LEMMA ChatSome ==
    ASSUME NEW at, NEW c, ChatCalls(c, at), NEW P \in SUBSET (1..Len(c))
    PROVE  /\ ChatCalls(Taken(c, P), at)
           /\ \A n \in P : \E k \in 1..Len(Taken(c, P)) : Taken(c, P)[k] = c[n]
           /\ \A k \in 1..Len(Taken(c, P)) : \E n \in P : Taken(c, P)[k] = c[n]
  <1> DEFINE t == Taken(c, P)
             q == Places(P)
  <1>0. c \in Seq(Chat!Calls) /\ Len(c) <= 2 /\ Len(c) \in Nat
    BY DEF ChatCalls
  <1>1. /\ t \in Seq(Chat!Calls) /\ Len(t) = Cardinality(P) /\ Len(t) \in Nat
        /\ \A k \in 1..Len(t) : q[k] \in P /\ t[k] = c[q[k]]
        /\ \A i \in P : \E k \in 1..Len(t) : q[k] = i /\ t[k] = c[i]
        /\ \A j, k \in 1..Len(t) : j < k => q[j] < q[k]
    BY <1>0, Taking
  <1>2. Len(t) <= 2
    <2>1. IsFiniteSet(1..Len(c)) /\ Cardinality(1..Len(c)) = Len(c)
      <3>1. \A l \in Nat : IsFiniteSet(1..l) /\ Cardinality(1..l) = l
        BY FS_Interval
      <3> QED BY <1>0, <3>1
    <2>2. Cardinality(P) <= Cardinality(1..Len(c))
      BY <2>1, FS_Subset
    <2> HIDE DEF t
    <2> QED BY <1>0, <1>1, <2>1, <2>2
  <1> HIDE DEF t, q
  <1>3. ASSUME NEW n \in 1..Len(t), t[n].id.is = "given" PROVE t[n].id.at = at
    <2>1. q[n] \in 1..Len(c) /\ t[n] = c[q[n]]
      BY <1>1
    <2> QED BY <1>3, <2>1 DEF ChatCalls
  <1>4. ASSUME NEW m \in 1..Len(t), NEW n \in 1..Len(t), m < n, t[m].id.is = "given"
        PROVE  t[m].id # t[n].id
    <2>1. q[m] < q[n] /\ q[m] \in 1..Len(c) /\ q[n] \in 1..Len(c) /\ t[m] = c[q[m]] /\ t[n] = c[q[n]]
      BY <1>1, <1>4
    <2> QED BY <1>4, <2>1 DEF ChatCalls
  <1>5. ChatCalls(t, at)
    BY <1>1, <1>2, <1>3, <1>4 DEF ChatCalls
  <1> QED BY <1>1, <1>5 DEF t

LEMMA ChatNamed ==
    ASSUME NEW at, NEW c, ChatCalls(c, at)
    PROVE  /\ ChatCalls(Chat!Named(c), at)
           /\ \A n \in 1..Len(c) : c[n].name => \E k \in 1..Len(Chat!Named(c)) : Chat!Named(c)[k] = c[n]
           /\ \A k \in 1..Len(Chat!Named(c)) : \E n \in 1..Len(c) : Chat!Named(c)[k] = c[n]
  <1> DEFINE P == {n \in DOMAIN c : c[n].name}
  <1>1. Chat!Named(c) = Taken(c, P)
    BY ChatListings, Zenon DEF Chat!Named
  <1>2. DOMAIN c = 1..Len(c)
    BY DEF ChatCalls
  <1>3. P \in SUBSET (1..Len(c)) /\ \A n \in 1..Len(c) : c[n].name => n \in P
    BY <1>2
  <1> HIDE DEF P
  <1>4. /\ ChatCalls(Taken(c, P), at)
        /\ \A n \in P : \E k \in 1..Len(Taken(c, P)) : Taken(c, P)[k] = c[n]
        /\ \A k \in 1..Len(Taken(c, P)) : \E n \in P : Taken(c, P)[k] = c[n]
    BY <1>3, ChatSome
  <1> QED BY <1>1, <1>3, <1>4, Zenon

\* The calls of an answer, whichever adapter reads it.
LEMMA ChatReads ==
    ASSUME ChatParameters, NEW a \in Apis, NEW at \in 1..MaxTalk, NEW raw \in Answers
    PROVE  /\ ChatCalls(Chat!Reads(a, at, raw), at)
           /\ \A n \in 1..Len(Chat!Reads(a, at, raw)) : Chat!Reads(a, at, raw)[n].id.is \in {"none", "given"}
  <1> DEFINE calls(b) == [n \in DOMAIN raw |-> Chat!ReadCall(b, at, n, raw[n])]
  <1>1. raw \in Seq(Chat!RawCall) /\ Len(raw) <= 2 /\ Len(raw) \in Nat /\ DOMAIN raw = 1..Len(raw)
    BY DEF ChatParameters
  <1>2. ASSUME NEW b, NEW n \in 1..Len(raw)
        PROVE  /\ Chat!ReadCall(b, at, n, raw[n]) \in Chat!Calls
               /\ Chat!ReadCall(b, at, n, raw[n]).id \in {Chat!NoId, Chat!Given(at, n)}
    <2>1. raw[n] \in Chat!RawCall /\ n \in 1..2
      BY <1>1
    <2>2. Chat!NoId \in Chat!Ids /\ Chat!Given(at, n) \in Chat!Ids
      BY <2>1 DEF Chat!NoId, Chat!Given, Chat!Other, Chat!Ids
    <2>3. Chat!ReadArgs(b, raw[n].args) \in {"object", "raw", "empty"}
      BY DEF Chat!ReadArgs
    <2>4. raw[n].name \in BOOLEAN /\ raw[n].id \in BOOLEAN
      BY <2>1 DEF Chat!RawCall
    <2> HIDE DEF calls
    <2> QED BY <2>2, <2>3, <2>4 DEF Chat!ReadCall, Chat!Calls
  <1>3. ASSUME NEW b
        PROVE  /\ ChatCalls(calls(b), at) /\ Len(calls(b)) = Len(raw)
               /\ \A n \in 1..Len(calls(b)) : calls(b)[n].id.is \in {"none", "given"}
    <2> DEFINE c == calls(b)
    <2>1. c \in [1..Len(raw) -> Chat!Calls]
      BY <1>1, <1>2
    <2>2. \A n \in 1..Len(raw) : c[n].id \in {Chat!NoId, Chat!Given(at, n)}
      BY <1>1, <1>2
    <2> HIDE DEF c
    <2>3. c \in Seq(Chat!Calls) /\ Len(c) = Len(raw)
      BY <1>1, <2>1
    <2>4. \A n \in 1..Len(c) : /\ c[n].id = Chat!NoId => c[n].id.is = "none"
                               /\ c[n].id = Chat!Given(at, n) =>
                                    c[n].id.is = "given" /\ c[n].id.at = at /\ c[n].id.nth = n
      BY DEF Chat!NoId, Chat!Given, Chat!Other
    <2>5. \A n \in 1..Len(c) : /\ c[n].id.is \in {"none", "given"}
                               /\ c[n].id.is = "given" => c[n].id.at = at /\ c[n].id.nth = n
      BY <2>2, <2>3, <2>4
    <2>6. \A m, n \in 1..Len(c) : m < n /\ c[m].id.is = "given" => c[m].id # c[n].id
      <3> SUFFICES ASSUME NEW m \in 1..Len(c), NEW n \in 1..Len(c), m < n, c[m].id.is = "given",
                          c[m].id = c[n].id
                   PROVE  FALSE
        OBVIOUS
      <3>1. c[n].id.nth = n /\ c[m].id.nth = m
        BY <2>5
      <3> QED BY <1>1, <2>3, <3>1
    <2>7. ChatCalls(c, at)
      BY <1>1, <2>3, <2>5, <2>6 DEF ChatCalls
    <2> QED BY <2>3, <2>5, <2>7 DEF c
  <1> HIDE DEF calls
  <1>4. CASE a = "anthropic"
    <2>1. Chat!Reads(a, at, raw) = Chat!Named(calls("anthropic"))
      BY <1>4 DEF Chat!Reads, Chat!AnthropicReads, calls
    <2> QED BY <1>3, <2>1, ChatNamed
  <1>5. CASE a = "openai"
    <2> DEFINE P == {n \in DOMAIN raw : {m \in DOMAIN raw : raw[m].args # "broken"} = {}
                                          \/ n \in {m \in DOMAIN raw : raw[m].args # "broken"}}
               t == Taken(calls("openai"), P)
    <2>1. Chat!Reads(a, at, raw) = Chat!OpenAIReads(at, raw)
      BY <1>5 DEF Chat!Reads
    <2>2. Chat!OpenAIReads(at, raw) = t
      BY ChatListings, Zenon DEF Chat!OpenAIReads, calls
    <2>3. P \in SUBSET (1..Len(calls("openai")))
      <3>1. P \subseteq DOMAIN raw
        OBVIOUS
      <3> HIDE DEF P
      <3> QED BY <1>1, <1>3, <3>1
    <2> HIDE DEF P
    <2>4. /\ ChatCalls(t, at)
          /\ \A k \in 1..Len(t) : \E n \in P : t[k] = calls("openai")[n]
      BY <1>3, <2>3, ChatSome
    <2> QED BY <1>3, <2>1, <2>2, <2>3, <2>4
  <1>6. CASE a \in {"openrouter", "huawei-modelarts"}
    <2>1. Chat!Reads(a, at, raw) = calls(a)
      BY <1>6 DEF Chat!Reads, Chat!OpenRouterReads, Chat!HuaweiReads, calls
    <2> QED BY <1>3, <2>1
  <1> QED BY <1>4, <1>5, <1>6 DEF ChatParameters

\* What a message becomes in a request: its calls keep their ids, those that have a name
\* are there, and a result keeps the id it is of.
ChatSent(w, m, at) ==
    /\ w \in Chat!Messages /\ w.role = m.role /\ w.name = m.name
    /\ w.of.is = "given" => w.of = m.of
    /\ ChatCalls(w.calls, at)
    /\ \A n \in 1..Len(m.calls) : m.calls[n].name /\ m.calls[n].id.is = "given" =>
          \E k \in 1..Len(w.calls) : w.calls[k].id = m.calls[n].id

LEMMA ChatWrites ==
    ASSUME ChatParameters, NEW a \in Apis, NEW at, NEW m \in Chat!Messages, ChatCalls(m.calls, at)
    PROVE  ChatSent(Chat!Writes(a, m), m, at)
  <1> DEFINE c == m.calls
             sent(calls) == /\ ChatCalls(calls, at)
                            /\ \A n \in 1..Len(c) : c[n].name /\ c[n].id.is = "given" =>
                                  \E k \in 1..Len(calls) : calls[k].id = c[n].id
  <1>1. m = [role |-> m.role, calls |-> m.calls, of |-> m.of, name |-> m.name, image |-> m.image]
        /\ m.role \in {"user", "assistant", "tool"} /\ m.of \in Chat!Ids /\ m.name \in BOOLEAN
        /\ m.image \in Chat!Images
    BY DEF Chat!Messages
  <1>2. Chat!NoId \in Chat!Ids /\ Chat!Other("tool_call", 0) \in Chat!Ids
        /\ Chat!NoId.is = "none" /\ Chat!Other("tool_call", 0).is = "tool_call"
    BY DEF Chat!NoId, Chat!Other, Chat!Ids
  <1>3. c \in Seq(Chat!Calls) /\ Len(c) <= 2 /\ Len(c) \in Nat /\ DOMAIN c = 1..Len(c)
    BY DEF ChatCalls
  <1>4. sent(c)
    OBVIOUS
  <1>5. sent(Chat!Named(c))
    <2>1. ChatCalls(c, at)
      OBVIOUS
    <2>2. /\ ChatCalls(Chat!Named(c), at)
          /\ \A n \in 1..Len(c) : c[n].name => \E k \in 1..Len(Chat!Named(c)) : Chat!Named(c)[k] = c[n]
      BY <2>1, ChatNamed, ZenonT(80)
    <2> DEFINE t == Chat!Named(c)
    <2> HIDE DEF c, t
    <2>3. ASSUME NEW n \in 1..Len(c), c[n].name PROVE \E k \in 1..Len(t) : t[k].id = c[n].id
      <3>1. PICK k \in 1..Len(t) : t[k] = c[n]
        BY <2>2, <2>3 DEF t
      <3> QED BY <3>1
    <2> QED BY <2>2, <2>3 DEF t
  <1>6. sent(Chat!AnthropicCalls(c))
    <2> DEFINE d == [n \in DOMAIN c |->
                       Chat!WriteCall(c[n], IF c[n].id = Chat!NoId THEN Chat!Other("toolu", n) ELSE c[n].id)]
    <2>1. ASSUME NEW n \in 1..Len(c)
          PROVE  /\ d[n] \in Chat!Calls /\ d[n].name = c[n].name
                 /\ c[n].id.is = "given" => d[n].id = c[n].id
                 /\ d[n].id.is = "given" => d[n].id = c[n].id
      <3>1. d[n] = [c[n] EXCEPT !.id = IF c[n].id = Chat!NoId THEN Chat!Other("toolu", n) ELSE c[n].id]
        BY <1>3 DEF Chat!WriteCall
      <3>2. c[n] \in Chat!Calls /\ n \in 0..2
        BY <1>3
      <3>3. Chat!Other("toolu", n) \in Chat!Ids /\ Chat!Other("toolu", n).is = "toolu"
        BY <3>2 DEF Chat!Other, Chat!Ids
      <3> HIDE DEF d, c
      <3> QED BY <1>2, <3>1, <3>2, <3>3 DEF Chat!Calls
    <2>2. d \in [1..Len(c) -> Chat!Calls]
      BY <1>3, <2>1
    <2>3. Chat!AnthropicCalls(c) = Chat!Named(d)
      BY DEF Chat!AnthropicCalls
    <2> HIDE DEF d
    <2>4. d \in Seq(Chat!Calls) /\ Len(d) = Len(c)
      BY <1>3, <2>2
    <2>5. ChatCalls(d, at)
      BY <1>3, <2>1, <2>4 DEF ChatCalls
    <2>6. /\ ChatCalls(Chat!Named(d), at)
          /\ \A n \in 1..Len(d) : d[n].name => \E k \in 1..Len(Chat!Named(d)) : Chat!Named(d)[k] = d[n]
      BY <2>5, ChatNamed
    <2> HIDE DEF c
    <2> QED BY <2>1, <2>3, <2>4, <2>6
  <1>7. ASSUME NEW calls, sent(calls), NEW of, of \in {m.of, Chat!NoId, Chat!Other("tool_call", 0)},
               Chat!Writes(a, m) = [m EXCEPT !.calls = calls, !.of = of]
        PROVE  ChatSent(Chat!Writes(a, m), m, at)
    <2> DEFINE w == Chat!Writes(a, m)
    <2>1. w = [role |-> m.role, calls |-> calls, of |-> of, name |-> m.name, image |-> m.image]
      BY <1>1, <1>7
    <2>2. calls \in Seq(Chat!Calls)
      BY <1>7 DEF ChatCalls
    <2>3. of \in Chat!Ids /\ (of.is = "given" => of = m.of)
      BY <1>1, <1>2, <1>7
    <2> HIDE DEF w, sent
    <2>4. w \in Chat!Messages
      BY <1>1, <2>1, <2>2, <2>3 DEF Chat!Messages
    <2>5. w.role = m.role /\ w.name = m.name /\ w.of = of /\ w.calls = calls
      BY <2>1
    <2> QED BY <1>7, <2>3, <2>4, <2>5 DEF w, ChatSent, sent
  <1>8. CASE a = "anthropic"
    <2>1. Chat!Writes(a, m) = [m EXCEPT !.calls = Chat!AnthropicCalls(m.calls),
              !.of = IF m.of.is = "blank" THEN Chat!Other("tool_call", 0) ELSE m.of]
      BY <1>8 DEF Chat!Writes, Chat!AnthropicWrites
    <2> QED BY <1>6, <1>7, <2>1
  <1>9. CASE a = "openai"
    <2>1. Chat!Writes(a, m) = [m EXCEPT !.calls = m.calls,
              !.of = IF m.of.is = "blank" THEN Chat!Other("tool_call", 0) ELSE m.of]
      BY <1>9 DEF Chat!Writes, Chat!OpenAIWrites, Chat!OpenAICalls
    <2> QED BY <1>4, <1>7, <2>1
  <1>10. CASE a = "openrouter"
    <2>1. Chat!Writes(a, m) = [m EXCEPT !.calls = Chat!Named(m.calls),
              !.of = IF m.of.is = "blank" THEN Chat!NoId ELSE m.of]
      BY <1>10 DEF Chat!Writes, Chat!OpenRouterWrites, Chat!OpenRouterCalls
    <2> QED BY <1>5, <1>7, <2>1
  <1>11. CASE a = "huawei-modelarts"
    <2>1. Chat!Writes(a, m) = [m EXCEPT !.calls = Chat!Named(m.calls),
              !.of = IF m.of.is = "blank" THEN Chat!NoId ELSE m.of]
      BY <1>11 DEF Chat!Writes, Chat!HuaweiWrites, Chat!HuaweiCalls
    <2> QED BY <1>5, <1>7, <2>1
  <1> QED BY <1>8, <1>9, <1>10, <1>11 DEF ChatParameters

\* The next request has for every result its call, and no other one.
LEMMA ChatRequested ==
    ASSUME ChatParameters, ChatTalk, NEW a \in Apis, NEW req,
           req = [k \in DOMAIN talk |-> Chat!Writes(a, talk[k])]
    PROVE  /\ req \in Seq(Chat!Messages) /\ Len(req) = Len(talk)
           /\ \A j \in DOMAIN req :
                 req[j].role = "tool" /\ req[j].of.is = "given" /\ req[j].name =>
                    /\ Chat!Cardinality(Chat!CallsFor(req, j)) = 1
                    /\ \A k \in DOMAIN req :
                          k # j /\ req[k].role = "tool" => req[k].of # req[j].of
  <1>1. talk \in Seq(Chat!Messages) /\ Len(talk) \in Nat /\ DOMAIN talk = 1..Len(talk)
        /\ \A k \in 1..Len(talk) : talk[k] \in Chat!Messages /\ ChatCalls(talk[k].calls, k)
    BY DEF ChatTalk
  <1>2. \A k \in 1..Len(talk) : ChatSent(req[k], talk[k], k)
    <2> TAKE k \in 1..Len(talk)
    <2>1. req[k] = Chat!Writes(a, talk[k])
      BY <1>1
    <2>2. talk[k] \in Chat!Messages /\ ChatCalls(talk[k].calls, k)
      BY <1>1
    <2> QED BY <2>1, <2>2, ChatWrites
  <1>7. \A k \in 1..Len(talk) :
           /\ req[k] \in Chat!Messages /\ req[k].role = talk[k].role /\ req[k].name = talk[k].name
           /\ req[k].of.is = "given" => req[k].of = talk[k].of
           /\ ChatCalls(req[k].calls, k)
    BY <1>2 DEF ChatSent
  <1>3. req \in Seq(Chat!Messages) /\ Len(req) = Len(talk) /\ DOMAIN req = 1..Len(talk)
    <2>1. req \in [1..Len(talk) -> Chat!Messages]
      BY <1>1, <1>7
    <2> QED BY <1>1, <2>1
  \* A result whose id was given answers the call with that id.
  <1>4. ASSUME NEW j \in 1..Len(talk), req[j].role = "tool", req[j].of.is = "given"
        PROVE  \E i \in 1..Len(talk) :
                  /\ ChatAnswered(i, j) /\ j - i \in 1..Len(talk[i].calls)
                  /\ talk[i].calls[j - i].id = req[j].of /\ req[j].of.at = i
                  /\ talk[i].calls[j - i].name = req[j].name
    <2>1. talk[j].role = "tool" /\ talk[j].of = req[j].of /\ req[j].name = talk[j].name
      BY <1>7, <1>4
    <2>2. PICK i \in 1..Len(talk) : ChatAnswered(i, j)
      BY <2>1 DEF ChatTalk
    <2> DEFINE n == j - i
               call == talk[i].calls[n]
    <2>3. n \in 1..Len(talk[i].calls) /\ talk[j] = ChatResult(call)
      <3>1. ChatCalls(talk[i].calls, i)
        BY <1>1
      <3> QED BY <1>1, <2>2, <3>1 DEF ChatAnswered, ChatCalls
    <2>4. ChatCalls(talk[i].calls, i) /\ call \in Chat!Calls
      BY <1>1, <2>3 DEF ChatCalls
    <2> HIDE DEF call
    <2>5. talk[j].name = call.name
          /\ talk[j].of = IF call.id # Chat!NoId THEN call.id
                          ELSE Chat!Other(IF call.name THEN "name" ELSE "blank", 0)
      BY <2>3 DEF ChatResult, Chat!Tool, Chat!User
    <2>6. talk[j].of = call.id
      BY <1>4, <2>1, <2>5 DEF Chat!Other
    <2>7. call.id.at = i
      BY <1>4, <2>1, <2>3, <2>4, <2>6 DEF ChatCalls, call
    <2> QED BY <2>1, <2>2, <2>3, <2>5, <2>6, <2>7 DEF call
  <1>5. ASSUME NEW j \in 1..Len(talk), req[j].role = "tool", req[j].of.is = "given", req[j].name
        PROVE  Chat!Cardinality(Chat!CallsFor(req, j)) = 1
    <2>1. PICK i \in 1..Len(talk) :
                  /\ ChatAnswered(i, j) /\ j - i \in 1..Len(talk[i].calls)
                  /\ talk[i].calls[j - i].id = req[j].of /\ req[j].of.at = i
                  /\ talk[i].calls[j - i].name = req[j].name
      BY <1>4, <1>5
    <2>2. PICK p \in 1..Len(req[i].calls) : req[i].calls[p].id = req[j].of
      <3>1. ChatSent(req[i], talk[i], i)
        BY <1>2
      <3>2. talk[i].calls[j - i].name /\ talk[i].calls[j - i].id.is = "given"
        BY <1>5, <2>1
      <3> QED BY <2>1, <3>1, <3>2, SMTT(40) DEF ChatSent
    <2>3. Chat!Together(req, i, j)
      <3>1. req[i].role = "assistant" /\ i < j
        BY <1>7, <2>1 DEF ChatAnswered
      <3>2. ASSUME NEW k \in i + 1..j PROVE req[k].role = "tool"
        <4>1. k \in 1..Len(talk)
          BY <1>1, <3>2
        <4>2. talk[k].role = "tool"
          BY <2>1, <3>2 DEF ChatAnswered
        <4> QED BY <1>7, <4>1, <4>2
      <3> QED BY <3>1, <3>2 DEF Chat!Together
    <2>4. ASSUME NEW h \in DOMAIN req, Chat!Together(req, h, j), NEW q \in DOMAIN req[h].calls,
                 req[h].calls[q].id = req[j].of
          PROVE  h = i /\ q = p
      <3>1. ChatCalls(req[h].calls, h) /\ h \in 1..Len(talk)
        BY <1>3, <1>7
      <3>2. DOMAIN req[h].calls = 1..Len(req[h].calls) /\ Len(req[h].calls) \in Nat
        BY <3>1 DEF ChatCalls
      <3>3. h = i
        BY <1>5, <2>1, <2>4, <3>1, <3>2, SMTT(40) DEF ChatCalls
      <3>4. p \in 1..Len(req[h].calls) /\ q \in 1..Len(req[h].calls)
        BY <2>2, <3>2, <3>3
      <3>5. ~(p < q) /\ ~(q < p)
        BY <1>5, <2>2, <2>4, <3>1, <3>3, <3>4 DEF ChatCalls
      <3> QED BY <3>2, <3>3, <3>4, <3>5
    <2>5. i \in DOMAIN req /\ p \in DOMAIN req[i].calls
      <3>1. ChatCalls(req[i].calls, i)
        BY <1>7
      <3> QED BY <1>3, <3>1 DEF ChatCalls
    <2>6. Chat!CallsFor(req, j) = {<<i, p>>}
      <3> DEFINE at == {h \in DOMAIN req : Chat!Together(req, h, j)}
                 of(h) == {q \in DOMAIN req[h].calls : req[h].calls[q].id = req[j].of}
      <3>1. Chat!CallsFor(req, j) = UNION {{<<h, n>> : n \in of(h)} : h \in at}
        BY Zenon DEF Chat!CallsFor
      <3>2. i \in at /\ p \in of(i)
        BY <2>2, <2>3, <2>5
      <3>3. \A h \in at : \A q \in of(h) : h = i /\ q = p
        BY <2>4
      <3> HIDE DEF at, of
      <3> QED BY <3>1, <3>2, <3>3
    <2> QED BY <2>6, ChatListings, FS_Singleton
  <1>6. ASSUME NEW j \in 1..Len(talk), req[j].role = "tool", req[j].of.is = "given",
               NEW k \in 1..Len(talk), k # j, req[k].role = "tool", req[k].of = req[j].of
        PROVE  FALSE
    <2>1. PICK i \in 1..Len(talk) :
                  /\ ChatAnswered(i, j) /\ j - i \in 1..Len(talk[i].calls)
                  /\ talk[i].calls[j - i].id = req[j].of /\ req[j].of.at = i
      BY <1>4, <1>6
    <2>2. PICK h \in 1..Len(talk) :
                  /\ ChatAnswered(h, k) /\ k - h \in 1..Len(talk[h].calls)
                  /\ talk[h].calls[k - h].id = req[k].of /\ req[k].of.at = h
      BY <1>4, <1>6
    <2>3. h = i
      BY <1>6, <2>1, <2>2
    <2>4. ChatCalls(talk[i].calls, i)
      BY <1>1
    <2>5. ~(j - i < k - i) /\ ~(k - i < j - i)
      BY <1>6, <2>1, <2>2, <2>3, <2>4 DEF ChatCalls
    <2> QED BY <1>1, <1>6, <2>5
  <1> QED BY <1>3, <1>5, <1>6

\* What the invariant says of the parts in their types.
LEMMA ChatHolds ==
    ASSUME ChatParameters, ChatInv
    PROVE  Chat!TypeOK /\ Chat!ResultsKeepTheirCalls /\ Chat!TokensCharged
  <1>1. talk \in Seq(Chat!Messages) /\ request \in Seq(Chat!Messages)
    BY DEF ChatInv, ChatTalk
  <1>2. Chat!Range(talk) \subseteq Chat!Messages /\ Chat!Range(request) \subseteq Chat!Messages
    BY <1>1, ChatListings
  <1> QED BY <1>2 DEF Chat!TypeOK, ChatInv, ChatTalk, ChatTodo

LEMMA ChatInit == ASSUME ChatParameters, Chat!Init PROVE ChatInv
  <1>1. ChatTalk /\ ChatTodo /\ request = <<>> /\ adapter \in Apis
    BY DEF Chat!Init, ChatTalk, ChatTodo, ChatParameters
  <1>2. Chat!ResultsKeepTheirCalls
    BY <1>1 DEF Chat!ResultsKeepTheirCalls
  <1>3. bill = [by |-> adapter, report |-> "both", charged |-> 2, recorded |-> 2]
    BY DEF Chat!Init, Chat!Tokens
  <1>4. Chat!TokensCharged
    BY <1>3 DEF Chat!TokensCharged, Chat!Summary, Chat!Tokens
  <1> QED BY <1>1, <1>2, <1>3, <1>4 DEF ChatInv, Chat!Reports, Chat!Tokens, ChatParameters

\* A message is added: what was said of the others stays.
LEMMA ChatAdded ==
    ASSUME ChatParameters, ChatTalk, NEW m \in Chat!Messages, Len(talk) < MaxTalk,
           talk' = Append(talk, m), ChatCalls(m.calls, Len(talk) + 1),
           \A c \in 1..Len(m.calls) : m.calls[c].id.is \in {"none", "given"},
           m.role = "tool" => \E i \in 1..Len(talk) :
              /\ talk[i].role = "assistant"
              /\ \A k \in i + 1..Len(talk) : talk[k].role = "tool"
              /\ (Len(talk) + 1) - i <= Len(talk[i].calls)
              /\ m = ChatResult(talk[i].calls[(Len(talk) + 1) - i])
    PROVE  ChatTalk'
  <1>0. PICK n \in Nat : n = Len(talk)
    BY DEF ChatTalk
  <1>1. talk \in Seq(Chat!Messages) /\ n \in Nat /\ n < MaxTalk
    BY <1>0 DEF ChatTalk
  <1>2. /\ talk' \in Seq(Chat!Messages) /\ Len(talk') = n + 1
        /\ talk'[n + 1] = m /\ \A i \in 1..n : talk'[i] = talk[i]
    BY <1>0, <1>1
  <1>3. Len(talk') <= MaxTalk
    BY <1>1, <1>2 DEF ChatParameters
  <1>4. ASSUME NEW i \in 1..Len(talk')
        PROVE  /\ ChatCalls(talk'[i].calls, i)
               /\ \A k \in 1..Len(talk'[i].calls) : talk'[i].calls[k].id.is \in {"none", "given"}
    <2>1. i \in 1..n \/ i = n + 1
      BY <1>1, <1>2
    <2> QED BY <1>0, <1>2, <2>1 DEF ChatTalk
  <1>5. ASSUME NEW j \in 1..Len(talk'), talk'[j].role = "tool"
        PROVE  \E i \in 1..Len(talk') : ChatAnswered(i, j)'
    <2>1. CASE j \in 1..n
      <3>1. PICK i \in 1..n : ChatAnswered(i, j)
        BY <1>0, <1>2, <1>5, <2>1 DEF ChatTalk
      <3>2. \A k \in i + 1..j : k \in 1..n
        BY <1>1, <2>1
      <3>3. ChatAnswered(i, j)'
        BY <1>2, <2>1, <3>1, <3>2 DEF ChatAnswered
      <3> QED BY <1>1, <1>2, <3>3
    <2>2. CASE j = n + 1
      <3>1. PICK i \in 1..n :
              /\ talk[i].role = "assistant"
              /\ \A k \in i + 1..n : talk[k].role = "tool"
              /\ (n + 1) - i <= Len(talk[i].calls)
              /\ m = ChatResult(talk[i].calls[(n + 1) - i])
        BY <1>0, <1>2, <1>5, <2>2
      <3>2. \A k \in i + 1..n + 1 : k \in i + 1..n \/ k = n + 1
        BY <1>1
      <3>3. \A k \in i + 1..n + 1 : talk'[k].role = "tool"
        <4> TAKE k \in i + 1..n + 1
        <4>1. CASE k \in i + 1..n
          <5>1. k \in 1..n
            BY <1>1, <4>1
          <5>2. talk[k].role = "tool"
            BY <3>1, <4>1, Zenon
          <5>3. talk'[k] = talk[k]
            BY <1>2, <5>1, Zenon
          <5> QED BY <5>2, <5>3, Zenon
        <4>2. CASE k = n + 1
          BY <1>2, <1>5, <2>2, <4>2
        <4>3. k \in i + 1..n \/ k = n + 1
          BY <3>2
        <4> QED BY <4>1, <4>2, <4>3, Zenon
      <3>4. i < n + 1 /\ talk'[i] = talk[i] /\ talk'[n + 1] = m
        BY <1>1, <1>2, SMTT(40)
      <3>5. talk'[i].role = "assistant" /\ (n + 1) - i <= Len(talk'[i].calls)
        BY <3>1, <3>4
      <3>6. talk'[n + 1] = ChatResult(talk'[i].calls[(n + 1) - i])
        BY <3>1, <3>4, Zenon
      <3>7. ChatAnswered(i, n + 1)'
        BY <3>3, <3>4, <3>5, <3>6, Zenon DEF ChatAnswered
      <3>8. i \in 1..Len(talk')
        BY <1>1, <1>2
      <3> QED BY <2>2, <3>7, <3>8
    <2> QED BY <1>1, <1>2, <2>1, <2>2
  <1> QED BY <1>2, <1>3, <1>4, <1>5 DEF ChatTalk

\* What is charged and recorded of an answer, however it is reported.
LEMMA ChatCharged ==
    ASSUME ChatParameters, NEW a \in Apis, NEW report \in Chat!Reports,
           NEW charged \in {"parts", "total"},
           bill' = [by |-> a, report |-> report,
                    charged |-> IF charged = "parts" THEN Chat!ChargedByParts(Chat!UsageOf(a, report))
                                ELSE Chat!ChargedByTotal(Chat!UsageOf(a, report)),
                    recorded |-> Chat!Recorded(Chat!UsageOf(a, report))]
    PROVE  /\ bill' \in [by : Apis, report : Chat!Reports, charged : 0..Chat!Tokens,
                         recorded : 0..Chat!Tokens]
           /\ Chat!TokensCharged'
  <1> DEFINE u == Chat!UsageOf(a, report)
             c == IF charged = "parts" THEN Chat!ChargedByParts(u) ELSE Chat!ChargedByTotal(u)
  <1>1. a \in {"anthropic", "openai", "openrouter", "huawei-modelarts"}
        /\ report \in {"parts", "total", "both"}
    BY DEF ChatParameters, Chat!Reports
  <1>2. u \in [parts : {0, 2, 9}, total : {0, 2, 9}]
        /\ (u.total \in {0, 9} => u.parts = 2) /\ (u.total # 2 => a # "anthropic" /\ report = "parts")
    <2>1. CASE a = "anthropic"
      <3>1. u = [parts |-> IF report = "total" THEN 9 ELSE 2, total |-> 2]
        BY <2>1 DEF Chat!UsageOf, Chat!AnthropicUsage, Chat!Unknown, Chat!Tokens
      <3> QED BY <3>1
    <2>2. CASE a = "openai"
      <3>1. u = [parts |-> IF report = "total" THEN 0 ELSE 2, total |-> IF report = "parts" THEN 0 ELSE 2]
        BY <2>2 DEF Chat!UsageOf, Chat!OpenAIUsage, Chat!Unknown, Chat!Tokens
      <3> QED BY <2>2, <3>1
    <2>3. CASE a \in {"openrouter", "huawei-modelarts"}
      <3>1. u = [parts |-> IF report = "total" THEN 9 ELSE 2, total |-> IF report = "parts" THEN 9 ELSE 2]
        BY <2>3 DEF Chat!UsageOf, Chat!OpenRouterUsage, Chat!Unknown, Chat!Tokens
      <3> QED BY <2>3, <3>1
    <2> QED BY <1>1, <2>1, <2>2, <2>3
  <1> HIDE DEF u
  <1>3. c \in 0..2 /\ (report = "both" \/ (a = "anthropic" /\ report = "parts") => c = 2)
    BY <1>1, <1>2 DEF Chat!ChargedByParts, Chat!ChargedByTotal, Chat!Unknown
  <1>4. Chat!Recorded(u) = 2
    BY <1>2 DEF Chat!Recorded, Chat!Unknown
  <1>5. bill' = [by |-> a, report |-> report, charged |-> c, recorded |-> 2]
    BY <1>4 DEF u
  <1> HIDE DEF c
  <1>6. bill' \in [by : Apis, report : Chat!Reports, charged : 0..Chat!Tokens,
                         recorded : 0..Chat!Tokens]
    BY <1>3, <1>5 DEF Chat!Tokens
  <1>7. bill'.by = a /\ bill'.report = report /\ bill'.charged = c /\ bill'.recorded = 2
    BY <1>5
  <1>8. Chat!TokensCharged'
    BY <1>3, <1>7 DEF Chat!TokensCharged, Chat!Tokens, Chat!Summary
  <1> QED BY <1>6, <1>8

\* What a step leaves alone, it leaves as it was.
LEMMA ChatKept ==
    /\ UNCHANGED talk => (ChatTalk => ChatTalk')
    /\ UNCHANGED request => (Chat!ResultsKeepTheirCalls => Chat!ResultsKeepTheirCalls')
    /\ UNCHANGED bill => (Chat!TokensCharged => Chat!TokensCharged')
    /\ UNCHANGED <<talk, todo>> => (ChatTodo => ChatTodo')
  <1>1. UNCHANGED talk => (ChatTalk => ChatTalk')
    <2> SUFFICES ASSUME UNCHANGED talk PROVE ChatTalk => ChatTalk'
      OBVIOUS
    <2>1. \A i, j : ChatAnswered(i, j) <=> ChatAnswered(i, j)'
      BY Zenon DEF ChatAnswered
    <2> QED BY <2>1, Zenon DEF ChatTalk
  <1>2. UNCHANGED request => (Chat!ResultsKeepTheirCalls => Chat!ResultsKeepTheirCalls')
    BY DEF Chat!ResultsKeepTheirCalls
  <1>3. UNCHANGED bill => (Chat!TokensCharged => Chat!TokensCharged')
    BY DEF Chat!TokensCharged
  <1>4. UNCHANGED <<talk, todo>> => (ChatTodo => ChatTodo')
    BY DEF ChatTodo
  <1> QED BY <1>1, <1>2, <1>3, <1>4

\* A user's message and an answer.
LEMMA ChatKinds ==
    ASSUME NEW calls, NEW image
    PROVE  /\ [Chat!User EXCEPT !.image = image] =
                [role |-> "user", calls |-> <<>>, of |-> Chat!NoId, name |-> FALSE, image |-> image]
           /\ Chat!Assistant(calls) =
                [role |-> "assistant", calls |-> calls, of |-> Chat!NoId, name |-> FALSE,
                 image |-> "none"]
  <1> DEFINE u == Chat!User
             c == <<>>
             f == FALSE
  <1>1. u = [role |-> "user", calls |-> c, of |-> Chat!NoId, name |-> f, image |-> "none"]
    BY DEF Chat!User
  <1>2. Chat!Assistant(calls) = [u EXCEPT !.role = "assistant", !.calls = calls]
    BY Zenon DEF Chat!Assistant
  <1> HIDE DEF u, c, f
  <1>3. [u EXCEPT !.image = image] =
           [role |-> "user", calls |-> c, of |-> Chat!NoId, name |-> f, image |-> image]
    BY <1>1
  <1>4. [u EXCEPT !.role = "assistant", !.calls = calls] =
           [role |-> "assistant", calls |-> calls, of |-> Chat!NoId, name |-> f, image |-> "none"]
    <2> DEFINE v == [u EXCEPT !.role = "assistant"]
    <2>1. v = [role |-> "assistant", calls |-> c, of |-> Chat!NoId, name |-> f, image |-> "none"]
      BY <1>1
    <2> HIDE DEF v
    <2>2. [v EXCEPT !.calls = calls] =
             [role |-> "assistant", calls |-> calls, of |-> Chat!NoId, name |-> f, image |-> "none"]
      BY <2>1
    <2> QED BY <2>2, Zenon DEF v
  <1> QED BY <1>2, <1>3, <1>4, Zenon DEF u, c, f

LEMMA ChatUser ==
    ASSUME ChatParameters, ChatInv, Chat!UserSays
    PROVE  ChatInv'
  <1>1. PICK image \in Chat!Images : talk' = Append(talk, [Chat!User EXCEPT !.image = image])
    BY DEF Chat!UserSays
  <1> DEFINE m == [Chat!User EXCEPT !.image = image]
  <1>2. m = [role |-> "user", calls |-> <<>>, of |-> Chat!NoId, name |-> FALSE, image |-> image]
    BY ChatKinds, Zenon
  <1>3. Chat!NoId \in Chat!Ids
    BY DEF Chat!NoId, Chat!Other, Chat!Ids
  <1>4. m \in Chat!Messages /\ m.role = "user" /\ m.calls = <<>>
    <2> HIDE DEF m
    <2>1. m.role = "user" /\ m.calls = <<>>
      BY <1>2
    <2>2. <<>> \in Seq(Chat!Calls)
      OBVIOUS
    <2>3. m \in Chat!Messages
      BY <1>2, <1>3, <2>2 DEF Chat!Messages
    <2> QED BY <2>1, <2>3
  <1> HIDE DEF m
  <1>5. ChatCalls(m.calls, Len(talk) + 1) /\ \A n \in 1..Len(m.calls) : FALSE
    BY <1>4 DEF ChatCalls
  <1>6. ChatTalk'
    <2>1. talk' = Append(talk, m)
      BY <1>1 DEF m
    <2>2. Len(talk) < MaxTalk /\ ChatTalk
      BY DEF Chat!UserSays, ChatInv
    <2> QED BY <1>4, <1>5, <2>1, <2>2, ChatAdded
  <1>7. todo' = 0 /\ UNCHANGED <<adapter, request, bill>>
    BY DEF Chat!UserSays
  <1>8. ChatTodo'
    BY <1>7 DEF ChatTodo
  <1> QED BY <1>6, <1>7, <1>8, ChatKept DEF ChatInv

LEMMA ChatGenerated ==
    ASSUME ChatParameters, ChatInv, Chat!Generate
    PROVE  ChatInv'
  <1> DEFINE n == Len(talk) + 1
  <1>1. PICK raw \in Answers : /\ talk' = Append(talk, Chat!Assistant(Chat!Reads(adapter, n, raw)))
                               /\ todo' = Len(Chat!Reads(adapter, n, raw))
    BY DEF Chat!Generate
  <1> DEFINE calls == Chat!Reads(adapter, n, raw)
             m == Chat!Assistant(calls)
  <1>2. /\ talk \in Seq(Chat!Messages) /\ Len(talk) \in Nat /\ Len(talk) < MaxTalk /\ n \in 1..MaxTalk
        /\ adapter \in Apis /\ UNCHANGED adapter
    BY DEF Chat!Generate, ChatInv, ChatTalk, ChatParameters
  <1>3. ChatCalls(calls, n) /\ \A k \in 1..Len(calls) : calls[k].id.is \in {"none", "given"}
    BY <1>2, ChatReads
  <1>4. request' = [k \in DOMAIN talk |-> Chat!Writes(adapter, talk[k])]
    BY DEF Chat!Generate
  <1>5. /\ request' \in Seq(Chat!Messages) /\ Len(request') = Len(talk)
        /\ Chat!ResultsKeepTheirCalls'
    <2> DEFINE req == request'
    <2>1. req = [k \in DOMAIN talk |-> Chat!Writes(adapter, talk[k])]
      BY <1>4
    <2> HIDE DEF req
    <2>2. /\ req \in Seq(Chat!Messages) /\ Len(req) = Len(talk)
          /\ \A j \in DOMAIN req :
                 req[j].role = "tool" /\ req[j].of.is = "given" /\ req[j].name =>
                    /\ Chat!Cardinality(Chat!CallsFor(req, j)) = 1
                    /\ \A k \in DOMAIN req :
                          k # j /\ req[k].role = "tool" => req[k].of # req[j].of
      BY <1>2, <2>1, ChatRequested DEF ChatInv
    <2> QED BY <2>2 DEF req, Chat!ResultsKeepTheirCalls
  <1> HIDE DEF calls
  <1>6. m = [role |-> "assistant", calls |-> calls, of |-> Chat!NoId, name |-> FALSE, image |-> "none"]
    BY ChatKinds, Zenon
  <1>7. Chat!NoId \in Chat!Ids
    BY DEF Chat!NoId, Chat!Other, Chat!Ids
  <1>8. calls \in Seq(Chat!Calls) /\ Len(calls) \in 0..2
    <2>1. calls \in Seq(Chat!Calls) /\ Len(calls) <= 2
      BY <1>3, Zenon DEF ChatCalls
    <2>2. Len(calls) \in Nat
      BY <2>1, LenProperties
    <2>3. \A l \in Nat : l <= 2 => l \in 0..2
      OBVIOUS
    <2> QED BY <2>1, <2>2, <2>3, Zenon
  <1>9. m \in Chat!Messages /\ m.role = "assistant" /\ m.calls = calls
    <2> HIDE DEF m
    <2>1. m.role = "assistant" /\ m.calls = calls
      BY <1>6
    <2>2. "none" \in Chat!Images
      BY DEF Chat!Images
    <2>3. m \in Chat!Messages
      BY <1>6, <1>7, <1>8, <2>2 DEF Chat!Messages
    <2> QED BY <2>1, <2>3
  <1> HIDE DEF m
  <1>10. talk' = Append(talk, m) /\ todo' = Len(calls)
    BY <1>1 DEF m, calls
  <1>11. ChatTalk'
    BY <1>2, <1>3, <1>9, <1>10, ChatAdded DEF ChatInv
  <1>12. ChatTodo'
    <2>1. talk'[n] = m /\ Len(talk') = n
      BY <1>2, <1>10
    <2> HIDE DEF n
    <2>2. n \in 1..Len(talk') /\ talk'[n].role = "assistant" /\ (\A k \in n + 1..Len(talk') : FALSE)
          /\ Len(talk'[n].calls) - todo' = Len(talk') - n
      BY <1>2, <1>8, <1>9, <1>10, <2>1
    <2> QED BY <1>8, <1>10, <2>2 DEF ChatTodo
  <1>13. /\ bill' \in [by : Apis, report : Chat!Reports, charged : 0..Chat!Tokens,
                         recorded : 0..Chat!Tokens]
         /\ Chat!TokensCharged'
    <2>1. PICK report \in Chat!Reports, charged \in {"parts", "total"} :
             bill' = [by |-> adapter, report |-> report,
                      charged |-> IF charged = "parts" THEN Chat!ChargedByParts(Chat!UsageOf(adapter, report))
                                  ELSE Chat!ChargedByTotal(Chat!UsageOf(adapter, report)),
                      recorded |-> Chat!Recorded(Chat!UsageOf(adapter, report))]
      BY DEF Chat!Generate
    <2> QED BY <1>2, <2>1, ChatCharged
  <1>14. Len(request') <= MaxTalk
    BY <1>2, <1>5 DEF ChatParameters
  <1>15. adapter' \in Apis
    BY <1>2
  <1> QED BY <1>5, <1>11, <1>12, <1>13, <1>14, <1>15 DEF ChatInv

LEMMA ChatToolResult ==
    ASSUME ChatParameters, ChatInv, Chat!ToolResult
    PROVE  ChatInv'
  <1>1. /\ talk \in Seq(Chat!Messages) /\ Len(talk) \in Nat /\ DOMAIN talk = 1..Len(talk)
        /\ Len(talk) < MaxTalk /\ todo \in 1..2
    <2>1. talk \in Seq(Chat!Messages) /\ todo \in 0..2
      BY DEF ChatInv, ChatTalk, ChatTodo
    <2>2. todo > 0 /\ Len(talk) < MaxTalk
      BY Zenon DEF Chat!ToolResult
    <2> QED BY <2>1, <2>2
  <1>2. PICK i \in 1..Len(talk) :
          /\ talk[i].role = "assistant"
          /\ \A k \in i + 1..Len(talk) : talk[k].role = "tool"
          /\ Len(talk[i].calls) - todo = Len(talk) - i
    <2>1. ChatTodo /\ todo > 0
      BY <1>1 DEF ChatInv
    <2> QED BY <2>1, Zenon DEF ChatTodo
  <1> DEFINE S == {k \in DOMAIN talk : talk[k].role = "assistant"}
             call == talk[i].calls[Len(talk[i].calls) - todo + 1]
             m == ChatResult(call)
  <1>3. Chat!Max(S) = i
    <2>1. i \in S /\ \A k \in S : k \in Nat /\ i >= k
      BY <1>1, <1>2
    <2> HIDE DEF S
    <2>2. \A x \in S : (\A y \in S : x >= y) => x = i
      BY <1>1, <2>1
    <2>3. Chat!Max(S) \in S /\ \A y \in S : Chat!Max(S) >= y
      BY <2>1 DEF Chat!Max
    <2> QED BY <2>2, <2>3
  <1>4. talk' = Append(talk, m)
    <2>1. talk' = Append(talk,
             LET asked == Chat!Max(S)
                 calls == talk[asked].calls
                 c == calls[Len(calls) - todo + 1]
                 id == IF c.id # Chat!NoId THEN c.id ELSE Chat!Other(IF c.name THEN "name" ELSE "blank", 0)
             IN  Chat!Tool(id, c.name))
      BY Zenon DEF Chat!ToolResult
    <2> HIDE DEF S
    <2> QED BY <1>3, <2>1, Zenon DEF ChatResult
  <1>5. todo' = todo - 1 /\ UNCHANGED <<adapter, request, bill>>
    BY DEF Chat!ToolResult
  <1>6. ChatCalls(talk[i].calls, i)
    BY DEF ChatInv, ChatTalk
  <1>7. /\ Len(talk[i].calls) \in 0..2 /\ Len(talk[i].calls) - todo + 1 = (Len(talk) + 1) - i
        /\ (Len(talk) + 1) - i \in 1..Len(talk[i].calls)
    <2> DEFINE l == Len(talk[i].calls)
    <2>1. l \in 0..2
      <3>1. talk[i].calls \in Seq(Chat!Calls) /\ l <= 2
        BY <1>6, Zenon DEF ChatCalls
      <3>2. l \in Nat
        BY <3>1, LenProperties
      <3> HIDE DEF l
      <3> QED BY <3>1, <3>2
    <2>2. l - todo = Len(talk) - i
      BY <1>2
    <2> HIDE DEF l
    <2>3. l - todo + 1 = (Len(talk) + 1) - i /\ (Len(talk) + 1) - i \in 1..l
      BY <1>1, <2>1, <2>2
    <2> QED BY <2>1, <2>3 DEF l
  <1>8. call \in Chat!Calls
    BY <1>6, <1>7 DEF ChatCalls
  <1>9. m = ChatResult(talk[i].calls[(Len(talk) + 1) - i])
    BY <1>7
  <1> HIDE DEF call
  <1>10. m \in Chat!Messages /\ m.role = "tool" /\ m.calls = <<>>
    <2> DEFINE id == IF call.id # Chat!NoId THEN call.id
                     ELSE Chat!Other(IF call.name THEN "name" ELSE "blank", 0)
    <2>1. Chat!Other("name", 0) \in Chat!Ids /\ Chat!Other("blank", 0) \in Chat!Ids
      BY DEF Chat!Other, Chat!Ids
    <2>2. id \in Chat!Ids /\ call.name \in BOOLEAN
      BY <1>8, <2>1 DEF Chat!Calls
    <2>3. m = Chat!Tool(id, call.name)
      BY DEF ChatResult
    <2> HIDE DEF id, m
    <2>4. m = [role |-> "tool", calls |-> <<>>, of |-> id, name |-> call.name, image |-> "none"]
      BY <2>3 DEF Chat!Tool, Chat!User
    <2> QED BY <2>2, <2>4 DEF Chat!Messages, Chat!Images
  <1> HIDE DEF m
  <1>11. ChatCalls(m.calls, Len(talk) + 1) /\ \A n \in 1..Len(m.calls) : FALSE
    BY <1>10 DEF ChatCalls
  <1>12. ChatTalk'
    <2>1. ChatTalk
      BY DEF ChatInv
    <2>2. (Len(talk) + 1) - i <= Len(talk[i].calls)
      BY <1>7
    <2> QED BY <1>1, <1>2, <1>4, <1>9, <1>10, <1>11, <2>1, <2>2, ChatAdded
  <1>13. ChatTodo'
    <2>1. /\ Len(talk') = Len(talk) + 1 /\ talk'[Len(talk) + 1] = m
          /\ \A k \in 1..Len(talk) : talk'[k] = talk[k]
      BY <1>1, <1>4, <1>10
    <2>2. i \in 1..Len(talk') /\ talk'[i] = talk[i]
      BY <1>1, <2>1
    <2>3. ASSUME NEW k \in i + 1..Len(talk') PROVE talk'[k].role = "tool"
      <3>1. CASE k = Len(talk) + 1
        BY <1>10, <2>1, <3>1
      <3>2. CASE k \in i + 1..Len(talk)
        BY <1>1, <1>2, <2>1, <3>2
      <3>3. k = Len(talk) + 1 \/ k \in i + 1..Len(talk)
        BY <1>1, <2>1, <2>3
      <3> QED BY <3>1, <3>2, <3>3
    <2>4. Len(talk'[i].calls) - todo' = Len(talk') - i
      BY <1>1, <1>2, <1>5, <1>7, <2>1, <2>2
    <2>5. todo' \in 0..2
      BY <1>1, <1>5
    <2> QED BY <1>2, <2>2, <2>3, <2>4, <2>5 DEF ChatTodo
  <1> QED BY <1>5, <1>12, <1>13, ChatKept DEF ChatInv

LEMMA ChatStep == ASSUME ChatParameters, ChatInv, [Chat!Next]_Chat!vars PROVE ChatInv'
  <1>1. CASE Chat!Interrupted
    <2>1. todo' = 0 /\ UNCHANGED <<adapter, talk, request, bill>>
      BY <1>1 DEF Chat!Interrupted
    <2>2. ChatTodo'
      BY <2>1 DEF ChatTodo
    <2> QED BY <2>1, <2>2, ChatKept DEF ChatInv
  <1>2. CASE Chat!Resume
    <2>1. adapter' \in Apis /\ UNCHANGED <<talk, todo, request, bill>>
      BY <1>2 DEF Chat!Resume
    <2> QED BY <2>1, ChatKept DEF ChatInv
  <1>3. CASE UNCHANGED Chat!vars
    <2>1. UNCHANGED <<adapter, talk, todo, request, bill>>
      BY <1>3 DEF Chat!vars
    <2> QED BY <2>1, ChatKept DEF ChatInv
  <1> QED BY <1>1, <1>2, <1>3, ChatUser, ChatGenerated, ChatToolResult DEF Chat!Next

\* For any adapters of the four, answers of up to two calls, and conversations resumed
\* under any of them: a named call that had an id is in every later request with its own
\* result, and an answer is charged and reported (model/adapters, _normalize_tool_calls,
\* _record_token_usage).
THEOREM ConversationsStayWhole ==
    ASSUME ChatParameters
    PROVE  Chat!Spec => [](Chat!TypeOK /\ Chat!ResultsKeepTheirCalls /\ Chat!TokensCharged)
  <1>1. Chat!Init => ChatInv
    BY ChatInit
  <1>2. ChatInv /\ [Chat!Next]_Chat!vars => ChatInv'
    BY ChatStep
  <1>3. ChatInv => Chat!TypeOK /\ Chat!ResultsKeepTheirCalls /\ Chat!TokensCharged
    BY ChatHolds
  <1> QED BY <1>1, <1>2, <1>3, PTL DEF Chat!Spec
=============================================================================
