-------------------------- MODULE KnowledgeStores --------------------------
(***************************************************************************)
(* Knowledge and long-term memory: five stores behind one contract (raw    *)
(* records in memory or SQLite; documents with embeddings in memory,       *)
(* SQLite or ChromaDB), what each writes for a message or a text, and what *)
(* a query gets back.  A query changes nothing, so its answer is an        *)
(* operator of the state; embeddings are a constant table of similarities. *)
(***************************************************************************)
EXTENDS Integers, Sequences, SequencesExt, Listings

CONSTANTS
    Stores,        \* of Raw \cup Vector, see below
    Fronts,        \* of {"knowledge", "memory"}
    Texts,         \* texts: sequences of the symbols "a", "A", "_", "b"
    Similar,       \* Similar[q][t]: what the embedding model makes of two texts
    Models,        \* embedding models; each gives vectors of a length of its own
    MaxRows, MaxTop

VARIABLES
    store,         \* [kind, front]
    rows,          \* the stored records, oldest first
    embedder       \* the embedding model configured now

vars == <<store, rows, embedder>>

Raw == {"raw memory", "raw sqlite"}
Vector == {"vector memory", "vector sqlite", "vector chroma"}
Durable == {"raw sqlite", "vector sqlite", "vector chroma"}

NoText == <<>>
Blank == <<" ">>

\* A message: chat text, chat with an image, or a tool's result with its data.
Forms == {"plain", "image", "tool"}
AsMessage(t, f) == [text |-> t, form |-> f]

Init ==
    /\ \E k \in Stores, f \in Fronts : store = [kind |-> k, front |-> f]
    /\ rows = <<>>
    /\ embedder \in Models

-----------------------------------------------------------------------------
\* Writing.

\* Content is what is searched; a message without text gets a blank.
Content(message) == IF message.text = NoText THEN Blank ELSE message.text

\* ChromaDB keeps plain values only: a missing text is left out, lists and data become strings.
Fields(kind, message) ==
    IF kind = "vector chroma"
    THEN [text |-> IF message.text = NoText THEN "absent" ELSE "kept", form |-> message.form,
          rich |-> message.form = "plain"]
    ELSE [text |-> "kept", form |-> message.form, rich |-> TRUE]

Row(message) ==
    [content |-> Content(message), message |-> message,
     fields |-> Fields(store.kind, message), model |-> IF store.kind \in Raw THEN 0 ELSE embedder]

\* A ChromaDB collection takes vectors of one length only.
Accepts(row) == store.kind = "vector chroma" => \A i \in DOMAIN rows : rows[i].model = row.model

Write(row) ==
    /\ rows' = IF Accepts(row) THEN Append(rows, row) ELSE rows
    /\ UNCHANGED <<store, embedder>>

\* knowledge_add, which asks nobody: an empty text is refused, any other becomes a record.
AddKnowledge ==
    /\ store.front = "knowledge"
    /\ Len(rows) < MaxRows
    /\ \E t \in Texts \ {NoText} : Write(Row(AsMessage(t, "plain")))

\* ILongTermMemory.persist: one message, one record; a batch stops at the first it refuses.
Persist ==
    /\ store.front = "memory"
    /\ Len(rows) < MaxRows
    /\ \E t \in Texts, f \in Forms : Write(Row(AsMessage(t, f)))

RemoveOne ==
    \E i \in DOMAIN rows :
        /\ rows' = RemoveAt(rows, i)
        /\ UNCHANGED <<store, embedder>>

Clear ==
    /\ rows # <<>>
    /\ rows' = <<>>
    /\ UNCHANGED <<store, embedder>>

\* The process starts again, perhaps with another embedding model in its configuration.
Restart ==
    /\ embedder' \in Models
    /\ rows' = IF store.kind \in Durable THEN rows ELSE <<>>
    /\ UNCHANGED store

-----------------------------------------------------------------------------
\* Reading.

Prefix(s, k) == SubSeq(s, 1, IF k < Len(s) THEN k ELSE Len(s))

HasAt(t, q, i, Same(_, _)) == i + Len(q) <= Len(t) /\ \A j \in DOMAIN q : Same(q[j], t[i + j])

Inside(q, t, Same(_, _)) == \E i \in 0 .. Len(t) : HasAt(t, q, i, Same)

Exactly(a, b) == a = b

\* LIKE folds the case of letters and takes `_' for any one symbol.
Fold(a) == IF a = "A" THEN "a" ELSE a
Like(a, b) == a = "_" \/ Fold(a) = Fold(b)

Matches(q, row) ==
    IF store.kind = "raw sqlite" THEN Inside(q, row.content, Like) ELSE Inside(q, row.content, Exactly)

\* Mutant of RawAnswer: the limit comes before the filter.
RawAnswerOfFirst(q, k) == Taken(rows, {i \in DOMAIN rows : i <= k /\ Matches(q, rows[i])})

RawAnswer(q, k) == Prefix(Taken(rows, {i \in DOMAIN rows : Matches(q, rows[i])}), k)

\* Vectors of different lengths cannot be compared: the whole search raises.
Comparable == \A i \in DOMAIN rows : rows[i].model = embedder

Score(q, row) == Similar[q][row.content]

Better(q, i, j) ==
    \/ Score(q, rows[i]) > Score(q, rows[j])
    \/ Score(q, rows[i]) = Score(q, rows[j]) /\ i < j

Ranked(q, among) ==
    LET order == InOrder(among, {p \in among \X among : Better(q, p[1], p[2])})
    IN [n \in DOMAIN order |-> rows[order[n]]]

Above(s, q, least) == Taken(s, {i \in DOMAIN s : Score(q, s[i]) >= least})

ScanAnswer(q, k, least) == Prefix(Above(Ranked(q, DOMAIN rows), q, least), k)

\* How many neighbours ChromaDB is asked for: with a threshold, all of them.
Pool(k, least) == IF least > 0 THEN Len(rows) ELSE (IF k < Len(rows) THEN k ELSE Len(rows))

\* The index is external and taken to be exact: it returns the nearest records, best first.
ChromaAnswer(q, k, least) == Prefix(Above(Prefix(Ranked(q, DOMAIN rows), Pool(k, least)), q, least), k)

Answer(q, k, least) ==
    CASE store.kind \in Raw             -> RawAnswer(q, k)
      [] store.kind = "vector chroma"   -> ChromaAnswer(q, k, least)
      [] OTHER                          -> ScanAnswer(q, k, least)

Fails == store.kind \in Vector /\ ~Comparable

\* A message rebuilt from its record; a tool's message without data is not one.
FromContent(row) == AsMessage(row.content, row.fields.form)

Restored(row) ==
    AsMessage(IF row.fields.text = "kept" THEN row.message.text ELSE row.content,
              IF row.fields.rich THEN row.fields.form
              ELSE IF row.fields.form = "tool" THEN "error" ELSE "plain")

\* knowledge_get shows the model the attribute `content', which a Message does not have.
Shown(row) == NoText

\* What the tool answers the model: the k best, as shown, or that the search failed.
KnowledgeGet(q, k) ==
    [success |-> ~Fails,
     messages |-> IF Fails THEN <<>> ELSE [i \in DOMAIN Answer(q, k, 0) |-> Shown(Answer(q, k, 0)[i])]]

Next == AddKnowledge \/ Persist \/ RemoveOne \/ Clear \/ Restart

Spec == Init /\ [][Next]_vars

-----------------------------------------------------------------------------
TypeOK ==
    /\ store \in [kind : Raw \cup Vector, front : Fronts]
    /\ Len(rows) <= MaxRows
    /\ \A i \in DOMAIN rows : /\ rows[i].message \in [text : Texts, form : Forms]
                              /\ rows[i].model \in Models \cup {0}
    /\ embedder \in Models

Least == IF store.kind \in Raw THEN {0} ELSE {0, 2}

Fits(q, least, row) ==
    IF store.kind \in Raw THEN Inside(q, row.content, Exactly) ELSE Score(q, row) >= least

BestFirst(q, answer) ==
    /\ \A i, j \in DOMAIN answer : i < j => Score(q, answer[i]) >= Score(q, answer[j])
    /\ \A i \in DOMAIN answer, row \in Range(rows) \ Range(answer) :
          Score(q, answer[i]) >= Score(q, row)

\* Whichever store is behind it, a query gets the best of what is stored: at most the number
\* asked for, best first, as many as the tool passes on, and nothing that ranks above an answer, or that matches when there
\* is room left, is missing (IVectorStore.search, IRawDataStore.search).
AnswersBest ==
    ~Fails => \A q \in Texts \ {NoText}, k \in 1 .. MaxTop, least \in Least :
        LET answer == Answer(q, k, least)
        IN /\ Len(answer) <= k /\ Len(KnowledgeGet(q, k).messages) = Len(Answer(q, k, 0))
           /\ Len(answer) < k => \A row \in Range(rows) : Fits(q, least, row) => row \in Range(answer)
           /\ store.kind \in Vector => BestFirst(q, answer)

\* What was persisted comes back as the same message, also one without text (rawdata_ltm.py,
\* vector_ltm.py on the stores other than ChromaDB).
ReadBack ==
    store.front = "memory" /\ store.kind # "vector chroma" =>
        \A i \in DOMAIN rows : Restored(rows[i]) = rows[i].message
=============================================================================
