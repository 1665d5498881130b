-------------------------- MODULE NodeServicesProofs --------------------------
(***************************************************************************)
(* Theorems about the two services that all nodes of the graph use, the    *)
(* evidence tables and the model provider: first Evidence, for any number  *)
(* of topics, branches, hits, passes and questions, then Provider, for any *)
(* clouds and keys, any settings that are offered, any number of changes,  *)
(* tokens and retries.                                                     *)
(*                                                                         *)
(* The inductive invariant of Evidence joins what the tables promise one   *)
(* another: ids are given once and only from the counters (Ids), a chunk   *)
(* belongs to a source with its text (Owned), vectors and the chunks that  *)
(* still wait for theirs agree with whatever chunk has their id (Fit).     *)
(* From these follows what a question may hold between its steps (Asking), *)
(* and what the branches have to hand over (Kept).                         *)
(***************************************************************************)
EXTENDS Evidence, Provider, WellFoundedInduction, TLAPS

-----------------------------------------------------------------------------
(***************************************************************************)
(* Evidence: what the tables promise one another                           *)
(***************************************************************************)
\* Ids come from the counters, and no two rows have one.
Ids ==
    /\ \A s \in sources : s.id <= lastSource
    /\ \A s, t \in sources : s.id = t.id => s = t
    /\ \A c \in chunks : c.id <= lastChunk /\ c.source <= lastSource
    /\ \A c, d \in chunks : c.id = d.id => c = d
    /\ \A v \in vectors : v.chunk <= lastChunk
    /\ \A b \in Branches : \A c \in bare[b] : c.id <= lastChunk

\* A chunk has a source, whose run its text is of.
Owned ==
    /\ \A c \in chunks : \E s \in sources : s.id = c.source
    /\ \A c \in chunks, s \in sources : s.id = c.source => c.text.run = s.run

\* A chunk that waits for its vectors is the one of its id, or that is gone.
Fit ==
    /\ VectorsFit
    /\ \A b \in Branches : \A c \in bare[b] : \A d \in chunks : d.id = c.id => d = c

\* What the steps of an answer hold: vectors that stay, ids of the run's chunks,
\* chunks of the run, and those with a source as long as the project is there.
Asking ==
    /\ ask.near \subseteq vectors
    /\ \A i \in ask.ids : i <= lastChunk
    /\ \A c \in chunks : c.id \in ask.ids => c.text.run = ask.run
    /\ ask.run \in projects => \A c \in ask.shown : \E s \in sources : s.run = ask.run /\ s.id = c.source
    /\ AnswersOwnRun

\* What the branches hold are rows, as long as the project is there.
Kept ==
    /\ CandidatesHaveRows
    /\ Run \in projects => \A b \in Branches : got[b] \subseteq SourcesOf(Run)

EvInv == EvTypeOK /\ Ids /\ Owned /\ Fit /\ Asking /\ Kept /\ TrailTold

-----------------------------------------------------------------------------
(***************************************************************************)
(* Operators                                                               *)
(***************************************************************************)
\* Merging hits returns some of them.
LEMMA DedupedAreFound ==
    ASSUME NEW found, NEW D \in Deduped(found)
    PROVE D \subseteq found
<1>1. PICK M \in OnePer("work", found) : D \in OnePer("title", M)
    BY DEF Deduped
<1>2. M \subseteq found
    BY DEF OnePer
<1>3. D \subseteq M
    BY <1>1 DEF OnePer
<1> QED BY <1>2, <1>3

\* The works of what is found are works.
LEMMA FoundWorks ==
    ASSUME NEW S \in SUBSET Hits
    PROVE {h.work : h \in S} \in SUBSET Works
BY DEF Works

\* A new source row.
LEMMA RowType ==
    ASSUME NEW id \in Nat, NEW w \in Works
    PROVE /\ Row(id, w) \in SourceRow
          /\ Row(id, w).id = id /\ Row(id, w).run = Run /\ Row(id, w).work = w
BY DEF Row, SourceRow, Runs

\* A chunk of a source.
ChunkOf(id, s) == [id |-> id, source |-> s.id, text |-> TextOf(s)]
LEMMA ChunkType ==
    ASSUME NEW id \in Nat, NEW s \in SourceRow
    PROVE /\ ChunkOf(id, s) \in ChunkRow
          /\ ChunkOf(id, s).id = id /\ ChunkOf(id, s).source = s.id
          /\ ChunkOf(id, s).text.run = s.run
BY DEF ChunkOf, TextOf, SourceRow, ChunkRow, Texts

\* The vector of a chunk.
LEMMA VectorType ==
    ASSUME NEW c \in ChunkRow
    PROVE /\ VectorOf(c) \in VectorRow
          /\ VectorOf(c).chunk = c.id /\ VectorOf(c).source = c.source /\ VectorOf(c).text = c.text
BY DEF VectorOf, ChunkRow, VectorRow

-----------------------------------------------------------------------------
(***************************************************************************)
(* What the steps change                                                   *)
(***************************************************************************)
\* The counter of faults stays within its bound.
LEMMA FailsType ==
    ASSUME EvTypeOK, NEW possible, Stores(possible) \/ Refused(possible)
    PROVE failed' \in 0 .. MaxFaults
BY EvidenceAssumption DEF EvTypeOK, Stores, Refused, Fails

\* A candidate is stored as the row of its work, which may be a new one, or not
\* at all.
LEMMA PersistEffect ==
    ASSUME EvTypeOK, NEW b \in Branches, Persist(b)
    PROVE \E w \in Works :
             /\ left' = [left EXCEPT ![b] = @ \ {w}]
             /\ \/ UNCHANGED <<sources, lastSource>>
                \/ /\ \A s \in sources : s.run = Run => s.work # w
                   /\ sources' = sources \cup {Row(lastSource + 1, w)}
                   /\ lastSource' = lastSource + 1
             /\ \/ UNCHANGED <<got, todo>>
                \/ \E s \in sources' : /\ s.run = Run
                                       /\ got' = [got EXCEPT ![b] = @ \cup {s}]
                                       /\ todo' = [todo EXCEPT ![b] = @ \cup {s}]
<1>1. PICK w \in left[b] :
          /\ left' = [left EXCEPT ![b] = @ \ {w}]
          /\ \/ /\ Upsert(w)
                /\ \E s \in sources' : /\ s.run = Run
                                       /\ got' = [got EXCEPT ![b] = @ \cup {s}]
                                       /\ todo' = [todo EXCEPT ![b] = @ \cup {s}]
             \/ UNCHANGED <<sources, lastSource, got, todo>>
    BY DEF Persist
<1>2. w \in Works
    BY DEF EvTypeOK
<1>3. Upsert(w) => \/ UNCHANGED <<sources, lastSource>>
                   \/ /\ \A s \in sources : s.run = Run => s.work # w
                      /\ sources' = sources \cup {Row(lastSource + 1, w)}
                      /\ lastSource' = lastSource + 1
    BY DEF Upsert, SourcesOf
<1> QED BY <1>1, <1>2, <1>3

\* A source that has its row gets a chunk of the next id, or none.
LEMMA AddChunksEffect ==
    ASSUME EvTypeOK, NEW b \in Branches, AddChunks(b)
    PROVE \E s \in SourceRow :
             /\ todo' = [todo EXCEPT ![b] = @ \ {s}]
             /\ \/ UNCHANGED <<chunks, lastChunk, bare>>
                \/ /\ s \in sources
                   /\ chunks' = chunks \cup {ChunkOf(lastChunk + 1, s)}
                   /\ lastChunk' = lastChunk + 1
                   /\ bare' = [bare EXCEPT ![b] = {ChunkOf(lastChunk + 1, s)}]
<1>1. PICK s \in todo[b] :
          /\ todo' = [todo EXCEPT ![b] = @ \ {s}]
          /\ \/ /\ Stores(s \in sources)
                /\ chunks' = chunks \cup {ChunkOf(NextChunk, s)}
                /\ lastChunk' = NextChunk
                /\ bare' = [bare EXCEPT ![b] = {ChunkOf(NextChunk, s)}]
             \/ UNCHANGED <<chunks, lastChunk, bare>>
    BY DEF AddChunks, ChunkOf
<1>2. s \in SourceRow
    BY DEF EvTypeOK
<1> QED BY <1>1, <1>2 DEF Stores, NextChunk

\* A waiting chunk gets its vector, or none.
LEMMA AddVectorsEffect ==
    ASSUME EvTypeOK, NEW b \in Branches, AddVectors(b)
    PROVE \E c \in bare[b] : /\ c \in ChunkRow
                             /\ vectors' = vectors \cup {VectorOf(c)} \/ UNCHANGED vectors
<1>1. PICK c \in bare[b] : vectors' = vectors \cup {VectorOf(c)} \/ UNCHANGED vectors
    BY DEF AddVectors
<1> QED BY <1>1 DEF EvTypeOK

-----------------------------------------------------------------------------
(***************************************************************************)
(* Types                                                                   *)
(***************************************************************************)
\* The older run's rows are rows.
LEMMA TypeInit == EvInit => EvTypeOK
<1> SUFFICES ASSUME EvInit PROVE EvTypeOK
    OBVIOUS
<1> DEFINE w == CHOOSE w \in Works : TRUE
           text == [run |-> Older, work |-> w]
<1>1. w \in Works
    BY EvidenceAssumption DEF Works
<1>2. text \in Texts
    BY <1>1 DEF Texts, Runs
<1>3. sources = {[id |-> 1, run |-> Older, work |-> w]} /\ sources \subseteq SourceRow
    BY <1>1 DEF EvInit, SourceRow, Runs
<1>4. chunks = {[id |-> 1, source |-> 1, text |-> text]} /\ chunks \subseteq ChunkRow
    <2>1. chunks = {[id |-> 1, source |-> 1, text |-> text]}
        BY DEF EvInit
    <2> HIDE DEF text
    <2> QED BY <2>1, <1>2 DEF ChunkRow
<1>5. vectors = {[chunk |-> 1, source |-> 1, text |-> text]} /\ vectors \subseteq VectorRow
    <2>1. vectors = {[chunk |-> 1, source |-> 1, text |-> text]}
        BY DEF EvInit
    <2> HIDE DEF text
    <2> QED BY <2>1, <1>2 DEF VectorRow
<1>6. ask \in [at : {"idle", "filter", "words", "fetch", "answer"}, run : Runs,
               near : SUBSET VectorRow, ids : SUBSET Nat, shown : SUBSET ChunkRow]
    BY DEF EvInit, NoAsk, Runs
<1> HIDE DEF w, text
<1> QED BY <1>3, <1>4, <1>5, <1>6, EvidenceAssumption DEF EvInit, EvTypeOK

\* Every step keeps the types.
LEMMA TypeStep == EvTypeOK /\ [EvNext]_evVars => EvTypeOK'
<1> SUFFICES ASSUME EvTypeOK, [EvNext]_evVars PROVE EvTypeOK'
    OBVIOUS
<1> USE DEF EvTypeOK
<1>1. ASSUME NEW t \in Questions, Search(t) PROVE EvTypeOK'
    <2>1. PICK kept \in SUBSET Hits : left' = [left EXCEPT ![t] = {h.work : h \in kept}]
        <3>1. PICK found \in SUBSET Hits : \E D \in Deduped(found) : \E k \in Capped(D) :
                  left' = [left EXCEPT ![t] = {h.work : h \in k}]
            BY <1>1 DEF Search, FromProviders
        <3>2. PICK D \in Deduped(found) : \E k \in Capped(D) :
                  left' = [left EXCEPT ![t] = {h.work : h \in k}]
            BY <3>1
        <3>3. PICK k \in Capped(D) : left' = [left EXCEPT ![t] = {h.work : h \in k}]
            BY <3>2
        <3>4. k \subseteq D
            BY DEF Capped
        <3> QED BY <3>3, <3>4, DedupedAreFound
    <2>2. {h.work : h \in kept} \in SUBSET Works
        BY FoundWorks
    <2>3. left' \in [Branches -> SUBSET Works]
        BY <2>1, <2>2
    <2> QED BY <1>1, <2>3 DEF Search, tables
<1>2. ASSUME NEW t \in Questions, SearchFails(t) PROVE EvTypeOK'
    BY <1>2 DEF SearchFails, tables
<1>3. ASSUME NEW t \in Questions, RecordQuery(t) PROVE EvTypeOK'
    <2>1. failed' \in 0 .. MaxFaults
        BY <1>3, FailsType DEF RecordQuery
    <2> QED BY <1>3, <2>1 DEF RecordQuery, tables
<1>4. CASE FollowCitations
    <2>1. PICK found \in SUBSET Hits : \E D \in Deduped(found) :
              left' = [left EXCEPT ![Snowball] = {h.work : h \in D}]
        BY <1>4 DEF FollowCitations, FromCitations
    <2>2. PICK D \in Deduped(found) : left' = [left EXCEPT ![Snowball] = {h.work : h \in D}]
        BY <2>1
    <2>3. {h.work : h \in D} \in SUBSET Works
        BY DedupedAreFound, FoundWorks
    <2>4. left' \in [Branches -> SUBSET Works]
        BY <2>2, <2>3
    <2> QED BY <1>4, <2>4 DEF FollowCitations, tables
<1>5. ASSUME NEW b \in Branches, Persist(b) PROVE EvTypeOK'
    <2>1. PICK w \in Works :
             /\ left' = [left EXCEPT ![b] = @ \ {w}]
             /\ \/ UNCHANGED <<sources, lastSource>>
                \/ /\ sources' = sources \cup {Row(lastSource + 1, w)}
                   /\ lastSource' = lastSource + 1
             /\ \/ UNCHANGED <<got, todo>>
                \/ \E s \in sources' : /\ got' = [got EXCEPT ![b] = @ \cup {s}]
                                       /\ todo' = [todo EXCEPT ![b] = @ \cup {s}]
        BY <1>5, PersistEffect
    <2>2. Row(lastSource + 1, w) \in SourceRow
        BY RowType
    <2>3. sources' \subseteq SourceRow /\ lastSource' \in Nat
        BY <2>1, <2>2
    <2>4. got' \in [Branches -> SUBSET SourceRow] /\ todo' \in [Branches -> SUBSET SourceRow]
        BY <2>1, <2>3
    <2>5. left' \in [Branches -> SUBSET Works]
        BY <2>1
    <2>6. failed' \in 0 .. MaxFaults
        BY <1>5, FailsType DEF Persist
    <2> QED BY <1>5, <2>3, <2>4, <2>5, <2>6 DEF Persist
<1>6. ASSUME NEW b \in Branches, AddChunks(b) PROVE EvTypeOK'
    <2>1. PICK s \in SourceRow :
             /\ todo' = [todo EXCEPT ![b] = @ \ {s}]
             /\ \/ UNCHANGED <<chunks, lastChunk, bare>>
                \/ /\ chunks' = chunks \cup {ChunkOf(lastChunk + 1, s)}
                   /\ lastChunk' = lastChunk + 1
                   /\ bare' = [bare EXCEPT ![b] = {ChunkOf(lastChunk + 1, s)}]
        BY <1>6, AddChunksEffect
    <2>2. ChunkOf(lastChunk + 1, s) \in ChunkRow
        <3>1. lastChunk + 1 \in Nat
            OBVIOUS
        <3> HIDE DEF EvTypeOK
        <3> QED BY <3>1, ChunkType
    <2>3. chunks' \subseteq ChunkRow /\ lastChunk' \in Nat
        BY <2>1, <2>2
    <2>4. bare' \in [Branches -> SUBSET ChunkRow]
        BY <2>1, <2>2
    <2>5. todo' \in [Branches -> SUBSET SourceRow]
        BY <2>1
    <2>6. failed' \in 0 .. MaxFaults
        BY <1>6, FailsType DEF AddChunks
    <2> QED BY <1>6, <2>3, <2>4, <2>5, <2>6 DEF AddChunks
<1>7. ASSUME NEW b \in Branches, AddVectors(b) PROVE EvTypeOK'
    <2>1. PICK c \in ChunkRow : vectors' = vectors \cup {VectorOf(c)} \/ UNCHANGED vectors
        BY <1>7, AddVectorsEffect
    <2>2. vectors' \subseteq VectorRow
        BY <2>1, VectorType
    <2>3. failed' \in 0 .. MaxFaults
        BY <1>7, FailsType DEF AddVectors
    <2> QED BY <1>7, <2>2, <2>3 DEF AddVectors
<1>8. ASSUME NEW b \in Branches, Indexed(b) PROVE EvTypeOK'
    BY <1>8 DEF Indexed, tables
<1>9. CASE Return
    <2>1. candidates' \subseteq Nat
        <3> DEFINE all == UNION {got[b] : b \in Branches}
        <3>1. all \subseteq SourceRow
            OBVIOUS
        <3>2. candidates' = candidates \cup {s.id : s \in all}
            BY <1>9 DEF Return
        <3>3. \A s \in SourceRow : s.id \in Nat
            BY DEF SourceRow
        <3> HIDE DEF all
        <3> QED BY <3>1, <3>2, <3>3
    <2>2. passes' \in 0 .. MaxPasses
        BY <1>9, EvidenceAssumption DEF Return
    <2> QED BY <1>9, <2>1, <2>2 DEF Return, Rest, tables
<1>10. CASE CutNode
    BY <1>10, EvidenceAssumption DEF CutNode, Rest, NoAsk, Runs, tables
<1>11. ASSUME NEW r \in Runs, AskRun(r) PROVE EvTypeOK'
    <2>1. PICK near \in Upto(vectors) : ask' = [NoAsk EXCEPT !.at = "filter", !.run = r, !.near = near]
        BY <1>11 DEF AskRun
    <2>2. near \in SUBSET VectorRow
        BY DEF Upto
    <2>3. asked' \in 0 .. MaxAsks
        BY <1>11, EvidenceAssumption DEF AskRun
    <2> QED BY <1>11, <2>1, <2>2, <2>3 DEF AskRun, NoAsk, tables, nodeVars
<1>12. ASSUME NEW r \in Runs, Delete(r) PROVE EvTypeOK'
    BY <1>12 DEF Delete, nodeVars
<1>13. CASE Filter
    <2>1. {v.chunk : v \in Scoped(ask.near)} \in SUBSET Nat
        BY DEF Scoped, VectorRow
    <2> QED BY <1>13, <2>1 DEF Filter, tables, nodeVars
<1>14. CASE Words
    <2>1. PICK lexical \in SUBSET {c.id : c \in chunks} :
              ask' = [ask EXCEPT !.at = "fetch", !.ids = @ \cup lexical]
        <3> DEFINE own == {d \in chunks : \E s \in SourcesOf(ask.run) : s.id = d.source}
        <3>1. own \subseteq chunks
            OBVIOUS
        <3>2. PICK lexical \in Upto({c.id : c \in own}) :
                  ask' = [ask EXCEPT !.at = "fetch", !.ids = @ \cup lexical]
            BY <1>14 DEF Words
        <3> HIDE DEF own
        <3>3. lexical \subseteq {c.id : c \in chunks}
            BY <3>1 DEF Upto
        <3> QED BY <3>2, <3>3
    <2>2. lexical \in SUBSET Nat
        BY DEF ChunkRow
    <2> QED BY <1>14, <2>1, <2>2 DEF Words, tables, nodeVars
<1>15. CASE Fetch
    <2>1. PICK top : ask' = [ask EXCEPT !.at = "answer", !.ids = {}, !.shown = Chunk(top)]
        BY <1>15 DEF Fetch
    <2>2. Chunk(top) \in SUBSET ChunkRow
        BY DEF Chunk
    <2> QED BY <1>15, <2>1, <2>2 DEF Fetch, tables, nodeVars
<1>16. CASE Answer
    <2>1. {c.source : c \in ask.shown} \in SUBSET Nat
        BY DEF ChunkRow
    <2>2. asks' \subseteq [run : Runs, references : SUBSET Nat]
        BY <1>16, <2>1 DEF Answer
    <2>3. failed' \in 0 .. MaxFaults
        BY <1>16, FailsType DEF Answer
    <2>4. ask' \in [at : {"idle", "filter", "words", "fetch", "answer"}, run : Runs,
                    near : SUBSET VectorRow, ids : SUBSET Nat, shown : SUBSET ChunkRow]
        BY <1>16 DEF Answer, NoAsk, Runs
    <2> QED BY <1>16, <2>2, <2>3, <2>4 DEF Answer, tables, nodeVars
<1>17. CASE UNCHANGED evVars
    BY <1>17 DEF evVars, tables, nodeVars
<1> QED BY <1>1, <1>2, <1>3, <1>4, <1>5, <1>6, <1>7, <1>8, <1>9, <1>10, <1>11, <1>12, <1>13,
           <1>14, <1>15, <1>16, <1>17 DEF EvNext

-----------------------------------------------------------------------------
(***************************************************************************)
(* The tables                                                              *)
(***************************************************************************)
\* Only storing, indexing and deleting change the tables.
LEMMA TablesChange ==
    ASSUME [EvNext]_evVars
    PROVE \/ \E b \in Branches : Persist(b) \/ AddChunks(b) \/ AddVectors(b)
          \/ \E r \in Runs : Delete(r)
          \/ /\ UNCHANGED tables
             /\ UNCHANGED bare \/ bare' = [b \in Branches |-> {}]
<1>1. ASSUME NEW t \in Questions, Search(t) \/ SearchFails(t) \/ RecordQuery(t)
      PROVE UNCHANGED <<tables, bare>>
    BY <1>1 DEF Search, SearchFails, RecordQuery
<1>2. FollowCitations => UNCHANGED <<tables, bare>>
    BY DEF FollowCitations
<1>3. ASSUME NEW b \in Branches, Indexed(b) PROVE UNCHANGED <<tables, bare>>
    BY <1>3 DEF Indexed
<1>4. Return \/ CutNode => UNCHANGED tables /\ (UNCHANGED bare \/ bare' = [b \in Branches |-> {}])
    BY DEF Return, CutNode, Rest
<1>5. ASSUME NEW r \in Runs, AskRun(r) PROVE UNCHANGED <<tables, bare>>
    BY <1>5 DEF AskRun, nodeVars
<1>6. Filter \/ Words \/ Fetch \/ Answer => UNCHANGED <<tables, bare>>
    BY DEF Filter, Words, Fetch, Answer, nodeVars
<1>7. UNCHANGED evVars => UNCHANGED <<tables, bare>>
    BY DEF evVars, nodeVars
<1> QED BY <1>1, <1>2, <1>3, <1>4, <1>5, <1>6, <1>7 DEF EvNext

\* The rows of the older run.
LEMMA TablesInit == EvInit => Ids /\ Owned /\ Fit
<1> SUFFICES ASSUME EvInit PROVE Ids /\ Owned /\ Fit
    OBVIOUS
<1> DEFINE w == CHOOSE w \in Works : TRUE
           text == [run |-> Older, work |-> w]
<1>1. /\ sources = {[id |-> 1, run |-> Older, work |-> w]}
      /\ chunks = {[id |-> 1, source |-> 1, text |-> text]}
      /\ vectors = {[chunk |-> 1, source |-> 1, text |-> text]}
      /\ lastSource = 1 /\ lastChunk = 1
      /\ bare = [b \in Branches |-> {}]
    BY DEF EvInit
<1>2. text.run = Older
    OBVIOUS
<1> HIDE DEF w, text
<1> QED BY <1>1, <1>2 DEF Ids, Owned, Fit, VectorsFit

\* Ids are given once.
LEMMA IdsStep == EvTypeOK /\ Ids /\ [EvNext]_evVars => Ids'
<1> SUFFICES ASSUME EvTypeOK, Ids, [EvNext]_evVars PROVE Ids'
    OBVIOUS
<1>0. /\ lastSource \in Nat /\ lastChunk \in Nat
      /\ \A s \in sources : s.id \in Nat
      /\ \A c \in chunks : c.id \in Nat /\ c.source \in Nat
      /\ \A v \in vectors : v.chunk \in Nat
      /\ bare \in [Branches -> SUBSET ChunkRow]
      /\ \A c \in ChunkRow : c.id \in Nat
    BY DEF EvTypeOK, SourceRow, ChunkRow, VectorRow
<1>1. ASSUME NEW b \in Branches, Persist(b) PROVE Ids'
    <2>1. PICK w \in Works :
             \/ UNCHANGED <<sources, lastSource>>
             \/ /\ sources' = sources \cup {Row(lastSource + 1, w)}
                /\ lastSource' = lastSource + 1
        BY <1>1, PersistEffect
    <2>2. UNCHANGED <<chunks, vectors, lastChunk, bare>>
        BY <1>1 DEF Persist
    <2>3. lastSource + 1 \in Nat
        BY <1>0
    <2>4. Row(lastSource + 1, w).id = lastSource + 1
        BY <2>3, RowType
    <2> QED BY <2>1, <2>2, <2>4, <1>0 DEF Ids
<1>2. ASSUME NEW b \in Branches, AddChunks(b) PROVE Ids'
    <2>1. PICK s \in SourceRow :
             \/ UNCHANGED <<chunks, lastChunk, bare>>
             \/ /\ s \in sources
                /\ chunks' = chunks \cup {ChunkOf(lastChunk + 1, s)}
                /\ lastChunk' = lastChunk + 1
                /\ bare' = [bare EXCEPT ![b] = {ChunkOf(lastChunk + 1, s)}]
        BY <1>2, AddChunksEffect
    <2>2. UNCHANGED <<sources, vectors, lastSource>>
        BY <1>2 DEF AddChunks
    <2>3. lastChunk + 1 \in Nat
        BY <1>0
    <2>4. ChunkOf(lastChunk + 1, s).id = lastChunk + 1 /\ ChunkOf(lastChunk + 1, s).source = s.id
        BY <2>3, ChunkType
    <2> QED BY <2>1, <2>2, <2>4, <1>0 DEF Ids
<1>3. ASSUME NEW b \in Branches, AddVectors(b) PROVE Ids'
    <2>1. PICK c \in bare[b] : /\ c \in ChunkRow
                               /\ vectors' = vectors \cup {VectorOf(c)} \/ UNCHANGED vectors
        BY <1>3, AddVectorsEffect
    <2>2. UNCHANGED <<sources, chunks, lastSource, lastChunk>> /\ bare' = [bare EXCEPT ![b] = {}]
        BY <1>3 DEF AddVectors
    <2>3. VectorOf(c).chunk = c.id
        BY <2>1, VectorType
    <2> QED BY <2>1, <2>2, <2>3, <1>0 DEF Ids
<1>4. ASSUME NEW r \in Runs, Delete(r) PROVE Ids'
    <2>1. /\ sources' \subseteq sources /\ chunks' \subseteq chunks
          /\ UNCHANGED <<vectors, lastSource, lastChunk, bare>>
        BY <1>4 DEF Delete, nodeVars
    <2> QED BY <2>1 DEF Ids
<1>5. CASE UNCHANGED tables /\ (UNCHANGED bare \/ bare' = [b \in Branches |-> {}])
    BY <1>5 DEF Ids, tables
<1> QED BY <1>1, <1>2, <1>3, <1>4, <1>5, TablesChange

\* Chunks have their source.
LEMMA OwnedStep == EvTypeOK /\ Ids /\ Owned /\ [EvNext]_evVars => Owned'
<1> SUFFICES ASSUME EvTypeOK, Ids, Owned, [EvNext]_evVars PROVE Owned'
    OBVIOUS
<1>0. /\ lastSource \in Nat /\ lastChunk \in Nat
      /\ \A c \in chunks : c.source \in Nat /\ c.source <= lastSource
    BY DEF EvTypeOK, ChunkRow, Ids
<1>1. ASSUME NEW b \in Branches, Persist(b) PROVE Owned'
    <2>1. PICK w \in Works :
             \/ UNCHANGED sources
             \/ sources' = sources \cup {Row(lastSource + 1, w)}
        BY <1>1, PersistEffect
    <2>2. UNCHANGED chunks
        BY <1>1 DEF Persist
    <2>3. lastSource + 1 \in Nat
        BY <1>0
    <2>4. Row(lastSource + 1, w).id = lastSource + 1
        BY <2>3, RowType
    <2> QED BY <2>1, <2>2, <2>4, <1>0 DEF Owned
<1>2. ASSUME NEW b \in Branches, AddChunks(b) PROVE Owned'
    <2>1. PICK s \in SourceRow :
             \/ UNCHANGED chunks
             \/ s \in sources /\ chunks' = chunks \cup {ChunkOf(lastChunk + 1, s)}
        BY <1>2, AddChunksEffect
    <2>2. UNCHANGED sources
        BY <1>2 DEF AddChunks
    <2>3. lastChunk + 1 \in Nat
        BY <1>0
    <2>4. /\ ChunkOf(lastChunk + 1, s).source = s.id
          /\ ChunkOf(lastChunk + 1, s).text.run = s.run
        BY <2>3, ChunkType
    <2> QED BY <2>1, <2>2, <2>4 DEF Owned, Ids
<1>3. ASSUME NEW b \in Branches, AddVectors(b) PROVE Owned'
    BY <1>3 DEF AddVectors, Owned
<1>4. ASSUME NEW r \in Runs, Delete(r) PROVE Owned'
    <2>1. /\ sources' = {s \in sources : s.run # r}
          /\ chunks' = {c \in chunks : \A s \in sources : s.run = r => c.source # s.id}
        BY <1>4 DEF Delete, SourcesOf
    <2> QED BY <2>1 DEF Owned
<1>5. CASE UNCHANGED tables
    BY <1>5 DEF Owned, tables
<1> QED BY <1>1, <1>2, <1>3, <1>4, <1>5, TablesChange

\* A vector comes from the chunk of its id, and no other chunk gets that id.
LEMMA FitStep == EvTypeOK /\ Ids /\ Fit /\ [EvNext]_evVars => Fit'
<1> SUFFICES ASSUME EvTypeOK, Ids, Fit, [EvNext]_evVars PROVE Fit'
    OBVIOUS
<1>0. /\ lastChunk \in Nat
      /\ \A c \in chunks : c.id \in Nat /\ c.id <= lastChunk
      /\ \A v \in vectors : v.chunk \in Nat /\ v.chunk <= lastChunk
      /\ bare \in [Branches -> SUBSET ChunkRow]
      /\ \A b \in Branches : \A c \in bare[b] : c.id \in Nat /\ c.id <= lastChunk
    BY DEF EvTypeOK, ChunkRow, VectorRow, Ids
<1>1. ASSUME NEW b \in Branches, Persist(b) PROVE Fit'
    BY <1>1 DEF Persist, Fit, VectorsFit
<1>2. ASSUME NEW b \in Branches, AddChunks(b) PROVE Fit'
    <2>1. PICK s \in SourceRow :
             \/ UNCHANGED <<chunks, bare>>
             \/ /\ chunks' = chunks \cup {ChunkOf(lastChunk + 1, s)}
                /\ bare' = [bare EXCEPT ![b] = {ChunkOf(lastChunk + 1, s)}]
        BY <1>2, AddChunksEffect
    <2>2. UNCHANGED vectors
        BY <1>2 DEF AddChunks
    <2>3. lastChunk + 1 \in Nat
        BY <1>0
    <2>4. ChunkOf(lastChunk + 1, s).id = lastChunk + 1
        BY <2>3, ChunkType
    <2>5. VectorsFit'
        BY <2>1, <2>2, <2>4, <1>0 DEF Fit, VectorsFit
    <2>6. \A a \in Branches : \A c \in bare'[a] : \A d \in chunks' : d.id = c.id => d = c
        BY <2>1, <2>4, <1>0 DEF Fit
    <2> QED BY <2>5, <2>6 DEF Fit
<1>3. ASSUME NEW b \in Branches, AddVectors(b) PROVE Fit'
    <2>1. PICK c \in bare[b] : /\ c \in ChunkRow
                               /\ vectors' = vectors \cup {VectorOf(c)} \/ UNCHANGED vectors
        BY <1>3, AddVectorsEffect
    <2>2. UNCHANGED chunks /\ bare' = [bare EXCEPT ![b] = {}]
        BY <1>3 DEF AddVectors
    <2>3. VectorOf(c).chunk = c.id /\ VectorOf(c).source = c.source /\ VectorOf(c).text = c.text
        BY <2>1, VectorType
    <2>4. \A d \in chunks : d.id = c.id => d = c
        BY DEF Fit
    <2>5. VectorsFit'
        BY <2>1, <2>2, <2>3, <2>4 DEF Fit, VectorsFit
    <2> QED BY <2>2, <2>5, <1>0 DEF Fit
<1>4. ASSUME NEW r \in Runs, Delete(r) PROVE Fit'
    <2>1. chunks' \subseteq chunks /\ UNCHANGED <<vectors, bare>>
        BY <1>4 DEF Delete, nodeVars
    <2> QED BY <2>1 DEF Fit, VectorsFit
<1>5. CASE UNCHANGED tables /\ (UNCHANGED bare \/ bare' = [b \in Branches |-> {}])
    BY <1>5 DEF Fit, VectorsFit, tables
<1> QED BY <1>1, <1>2, <1>3, <1>4, <1>5, TablesChange

-----------------------------------------------------------------------------
(***************************************************************************)
(* Questions                                                               *)
(***************************************************************************)
\* No question is asked at first.
LEMMA AskingInit == EvInit => Asking
BY DEF EvInit, Asking, NoAsk, AnswersOwnRun

\* A question that is over, or begins, holds nothing but vectors.
LEMMA AskingFresh ==
    ASSUME ask'.near \subseteq vectors', ask'.ids = {}, ask'.shown = {},
           \A a \in asks' : a.references \subseteq {s.id : s \in SourcesOf(a.run)}'
    PROVE Asking'
BY DEF Asking, AnswersOwnRun

\* No step of another actor takes from a question what it holds.
LEMMA AskingStep == EvTypeOK /\ Ids /\ Owned /\ Fit /\ Asking /\ [EvNext]_evVars => Asking'
<1> SUFFICES ASSUME EvTypeOK, Ids, Owned, Fit, Asking, [EvNext]_evVars PROVE Asking'
    OBVIOUS
<1>0. /\ lastChunk \in Nat
      /\ \A i \in ask.ids : i \in Nat /\ i <= lastChunk
      /\ \A c \in chunks : c.id \in Nat /\ c.id <= lastChunk
    BY DEF EvTypeOK, ChunkRow, Ids, Asking
<1>1. ASSUME NEW b \in Branches, Persist(b) PROVE Asking'
    <2>1. sources \subseteq sources' /\ UNCHANGED <<projects, chunks, vectors, lastChunk, asks, ask>>
        BY <1>1, PersistEffect DEF Persist
    <2> QED BY <2>1 DEF Asking, AnswersOwnRun, SourcesOf
<1>2. ASSUME NEW b \in Branches, AddChunks(b) PROVE Asking'
    <2>1. PICK s \in SourceRow :
             \/ UNCHANGED <<chunks, lastChunk>>
             \/ /\ chunks' = chunks \cup {ChunkOf(lastChunk + 1, s)}
                /\ lastChunk' = lastChunk + 1
        BY <1>2, AddChunksEffect
    <2>2. UNCHANGED <<projects, sources, vectors, asks, ask>>
        BY <1>2 DEF AddChunks
    <2>3. lastChunk + 1 \in Nat
        BY <1>0
    <2>4. ChunkOf(lastChunk + 1, s).id = lastChunk + 1
        BY <2>3, ChunkType
    <2>5. /\ \A i \in ask.ids : i <= lastChunk'
          /\ \A c \in chunks' : c.id \in ask.ids => c \in chunks
        BY <2>1, <2>4, <1>0
    <2>6. AnswersOwnRun'
        BY <2>2 DEF Asking, AnswersOwnRun, SourcesOf
    <2> QED BY <2>2, <2>5, <2>6 DEF Asking
<1>3. ASSUME NEW b \in Branches, AddVectors(b) PROVE Asking'
    <2>1. /\ vectors \subseteq vectors'
          /\ UNCHANGED <<projects, sources, chunks, lastChunk, asks, ask>>
        BY <1>3 DEF AddVectors
    <2> QED BY <2>1 DEF Asking, AnswersOwnRun, SourcesOf
<1>4. ASSUME NEW r \in Runs, Delete(r) PROVE Asking'
    <2>1. /\ projects' = projects \ {r}
          /\ sources' = {s \in sources : s.run # r}
          /\ chunks' \subseteq chunks
          /\ asks' = {a \in asks : a.run # r}
          /\ UNCHANGED <<vectors, lastChunk, ask>>
        BY <1>4 DEF Delete, SourcesOf
    <2>2. AnswersOwnRun'
        BY <2>1 DEF Asking, AnswersOwnRun, SourcesOf
    <2>3. ask.run \in projects' => \A c \in ask.shown : \E s \in sources' : s.run = ask.run /\ s.id = c.source
        BY <2>1 DEF Asking
    <2> QED BY <2>1, <2>2, <2>3 DEF Asking
<1>5. ASSUME NEW r \in Runs, AskRun(r) PROVE Asking'
    <2>1. PICK near \in Upto(vectors) : ask' = [NoAsk EXCEPT !.at = "filter", !.run = r, !.near = near]
        BY <1>5 DEF AskRun
    <2>2. near \subseteq vectors /\ UNCHANGED <<sources, vectors, asks>>
        BY <1>5 DEF AskRun, Upto, tables
    <2> QED BY <2>1, <2>2, AskingFresh DEF NoAsk, Asking, AnswersOwnRun, SourcesOf
<1>6. CASE Filter
    <2>1. /\ ask' = [ask EXCEPT !.at = "words", !.near = {}, !.ids = {v.chunk : v \in Scoped(ask.near)}]
          /\ UNCHANGED <<projects, sources, chunks, vectors, lastChunk, asks>>
        BY <1>6 DEF Filter, tables
    <2>2. /\ ask'.run = ask.run /\ ask'.shown = ask.shown /\ ask'.near = {}
          /\ ask'.ids = {v.chunk : v \in Scoped(ask.near)}
        BY <2>1 DEF EvTypeOK
    <2>3. \A i \in ask'.ids : i <= lastChunk
        BY <2>2 DEF Scoped, Asking, Ids
    <2>4. ASSUME NEW c \in chunks, c.id \in ask'.ids PROVE c.text.run = ask.run
        <3>1. PICK v \in vectors : v.chunk = c.id /\ \E s \in sources : s.run = ask.run /\ s.id = v.source
            BY <2>2, <2>4 DEF Scoped, SourcesOf, Asking
        <3>2. v.source = c.source
            BY <3>1 DEF Fit, VectorsFit
        <3> QED BY <3>1, <3>2 DEF Owned
    <2> QED BY <2>1, <2>2, <2>3, <2>4 DEF Asking, AnswersOwnRun, SourcesOf
<1>7. CASE Words
    <2>1. PICK lexical : /\ lexical \subseteq {c.id : c \in {d \in chunks : \E s \in SourcesOf(ask.run) : s.id = d.source}}
                         /\ ask' = [ask EXCEPT !.at = "fetch", !.ids = @ \cup lexical]
        BY <1>7 DEF Words, Upto
    <2>2. UNCHANGED <<projects, sources, chunks, vectors, lastChunk, asks>>
        BY <1>7 DEF Words, tables
    <2>3. /\ ask'.run = ask.run /\ ask'.shown = ask.shown /\ ask'.near = ask.near
          /\ ask'.ids = ask.ids \cup lexical
        BY <2>1 DEF EvTypeOK
    <2>4. ASSUME NEW i \in lexical
          PROVE \E d \in chunks : d.id = i /\ d.text.run = ask.run
        BY <2>1 DEF SourcesOf, Owned
    <2>5. \A i \in ask'.ids : i <= lastChunk
        BY <2>3, <2>4, <1>0
    <2>6. \A c \in chunks : c.id \in ask'.ids => c.text.run = ask.run
        BY <2>3, <2>4 DEF Asking, Ids
    <2> QED BY <2>2, <2>3, <2>5, <2>6 DEF Asking, AnswersOwnRun, SourcesOf
<1>8. CASE Fetch
    <2>1. PICK top \in Upto(ask.ids) : ask' = [ask EXCEPT !.at = "answer", !.ids = {}, !.shown = Chunk(top)]
        BY <1>8 DEF Fetch
    <2>2. UNCHANGED <<projects, sources, chunks, vectors, lastChunk, asks>>
        BY <1>8 DEF Fetch, tables
    <2>3. ask'.run = ask.run /\ ask'.shown = Chunk(top) /\ ask'.near = ask.near /\ ask'.ids = {}
        BY <2>1 DEF EvTypeOK
    <2>4. \A c \in ask'.shown : c \in chunks /\ c.text.run = ask.run
        BY <2>3 DEF Chunk, Upto, Asking
    <2>5. \A c \in ask'.shown : \E s \in sources : s.run = ask.run /\ s.id = c.source
        BY <2>4 DEF Owned
    <2> QED BY <2>2, <2>3, <2>4, <2>5 DEF Asking, AnswersOwnRun, SourcesOf
<1>9. CASE Answer
    <2>1. ask' = NoAsk /\ UNCHANGED <<projects, sources>>
        BY <1>9 DEF Answer, tables
    <2>2. ASSUME NEW a \in asks' PROVE a.references \subseteq {s.id : s \in SourcesOf(a.run)}
        <3>1. CASE a \in asks
            BY <3>1 DEF Asking, AnswersOwnRun
        <3>2. CASE a \notin asks
            <4>1. PICK refs \in {{}, {c.source : c \in ask.shown}} : a = [run |-> ask.run, references |-> refs]
                BY <1>9, <3>2 DEF Answer
            <4>2. ask.run \in projects
                BY <1>9, <3>2 DEF Answer, Stores
            <4> QED BY <4>1, <4>2 DEF Asking, SourcesOf
        <3> QED BY <3>1, <3>2
    <2> QED BY <2>1, <2>2, AskingFresh DEF NoAsk, SourcesOf
<1>10. CASE CutNode
    <2>1. ask' = NoAsk /\ UNCHANGED <<sources, asks>>
        BY <1>10 DEF CutNode, tables
    <2> QED BY <2>1, AskingFresh DEF NoAsk, Asking, AnswersOwnRun, SourcesOf
<1>11. CASE UNCHANGED <<tables, asks, ask>>
    BY <1>11 DEF tables, Asking, AnswersOwnRun, SourcesOf
<1>12. ASSUME NEW t \in Questions, Search(t) \/ SearchFails(t) \/ RecordQuery(t)
       PROVE UNCHANGED <<tables, asks, ask>>
    BY <1>12 DEF Search, SearchFails, RecordQuery
<1>13. FollowCitations \/ Return => UNCHANGED <<tables, asks, ask>>
    BY DEF FollowCitations, Return
<1>14. ASSUME NEW b \in Branches, Indexed(b) PROVE UNCHANGED <<tables, asks, ask>>
    BY <1>14 DEF Indexed
<1>15. UNCHANGED evVars => UNCHANGED <<tables, asks, ask>>
    BY DEF evVars
<1> QED BY <1>1, <1>2, <1>3, <1>4, <1>5, <1>6, <1>7, <1>8, <1>9, <1>10, <1>11, <1>12, <1>13,
           <1>14, <1>15 DEF EvNext

-----------------------------------------------------------------------------
(***************************************************************************)
(* Candidates and the trail                                                *)
(***************************************************************************)
\* A work gets one row, and branches hold rows.
LEMMA KeptStep == EvTypeOK /\ Kept /\ [EvNext]_evVars => Kept'
<1> SUFFICES ASSUME EvTypeOK, Kept, [EvNext]_evVars PROVE Kept'
    OBVIOUS
<1>0. /\ got \in [Branches -> SUBSET SourceRow]
      /\ lastSource + 1 \in Nat
    BY DEF EvTypeOK
<1>1. ASSUME NEW b \in Branches, Persist(b) PROVE Kept'
    <2>1. PICK w \in Works :
             /\ \/ UNCHANGED sources
                \/ /\ \A s \in sources : s.run = Run => s.work # w
                   /\ sources' = sources \cup {Row(lastSource + 1, w)}
             /\ \/ UNCHANGED got
                \/ \E s \in sources' : s.run = Run /\ got' = [got EXCEPT ![b] = @ \cup {s}]
        BY <1>1, PersistEffect
    <2>2. UNCHANGED <<projects, candidates>>
        BY <1>1 DEF Persist
    <2>3. Row(lastSource + 1, w).run = Run /\ Row(lastSource + 1, w).work = w
        BY <1>0, RowType
    <2>4. sources \subseteq sources'
        BY <2>1
    <2>5. \A s, t \in sources' : s.run = t.run /\ s.work = t.work => s = t
        BY <2>1, <2>3 DEF Kept, CandidatesHaveRows
    <2>6. Run \in projects => candidates \subseteq {s.id : s \in {t \in sources' : t.run = Run}}
        BY <2>4 DEF Kept, CandidatesHaveRows, SourcesOf
    <2>7. Run \in projects => \A a \in Branches : got'[a] \subseteq {t \in sources' : t.run = Run}
        BY <2>1, <2>4, <1>0 DEF Kept, SourcesOf
    <2> QED BY <2>2, <2>5, <2>6, <2>7 DEF Kept, CandidatesHaveRows, SourcesOf
<1>2. CASE Return
    <2> DEFINE all == UNION {got[b] : b \in Branches}
    <2>1. UNCHANGED <<projects, sources>> /\ candidates' = candidates \cup {s.id : s \in all}
        BY <1>2 DEF Return, tables
    <2>2. Run \in projects => all \subseteq SourcesOf(Run)
        BY DEF Kept
    <2>3. UNCHANGED got \/ got' = [b \in Branches |-> {}]
        BY <1>2 DEF Return, Rest
    <2> HIDE DEF all
    <2> QED BY <2>1, <2>2, <2>3 DEF Kept, CandidatesHaveRows, SourcesOf
<1>3. ASSUME NEW r \in Runs, Delete(r) PROVE Kept'
    <2>1. /\ projects' = projects \ {r}
          /\ sources' = {s \in sources : s.run # r}
          /\ UNCHANGED <<candidates, got>>
        BY <1>3 DEF Delete, SourcesOf, nodeVars
    <2> QED BY <2>1 DEF Kept, CandidatesHaveRows, SourcesOf
<1>4. CASE CutNode
    <2>1. UNCHANGED <<projects, sources, candidates>> /\ got' = [b \in Branches |-> {}]
        BY <1>4 DEF CutNode, Rest, tables
    <2> QED BY <2>1 DEF Kept, CandidatesHaveRows, SourcesOf
<1>5. CASE UNCHANGED <<projects, sources, candidates, got>>
    BY <1>5 DEF Kept, CandidatesHaveRows, SourcesOf
<1>6. ASSUME NEW t \in Questions, Search(t) \/ SearchFails(t) \/ RecordQuery(t)
      PROVE UNCHANGED <<projects, sources, candidates, got>>
    BY <1>6 DEF Search, SearchFails, RecordQuery, tables
<1>7. FollowCitations \/ Filter \/ Words \/ Fetch \/ Answer
          => UNCHANGED <<projects, sources, candidates, got>>
    BY DEF FollowCitations, Filter, Words, Fetch, Answer, tables, nodeVars
<1>8. ASSUME NEW b \in Branches, AddChunks(b) \/ AddVectors(b) \/ Indexed(b)
      PROVE UNCHANGED <<projects, sources, candidates, got>>
    BY <1>8 DEF AddChunks, AddVectors, Indexed, tables
<1>9. ASSUME NEW r \in Runs, AskRun(r) PROVE UNCHANGED <<projects, sources, candidates, got>>
    BY <1>9 DEF AskRun, tables, nodeVars
<1>10. UNCHANGED evVars => UNCHANGED <<projects, sources, candidates, got>>
    BY DEF evVars, tables, nodeVars
<1> QED BY <1>1, <1>2, <1>3, <1>4, <1>5, <1>6, <1>7, <1>8, <1>9, <1>10 DEF EvNext

\* A query is streamed with its row, and rows go with the project.
LEMMA TrailStep == TrailTold /\ [EvNext]_evVars => TrailTold'
<1> SUFFICES ASSUME TrailTold, [EvNext]_evVars PROVE TrailTold'
    OBVIOUS
<1> USE DEF TrailTold
<1>1. ASSUME NEW t \in Questions, RecordQuery(t) PROVE TrailTold'
    BY <1>1 DEF RecordQuery, tables
<1>2. ASSUME NEW r \in Runs, Delete(r) PROVE TrailTold'
    BY <1>2 DEF Delete
<1>3. CASE UNCHANGED <<projects, trail, told>>
    BY <1>3
<1>4. ASSUME NEW t \in Questions, Search(t) \/ SearchFails(t) PROVE UNCHANGED <<projects, trail, told>>
    BY <1>4 DEF Search, SearchFails, tables
<1>5. ASSUME NEW b \in Branches, Persist(b) \/ AddChunks(b) \/ AddVectors(b) \/ Indexed(b)
      PROVE UNCHANGED <<projects, trail, told>>
    BY <1>5 DEF Persist, AddChunks, AddVectors, Indexed, tables
<1>6. ASSUME NEW r \in Runs, AskRun(r) PROVE UNCHANGED <<projects, trail, told>>
    BY <1>6 DEF AskRun, tables
<1>7. FollowCitations \/ Return \/ CutNode \/ Filter \/ Words \/ Fetch \/ Answer
          => UNCHANGED <<projects, trail, told>>
    BY DEF FollowCitations, Return, CutNode, Filter, Words, Fetch, Answer, tables
<1>8. UNCHANGED evVars => UNCHANGED <<projects, trail, told>>
    BY DEF evVars, tables
<1> QED BY <1>1, <1>2, <1>3, <1>4, <1>5, <1>6, <1>7, <1>8 DEF EvNext

-----------------------------------------------------------------------------
\* The inductive invariant.
LEMMA Inductive == EvSpec => []EvInv
<1>1. EvInit => EvInv
    <2> SUFFICES ASSUME EvInit PROVE EvInv
        OBVIOUS
    <2>1. Kept
        <3>1. \A s, t \in sources : s = t
            BY DEF EvInit
        <3>2. candidates = {} /\ got = [b \in Branches |-> {}]
            BY DEF EvInit
        <3> QED BY <3>1, <3>2 DEF Kept, CandidatesHaveRows
    <2>2. TrailTold
        BY DEF EvInit, TrailTold
    <2> QED BY <2>1, <2>2, TypeInit, TablesInit, AskingInit DEF EvInv
<1>2. EvInv /\ [EvNext]_evVars => EvInv'
    BY TypeStep, IdsStep, OwnedStep, FitStep, AskingStep, KeptStep, TrailStep DEF EvInv
<1> QED BY <1>1, <1>2, PTL DEF EvSpec

\* Rows, chunks, vectors and what the branches hold are of their kinds.
THEOREM EvidenceTypeCorrect == EvSpec => []EvTypeOK
<1>1. EvInv => EvTypeOK
    BY DEF EvInv
<1> QED BY <1>1, Inductive, PTL

\* A vector speaks of the chunk that has its id, though vectors are never deleted
\* and chunks are.
THEOREM VectorsFitHolds == EvSpec => []VectorsFit
<1>1. EvInv => VectorsFit
    BY DEF EvInv, Fit
<1> QED BY <1>1, Inductive, PTL

\* An answer is made of excerpts of its run and refers to sources that it has.
THEOREM AnswersOwnRunHolds == EvSpec => []AnswersOwnRun
<1>1. EvInv => AnswersOwnRun
    BY DEF EvInv, Asking
<1> QED BY <1>1, Inductive, PTL

\* A work is one source of its run, and candidates have rows.
THEOREM CandidatesHaveRowsHolds == EvSpec => []CandidatesHaveRows
<1>1. EvInv => CandidatesHaveRows
    BY DEF EvInv, Kept
<1> QED BY <1>1, Inductive, PTL

\* The streamed trail shows no query that the stored one misses.
THEOREM TrailToldHolds == EvSpec => []TrailTold
<1>1. EvInv => TrailTold
    BY DEF EvInv
<1> QED BY <1>1, Inductive, PTL

-----------------------------------------------------------------------------
(***************************************************************************)
(* Provider: what is asked of whom                                         *)
(***************************************************************************)
Targets == Providers \cup {"custom", "local", "larger"}
Ends == {"open", "complete", "failed"}
Req == [to : Targets, end : Ends, saw : BOOLEAN, told : Nat, counted : Nat]
Page == [at : {"closed", "probing", "shown"}, keys : SUBSET Providers,
         mode : PageModes, model : PageModes]

-----------------------------------------------------------------------------
(***************************************************************************)
(* Which model                                                             *)
(***************************************************************************)
LEMMA Least ==
  ASSUME NEW S, S \subseteq Nat, S # {}
  PROVE  \E m \in S : \A k \in S : ~(k < m)
<1> DEFINE R == OpToRel(<, Nat)
<1>1. IsWellFoundedOn(R, Nat)
  BY NatLessThanWellFounded
<1>2. \A a, b \in Nat : a < b => <<a, b>> \in R
  BY DEF OpToRel
<1> HIDE DEF R
<1>3. PICK m \in S : \A k \in S : ~(<<k, m>> \in R)
  BY <1>1, WFMin
<1> QED
  BY <1>2, <1>3

\* With a key there is a first provider.
LEMMA FirstCloudExists ==
  ASSUME NEW keys \in SUBSET Providers, keys # {}
  PROVE  FirstCloud(keys) \in keys
<1> DEFINE S == {i \in DOMAIN Clouds : Clouds[i] \in keys}
           First(i) == /\ Clouds[i] \in keys
                       /\ \A j \in 1 .. i - 1 : Clouds[j] \notin keys
<1>1. DOMAIN Clouds = 1 .. Len(Clouds) /\ Len(Clouds) \in Nat
  BY ProviderAssumption
<1>2. S \subseteq Nat /\ S # {}
  BY <1>1 DEF Providers
<1> HIDE DEF S
<1>3. PICK m \in S : \A k \in S : ~(k < m)
  BY <1>2, Least
<1>4. m \in DOMAIN Clouds /\ First(m)
  <2>1. m \in 1 .. Len(Clouds) /\ Clouds[m] \in keys
    BY <1>1 DEF S
  <2>2. ASSUME NEW j \in 1 .. m - 1, Clouds[j] \in keys PROVE FALSE
    <3>1. j \in S /\ j < m
      BY <1>1, <2>1, <2>2 DEF S
    <3> QED
      BY <1>3, <3>1
  <2> QED
    BY <1>1, <2>1, <2>2
<1> HIDE DEF First
<1>5. First(CHOOSE i \in DOMAIN Clouds : First(i))
  BY <1>4
<1> QED
  BY <1>5 DEF First, FirstCloud

LEMMA DefaultIsTarget ==
  ASSUME NEW s \in Settings
  PROVE  Default(s) \in Providers \cup {"custom", "local"}
<1>1. s.keys # {} => FirstCloud(s.keys) \in Providers
  BY FirstCloudExists DEF Settings
<1>2. s.provider \in Providers
  BY DEF Settings
<1> QED
  BY <1>1, <1>2 DEF Default

LEMMA StatusIsMode ==
  ASSUME NEW s \in Settings, NEW keys \in SUBSET Providers, NEW models \in BOOLEAN
  PROVE  Status(s, keys, models) \in PageModes
<1>1. keys # {} => FirstCloud(keys) \in Providers
  BY FirstCloudExists
<1>2. s.provider \in Providers
  BY DEF Settings
<1> QED
  BY <1>1, <1>2 DEF Status, PageModes

LEMMA EscalatedIsTarget ==
  ASSUME NEW s \in Settings
  PROVE  Escalated(Default(s)) \subseteq Targets
BY DefaultIsTarget DEF Escalated, Targets

-----------------------------------------------------------------------------
(***************************************************************************)
(* Types                                                                   *)
(***************************************************************************)
\* LlmTypeOK without the list of requests, and the list.
Fields ==
    /\ settings \in Settings
    /\ listed \in BOOLEAN
    /\ how \in {"chat", "stream", "json"}
    /\ raw \in Targets \cup {"none"}
    /\ at \in {"idle", "ask", "first", "fallback", "second", "stream", "done", "cut"}
    /\ model \in Targets \cup {"none"}
    /\ again \in 0 .. JsonTries
    /\ out \in Seq({"token", "text"})
    /\ page \in Page
    /\ changes \in 0 .. MaxChanges
Listed == requests \in Seq(Req)

\* A call asks again only as long as it may; a stream is its first request.
Position ==
    /\ at = "idle" => again = 0 /\ requests = <<>>
    /\ at = "stream" => again = 0 /\ how = "stream" /\ Len(requests) = 1
    /\ at = "ask" => again < JsonTries
    /\ at \in {"first", "fallback", "second"} => again >= 1
    /\ at \in {"first", "second", "stream"} =>
          requests # <<>> /\ requests[Last].end = "open"

\* CountedAsTold, with what tells an estimate from a usage: nothing was seen of
\* one, and the stream is over.
Counts ==
    \A r \in 1 .. Len(requests) :
        /\ ~requests[r].saw => requests[r].told = 0
        /\ \/ requests[r].counted = requests[r].told
           \/ /\ requests[r].counted = 1 /\ ~requests[r].saw /\ requests[r].end = "complete"
              /\ how = "stream" /\ r = 1 /\ out # <<>> /\ at = "done"

IInv == Fields /\ Listed /\ Position /\ Counts

LEMMA TypesTogether == LlmTypeOK <=> Fields /\ Listed
BY DEF LlmTypeOK, Fields, Listed, Req, Ends, Page, Targets

LEMMA RequestTypes ==
  ASSUME Listed, NEW m \in Targets, Request(m)
  PROVE  /\ requests' \in Seq(Req)
         /\ Len(requests') = Len(requests) + 1
         /\ \A r \in 1 .. Len(requests) : requests'[r] = requests[r]
         /\ requests'[Len(requests) + 1] = [to |-> m, end |-> "open", saw |-> FALSE,
                                             told |-> 0, counted |-> 0]
         /\ model' = m
BY DEF Listed, Request, Req, Ends

\* A request with what it reports.
Told(p, end, usage, guess) ==
    [to |-> p.to, end |-> end, saw |-> p.saw \/ usage # "none",
     told |-> p.told + Readable(usage), counted |-> p.counted + Recorded(usage) + guess]

LEMMA ToldTypes ==
  ASSUME NEW p \in Req, NEW end \in Ends, NEW usage \in Usages, NEW guess \in {0, 1}
  PROVE  Told(p, end, usage, guess) \in Req
<1>1. Readable(usage) \in Nat /\ Recorded(usage) \in Nat
  BY DEF Readable, Recorded
<1>2. /\ p.to \in Targets /\ p.saw \in BOOLEAN
      /\ p.told \in Nat /\ p.counted \in Nat
  BY DEF Req
<1>3. /\ p.told + Readable(usage) \in Nat
      /\ p.counted + Recorded(usage) + guess \in Nat
  BY <1>1, <1>2
<1> QED
  BY <1>2, <1>3 DEF Told, Req

LEMMA ReportsTypes ==
  ASSUME Listed, requests # <<>>,
         NEW end \in Ends, NEW usage \in Usages, NEW guess \in {0, 1},
         Reports(end, usage, guess)
  PROVE  /\ requests' \in Seq(Req)
         /\ Len(requests') = Len(requests)
         /\ \A r \in 1 .. Len(requests) : r # Last => requests'[r] = requests[r]
         /\ Last \in 1 .. Len(requests)
         /\ requests[Last] \in Req
         /\ requests'[Last] = Told(requests[Last], end, usage, guess)
<1> DEFINE q == Told(requests[Last], end, usage, guess)
<1>1. Last \in 1 .. Len(requests) /\ requests[Last] \in Req
  BY DEF Listed, Last
<1>2. q \in Req
  BY <1>1, ToldTypes
<1>3. requests' = [requests EXCEPT ![Last] = q]
  BY <1>1 DEF Reports, Told, Listed
<1> HIDE DEF q
<1>4. /\ requests' \in Seq(Req)
      /\ Len(requests') = Len(requests)
      /\ \A r \in 1 .. Len(requests) : r # Last => requests'[r] = requests[r]
      /\ requests'[Last] = q
  BY <1>1, <1>2, <1>3 DEF Listed
<1> QED
  BY <1>1, <1>4 DEF q

LEMMA FinishTypes ==
  ASSUME Fields, NEW text \in BOOLEAN, Finish(text),
         again \in 1 .. JsonTries
  PROVE  /\ out' \in Seq({"token", "text"})
         /\ at' \in {"done", "ask"}
         /\ at' = "ask" => again < JsonTries
         /\ how # "stream" => out' = out
         /\ how = "stream" => at' = "done"
<1>1. out' \in Seq({"token", "text"}) /\ (how # "stream" => out' = out)
  BY DEF Fields, Finish
<1>2. PICK parsed \in (IF how = "json" THEN {FALSE, text} ELSE {TRUE}) :
         at' = IF parsed \/ again = JsonTries THEN "done" ELSE "ask"
  BY DEF Finish
<1>3. again < JsonTries \/ again = JsonTries
  BY ProviderAssumption
<1> QED
  BY <1>1, <1>2, <1>3

-----------------------------------------------------------------------------
(***************************************************************************)
(* The steps                                                               *)
(***************************************************************************)
LEMMA InitIInv == LlmInit => IInv
<1> SUFFICES ASSUME LlmInit PROVE IInv
  OBVIOUS
<1>1. settings \in Settings
  BY ProviderAssumption DEF LlmInit
<1>2. raw \in Targets \cup {"none"}
  BY <1>1, EscalatedIsTarget DEF LlmInit
<1>3. Fields
  BY <1>1, <1>2, ProviderAssumption DEF LlmInit, Fields, Page, PageModes
<1>4. requests = <<>> /\ Listed
  BY DEF LlmInit, Listed
<1>5. Position /\ Counts
  BY <1>4 DEF LlmInit, Position, Counts
<1> QED
  BY <1>3, <1>4, <1>5 DEF IInv

LEMMA ResolveIsTarget == Fields => Resolve \in Targets
BY DefaultIsTarget DEF Fields, Resolve, Targets

\* A request is sent.
LEMMA RequestKeeps ==
  ASSUME IInv, NEW m \in Targets, Request(m), Fields',
         at \notin {"done", "cut"}, UNCHANGED <<how, out>>,
         \/ at' \in {"first", "second"} /\ again' >= 1
         \/ at' = "stream" /\ again' = 0 /\ how = "stream" /\ requests = <<>>
  PROVE  IInv'
<1>1. /\ requests' \in Seq(Req)
      /\ Len(requests') = Len(requests) + 1
      /\ \A r \in 1 .. Len(requests) : requests'[r] = requests[r]
      /\ requests'[Len(requests) + 1] = [to |-> m, end |-> "open", saw |-> FALSE,
                                             told |-> 0, counted |-> 0]
  BY RequestTypes DEF IInv
<1>2. Len(requests) \in Nat
  BY DEF IInv, Listed
<1>3. Listed'
  BY <1>1 DEF Listed
<1>4. Position'
  <2>1. requests' # <<>> /\ requests'[Len(requests')].end = "open"
    BY <1>1, <1>2
  <2>2. requests = <<>> => Len(requests') = 1
    BY <1>1
  <2> QED
    BY <2>1, <2>2 DEF Position, Last
<1>5. Counts'
  <2> SUFFICES ASSUME NEW r \in 1 .. Len(requests')
               PROVE  /\ ~requests'[r].saw => requests'[r].told = 0
                      /\ requests'[r].counted = requests'[r].told
    BY DEF Counts
  <2>1. CASE r = Len(requests) + 1
    BY <1>1, <2>1
  <2>2. CASE r # Len(requests) + 1
    <3>1. r \in 1 .. Len(requests) /\ requests'[r] = requests[r]
      BY <1>1, <1>2, <2>2
    <3> QED
      BY <3>1 DEF IInv, Counts
  <2> QED
    BY <2>1, <2>2
<1> QED
  BY <1>3, <1>4, <1>5 DEF IInv

\* A request ends, or brings a usage.
LEMMA ReportsKeeps ==
  ASSUME IInv, NEW end \in Ends, NEW usage \in Usages, NEW guess \in {0, 1},
         Reports(end, usage, guess),
         Fields', at \in {"first", "second", "stream"}, UNCHANGED how,
         at' = "stream" => at = "stream" /\ again' = again /\ end = "open",
         at' \in {"stream", "ask", "fallback", "done"},
         at' = "ask" => again' < JsonTries,
         at' = "fallback" => again' >= 1,
         guess = 1 => /\ at = "stream" /\ at' = "done" /\ end = "complete" /\ usage = "none"
                      /\ ~requests[Last].saw /\ out' # <<>>
  PROVE  IInv'
<1>0. requests # <<>> /\ requests[Last].end = "open"
  BY DEF IInv, Position
<1>1. /\ requests' \in Seq(Req)
      /\ Len(requests') = Len(requests)
      /\ \A r \in 1 .. Len(requests) : r # Last => requests'[r] = requests[r]
      /\ Last \in 1 .. Len(requests)
      /\ requests[Last] \in Req
      /\ requests'[Last] = Told(requests[Last], end, usage, guess)
  BY <1>0, ReportsTypes DEF IInv
<1>2. Listed'
  BY <1>1 DEF Listed
<1>3. Position'
  <2>1. requests' # <<>> /\ Last' = Last
    BY <1>0, <1>1 DEF Last
  <2>2. requests'[Last].end = end
    BY <1>1 DEF Told
  <2> QED
    BY <1>1, <2>1, <2>2 DEF IInv, Position
<1>4. Counts'
  <2> SUFFICES ASSUME NEW r \in 1 .. Len(requests)
               PROVE  /\ ~requests'[r].saw => requests'[r].told = 0
                      /\ \/ requests'[r].counted = requests'[r].told
                         \/ /\ requests'[r].counted = 1 /\ ~requests'[r].saw
                            /\ requests'[r].end = "complete"
                            /\ how' = "stream" /\ r = 1 /\ out' # <<>> /\ at' = "done"
    BY <1>1 DEF Counts
  <2>1. CASE r = Last
    <3>1. /\ requests[Last].counted = requests[Last].told
          /\ ~requests[Last].saw => requests[Last].told = 0
      BY <1>0, <2>1 DEF IInv, Counts
    <3>2. /\ requests'[r].saw = (requests[Last].saw \/ usage # "none")
          /\ requests'[r].told = requests[Last].told + Readable(usage)
          /\ requests'[r].counted = requests[Last].counted + Recorded(usage) + guess
          /\ requests'[r].end = end
      BY <1>1, <2>1 DEF Told
    <3>3. /\ Readable(usage) = Recorded(usage) /\ Recorded(usage) \in Nat
          /\ usage = "none" => Recorded(usage) = 0
      BY DEF Readable, Recorded
    <3>4. requests[Last].told \in Nat
      BY <1>1 DEF Req
    <3>5. at = "stream" => how = "stream" /\ r = 1
      BY <2>1 DEF IInv, Position, Last
    <3>6. ~requests'[r].saw => requests'[r].told = 0
      <4>1. SUFFICES ASSUME ~requests'[r].saw PROVE requests'[r].told = 0
        OBVIOUS
      <4>2. ~requests[Last].saw /\ usage = "none"
        BY <3>2, <4>1
      <4> QED
        BY <3>1, <3>2, <3>3, <4>2
    <3>7. CASE guess = 0
      <4>1. requests'[r].counted = requests'[r].told
        BY <3>1, <3>2, <3>3, <3>4, <3>7
      <4> QED
        BY <3>6, <4>1
    <3>8. CASE guess = 1
      <4>1. /\ at = "stream" /\ at' = "done" /\ end = "complete" /\ usage = "none"
            /\ ~requests[Last].saw /\ out' # <<>>
        BY <3>8
      <4>2. requests'[r].counted = 1
        BY <3>1, <3>2, <3>3, <3>8, <4>1
      <4>3. ~requests'[r].saw
        BY <3>2, <4>1
      <4> QED
        BY <3>2, <3>5, <3>6, <4>1, <4>2, <4>3
    <3> QED
      BY <3>7, <3>8
  <2>2. CASE r # Last
    <3>1. requests'[r] = requests[r]
      BY <1>1, <2>2
    <3> QED
      BY <3>1 DEF IInv, Counts
  <2> QED
    BY <2>1, <2>2
<1> QED
  BY <1>2, <1>3, <1>4 DEF IInv

\* Nothing happens to the requests, and the call was not over.
LEMMA OthersKeep ==
  ASSUME IInv, Fields', Position', UNCHANGED <<requests, how>>,
         at # "done" \/ (at' = at /\ out' = out)
  PROVE  IInv'
<1>1. Listed'
  BY DEF IInv, Listed
<1>2. Counts'
  BY DEF IInv, Counts
<1> QED
  BY <1>1, <1>2 DEF IInv

LEMMA StepIInv == IInv /\ [LlmNext]_llmVars => IInv'
<1> SUFFICES ASSUME IInv, [LlmNext]_llmVars PROVE IInv'
  OBVIOUS
<1>0. Fields /\ Listed /\ Position
  BY DEF IInv
<1>a. JsonTries \in Nat \ {0} /\ again \in Nat
  BY <1>0, ProviderAssumption DEF Fields
<1>b. requests # <<>> => requests[Last] \in Req
  BY <1>0 DEF Listed, Last
<1>1. CASE Ask
  <2>1. again + 1 \in 0 .. JsonTries /\ again + 1 >= 1
    BY <1>0, <1>1, <1>a DEF Ask, Position
  <2>2. Fields'
    BY <1>0, <1>1, <2>1, ResolveIsTarget DEF Ask, Request, Fields
  <2> QED
    BY <1>0, <1>1, <2>1, <2>2, ResolveIsTarget, RequestKeeps DEF Ask
<1>2. CASE OpenStream
  <2>1. Fields'
    BY <1>0, <1>2, ResolveIsTarget DEF OpenStream, Request, Fields
  <2> QED
    BY <1>0, <1>2, <2>1, ResolveIsTarget, RequestKeeps DEF OpenStream, Position
<1>3. CASE Fallback
  <2>1. Fields' /\ "local" \in Targets
    BY <1>0, <1>3 DEF Fallback, Request, Fields, Targets
  <2> QED
    BY <1>0, <1>3, <2>1, RequestKeeps DEF Fallback, Position
<1>4. ASSUME FirstAnswers \/ SecondAnswers \/ FirstFails \/ SecondFails PROVE IInv'
  <2>1. at \in {"first", "second"} /\ again \in 1 .. JsonTries
    <3>1. at \in {"first", "second"}
      BY <1>4 DEF FirstAnswers, SecondAnswers, FirstFails, SecondFails
    <3>2. again >= 1 /\ again \in 0 .. JsonTries
      BY <1>0, <3>1 DEF Position, Fields
    <3> QED
      BY <1>0, <1>a, <3>1, <3>2 DEF Position
  <2>2. /\ \E end \in Ends, usage \in Usages : Reports(end, usage, 0)
        /\ \/ \E text \in BOOLEAN : Finish(text)
           \/ at' = "fallback" /\ UNCHANGED out
        /\ UNCHANGED <<settings, listed, page, how, raw, model, again, changes>>
    BY <1>4 DEF FirstAnswers, SecondAnswers, FirstFails, SecondFails, Ends, Usages
  <2>3. /\ out' \in Seq({"token", "text"}) /\ at' \in {"done", "ask", "fallback"}
        /\ at' = "ask" => again < JsonTries
    BY <1>0, <2>1, <2>2, FinishTypes DEF Fields
  <2>4. Fields'
    BY <1>0, <2>2, <2>3 DEF Fields
  <2> QED
    BY <2>1, <2>2, <2>3, <2>4, ReportsKeeps
<1>5. CASE NoFallback
  <2>1. Finish(FALSE) /\ again \in 1 .. JsonTries
        /\ UNCHANGED <<settings, listed, page, how, raw, model, again, requests, changes>>
    <3>1. at = "fallback"
      BY <1>5 DEF NoFallback
    <3>2. again >= 1 /\ again \in 0 .. JsonTries
      BY <1>0, <3>1 DEF Position, Fields
    <3>3. again \in 1 .. JsonTries
      BY <1>a, <3>2
    <3> QED
      BY <1>5, <3>3 DEF NoFallback
  <2>2. /\ out' \in Seq({"token", "text"}) /\ at' \in {"done", "ask"}
        /\ at' = "ask" => again < JsonTries
    BY <1>0, <2>1, FinishTypes DEF Fields
  <2>3. Fields' /\ Position'
    BY <1>0, <2>1, <2>2 DEF Fields, Position
  <2> QED
    BY <1>5, <2>1, <2>3, OthersKeep DEF NoFallback
<1>6. CASE Token
  <2>1. Fields' /\ Position'
    BY <1>0, <1>6 DEF Token, Streaming, Fields, Position, Last
  <2> QED
    BY <1>6, <2>1, OthersKeep DEF Token, Streaming
<1>7. CASE UsageChunk
  <2>1. at = "stream" /\ "open" \in Ends
    BY <1>7 DEF UsageChunk, Streaming, Ends
  <2>2. PICK usage \in Usages : Reports("open", usage, 0)
    BY <1>7 DEF UsageChunk
  <2>3. Fields'
    BY <1>0, <1>7 DEF UsageChunk, Fields
  <2> QED
    BY <1>7, <2>1, <2>2, <2>3, ReportsKeeps DEF UsageChunk
<1>8. CASE StreamEnds
  <2>1. at = "stream" /\ "complete" \in Ends /\ "none" \in Usages
    BY <1>8 DEF StreamEnds, Streaming, Ends, Usages
  <2>2. PICK guess \in Estimates : Reports("complete", "none", guess)
    BY <1>8 DEF StreamEnds
  <2>3. /\ guess \in {0, 1}
        /\ guess = 1 => ~requests[Last].saw /\ out # <<>>
    BY DEF Estimates
  <2>4. Fields'
    BY <1>0, <1>8 DEF StreamEnds, Fields
  <2> QED
    BY <1>8, <2>1, <2>2, <2>3, <2>4, ReportsKeeps DEF StreamEnds
<1>9. CASE StreamBreaks
  <2>1. at = "stream" /\ again = 0 /\ "failed" \in Ends /\ "none" \in Usages
    BY <1>0, <1>9 DEF StreamBreaks, Position, Ends, Usages
  <2>2. Reports("failed", "none", 0)
    BY <1>9 DEF StreamBreaks
  <2>3. Fields'
    BY <1>0, <1>9 DEF StreamBreaks, Fields
  <2> QED
    BY <1>9, <1>a, <2>1, <2>2, <2>3, ReportsKeeps DEF StreamBreaks
<1>10. CASE Change
  <2>1. settings' \in Settings /\ changes' \in 0 .. MaxChanges
    BY <1>0, <1>10, ProviderAssumption DEF Change, Fields
  <2>2. Fields' /\ Position'
    BY <1>0, <1>10, <2>1 DEF Change, callVars, Fields, Position, Last
  <2> QED
    BY <1>10, <2>2, OthersKeep DEF Change, callVars
<1>11. CASE PageNext
  <2>1. listed' \in BOOLEAN /\ page' \in Page /\ UNCHANGED <<settings, callVars, changes>>
    <3>1. /\ settings \in Settings /\ listed \in BOOLEAN /\ page \in Page
          /\ settings.keys \in SUBSET Providers /\ page.keys \in SUBSET Providers
      BY <1>0 DEF Fields, Page, Settings
    <3>2. ASSUME NEW keys \in SUBSET Providers, NEW models \in BOOLEAN, Shows(keys, models)
          PROVE  page' \in Page
      <4>1. Status(settings, keys, models) \in PageModes
        BY <3>1, StatusIsMode
      <4>2. Default(settings) \in PageModes
        BY <3>1, DefaultIsTarget DEF PageModes
      <4> QED
        BY <3>2, <4>1, <4>2 DEF Shows, Page
    <3>3. CASE PageAtOnce
      <4>1. Models(settings) \in BOOLEAN
        BY <3>1 DEF Models, Settings
      <4> QED
        BY <3>1, <3>2, <3>3, <4>1 DEF PageAtOnce
    <3>4. CASE PageProbes
      BY <3>1, <3>4 DEF PageProbes, Page
    <3>5. CASE PageShows
      BY <3>1, <3>2, <3>5 DEF PageShows
    <3> QED
      BY <1>11, <3>3, <3>4, <3>5 DEF PageNext
  <2>2. Fields' /\ Position'
    BY <1>0, <2>1 DEF callVars, Fields, Position, Last
  <2> QED
    BY <2>1, <2>2, OthersKeep DEF callVars
<1>12. CASE CutCall
  <2>1. Fields' /\ Position'
    BY <1>0, <1>12 DEF CutCall, Fields, Position
  <2> QED
    BY <1>12, <2>1, OthersKeep DEF CutCall, Running
<1>13. CASE UNCHANGED llmVars
  <2>1. Fields' /\ Position'
    BY <1>0, <1>13 DEF llmVars, callVars, Fields, Position, Last
  <2> QED
    BY <1>13, <2>1, OthersKeep DEF llmVars, callVars
<1> QED
  BY <1>1, <1>2, <1>3, <1>4, <1>5, <1>6, <1>7, <1>8, <1>9, <1>10, <1>11, <1>12, <1>13
     DEF LlmNext, Proceed

LEMMA IInvAlways == LlmSpec => []IInv
BY InitIInv, StepIInv, PTL DEF LlmSpec

-----------------------------------------------------------------------------
\* Every reachable state is well typed.
THEOREM ProviderTypeCorrect == LlmSpec => []LlmTypeOK
<1>1. IInv => LlmTypeOK
  BY TypesTogether DEF IInv
<1> QED
  BY <1>1, IInvAlways, PTL

\* Through any breaks, repetitions, fallbacks, unreadable or repeated usages and
\* changes of the settings, a request is counted as its provider told, or once
\* by an estimate where nothing was told.
THEOREM CountedAsToldHolds == LlmSpec => []CountedAsTold
<1>1. IInv => CountedAsTold
  BY DEF IInv, Counts, CountedAsTold, Last
<1> QED
  BY <1>1, IInvAlways, PTL
=============================================================================
