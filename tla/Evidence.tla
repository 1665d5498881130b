------------------------------- MODULE Evidence -------------------------------
(***************************************************************************)
(* The evidence of a run: found, stored, indexed, asked about.             *)
(*                                                                         *)
(* The researcher node (graph/nodes/researcher.py) searches all topics of  *)
(* its round at once, then follows the citations of the best sources.      *)
(* Each branch merges its hits, stores them as rows, cuts each into chunks *)
(* and gives the chunks vectors (retrieval/).  Rows, chunks and vectors    *)
(* are transactions of their own, and a failing one is skipped; the        *)
(* candidates reach the checkpoint only with the whole node, which starts  *)
(* over after a cut.  Meanwhile a user asks about this run or an older one *)
(* (api/routes_research.py), and may delete either project under it.       *)
(*                                                                         *)
(* Each call of the repository is one step: WriteTx is about that.  A text *)
(* is known by the run and the work that it is of.  The chunks of a source *)
(* go in one transaction and so do their vectors, so one chunk stands for  *)
(* them all.                                                               *)
(***************************************************************************)
EXTENDS Integers, FiniteSets

CONSTANTS
    Run,        \* the run that is executing
    Older,      \* a finished one, of another project
    Questions,  \* the topics of a round
    Snowball,   \* the branch that follows citations
    Hits,       \* what providers return: records of a work and a title
    MaxSources, \* max_sources of the preset
    TopK,       \* excerpts of an answer, and candidates of either search for them
    MaxPasses,  \* bound on executions of the node
    MaxFaults,  \* bound on writes that fail and embeddings and texts that are missing
    MaxAsks     \* bound on questions

Runs == {Run, Older}
Branches == Questions \cup {Snowball}
Works == {h.work : h \in Hits}
Texts == [run : Runs, work : Works]

ASSUME EvidenceAssumption ==
    /\ Run # Older
    /\ Snowball \notin Questions
    /\ Hits # {} /\ \A h \in Hits : DOMAIN h = {"work", "title"}
    /\ MaxSources \in Nat \ {0} /\ TopK \in Nat \ {0}
    /\ MaxPasses \in Nat /\ MaxFaults \in Nat /\ MaxAsks \in Nat

VARIABLES
    projects,   \* the runs whose project has not been deleted
    sources,    \* rows: id, run, work
    chunks,     \* rows: id, source, text
    vectors,    \* rows of the vector table: chunk, source, text
    lastSource, \* AUTOINCREMENT of the two tables
    lastChunk,
    trail,      \* topics with a row in run_queries
    told,       \* topics whose query was streamed
    asks,       \* rows of run_asks: run, references
    branch,     \* position of each branch
    left,       \* works that it has found and not yet stored
    got,        \* its stored candidates: id, work
    todo,       \* those still to be indexed
    bare,       \* its chunks that still have no vectors
    candidates, \* ids in the checkpoint
    ask,        \* the question being answered: at, run, vectors near it, ids of chunks, chunks shown
    passes,     \* history: executions of the node so far
    failed,     \* history: those failures so far
    asked       \* history: questions so far

tables == <<projects, sources, chunks, vectors, lastSource, lastChunk>>
nodeVars == <<branch, left, got, todo, bare>>
evVars == <<tables, trail, told, asks, nodeVars, candidates, ask, passes, failed, asked>>

-----------------------------------------------------------------------------
NoAsk == [at |-> "idle", run |-> Run, near |-> {}, ids |-> {}, shown |-> {}]
Rest == /\ branch' = [b \in Branches |-> "idle"]
        /\ left' = [b \in Branches |-> {}]
        /\ got' = [b \in Branches |-> {}]
        /\ todo' = [b \in Branches |-> {}]
        /\ bare' = [b \in Branches |-> {}]

\* The older run left a source with a chunk and its vector.
EvInit ==
    /\ projects = Runs
    /\ LET w == CHOOSE w \in Works : TRUE
           text == [run |-> Older, work |-> w]
       IN /\ sources = {[id |-> 1, run |-> Older, work |-> w]}
          /\ chunks = {[id |-> 1, source |-> 1, text |-> text]}
          /\ vectors = {[chunk |-> 1, source |-> 1, text |-> text]}
    /\ lastSource = 1 /\ lastChunk = 1
    /\ trail = {} /\ told = {} /\ asks = {}
    /\ branch = [b \in Branches |-> "idle"]
    /\ left = [b \in Branches |-> {}]
    /\ got = [b \in Branches |-> {}]
    /\ todo = [b \in Branches |-> {}]
    /\ bare = [b \in Branches |-> {}]
    /\ candidates = {}
    /\ ask = NoAsk
    /\ passes = 0 /\ failed = 0 /\ asked = 0

SourcesOf(r) == {s \in sources : s.run = r}

\* A write fails for good, or the row it refers to is gone.
Fails == failed < MaxFaults /\ failed' = failed + 1
Stores(possible) == possible /\ UNCHANGED failed
Refused(possible) == IF possible THEN Fails ELSE UNCHANGED failed

-----------------------------------------------------------------------------
(***************************************************************************)
(* Searching                                                               *)
(***************************************************************************)
\* dedup_candidates: hits of one work are merged into the richest, then of those
\* with one title the first is kept.  Which ones is left open.
OnePer(field, S) == {T \in SUBSET S : \A h \in S : Cardinality({t \in T : t[field] = h[field]}) = 1}
Deduped(found) == UNION {OnePer("title", M) : M \in OnePer("work", found)}

\* The cap keeps the best by a re-ranker's order, which is left open.
Capped(S) == {T \in SUBSET S :
                 Cardinality(T) = IF Cardinality(S) < MaxSources THEN Cardinality(S) ELSE MaxSources}

\* search_all: a provider that fails or times out returns nothing; what the others
\* answer to all variants of the question comes together.
FromProviders == SUBSET Hits

Search(t) ==
    /\ t \in Questions
    /\ branch[t] = "idle"
    /\ \E found \in FromProviders : \E D \in Deduped(found) : \E kept \in Capped(D) :
          left' = [left EXCEPT ![t] = {h.work : h \in kept}]
    /\ branch' = [branch EXCEPT ![t] = "searched"]
    /\ UNCHANGED <<tables, trail, told, asks, got, todo, bare, candidates, ask, passes, failed, asked>>

\* search_all itself raises: the branch ends with an error and no candidates.
SearchFails(t) ==
    /\ t \in Questions
    /\ branch[t] = "idle"
    /\ branch' = [branch EXCEPT ![t] = "done"]
    /\ UNCHANGED <<tables, trail, told, asks, left, got, todo, bare, candidates, ask, passes, failed, asked>>

\* expand_citations: works that a seed refers to or that refer to it, nothing for a
\* seed that cannot be resolved.
FromCitations == SUBSET Hits

\* When all topics are done.  Without seeds, and when nothing was found, the hits
\* are empty; there is no cap.
FollowCitations ==
    /\ branch[Snowball] = "idle"
    /\ \A t \in Questions : branch[t] = "done"
    /\ \E found \in FromCitations : \E D \in Deduped(found) :
          left' = [left EXCEPT ![Snowball] = {h.work : h \in D}]
    /\ branch' = [branch EXCEPT ![Snowball] = "storing"]
    /\ UNCHANGED <<tables, trail, told, asks, got, todo, bare, candidates, ask, passes, failed, asked>>

\* Mutant of RecordQuery: streamed whether it was stored or not.
RecordQueryToldFirst(t) ==
    /\ branch[t] = "searched"
    /\ branch' = [branch EXCEPT ![t] = "storing"]
    /\ \/ Stores(Run \in projects) /\ trail' = trail \cup {t}
       \/ Refused(Run \in projects) /\ UNCHANGED trail
    /\ told' = told \cup {t}
    /\ UNCHANGED <<tables, asks, left, got, todo, bare, candidates, ask, passes, asked>>

RecordQuery(t) ==
    /\ branch[t] = "searched"
    /\ branch' = [branch EXCEPT ![t] = "storing"]
    /\ \/ Stores(Run \in projects) /\ trail' = trail \cup {t} /\ told' = told \cup {t}
       \/ Refused(Run \in projects) /\ UNCHANGED <<trail, told>>
    /\ UNCHANGED <<tables, asks, left, got, todo, bare, candidates, ask, passes, asked>>

-----------------------------------------------------------------------------
(***************************************************************************)
(* Storing and indexing                                                    *)
(***************************************************************************)
Row(id, w) == [id |-> id, run |-> Run, work |-> w]

\* Mutant of Upsert: without looking for the row first.
UpsertAlways(w) ==
    /\ sources' = sources \cup {Row(lastSource + 1, w)}
    /\ lastSource' = lastSource + 1

\* upsert_source: the row of the work in this run, inserted if there is none.
Upsert(w) ==
    IF \E s \in SourcesOf(Run) : s.work = w
    THEN UNCHANGED <<sources, lastSource>>
    ELSE /\ sources' = sources \cup {Row(lastSource + 1, w)}
         /\ lastSource' = lastSource + 1

\* _persist_candidates.  Branches that found the same work get the same row.
Persist(b) ==
    /\ branch[b] = "storing"
    /\ \E w \in left[b] :
          /\ left' = [left EXCEPT ![b] = @ \ {w}]
          /\ \/ /\ Stores(Run \in projects)
                /\ Upsert(w)
                /\ \E s \in sources' :
                      /\ s.run = Run /\ s.work = w
                      /\ sources \subseteq sources'
                      /\ got' = [got EXCEPT ![b] = @ \cup {s}]
                      /\ todo' = [todo EXCEPT ![b] = @ \cup {s}]
             \/ Refused(Run \in projects) /\ UNCHANGED <<sources, lastSource, got, todo>>
    /\ UNCHANGED <<projects, chunks, vectors, lastChunk, trail, told, asks, branch, bare,
                   candidates, ask, passes, asked>>

\* Mutant of NextChunk: a table without AUTOINCREMENT.
NextChunkReused == IF chunks = {} THEN 1
                   ELSE CHOOSE n \in 1 .. lastChunk + 1 :
                           /\ n - 1 \in {c.id : c \in chunks}
                           /\ \A c \in chunks : c.id < n

\* AUTOINCREMENT: the id of a deleted chunk is never given again.
NextChunk == lastChunk + 1

\* What is cut up: the page or the paper, as far as it was fetched, or the abstract.
TextOf(s) == [run |-> s.run, work |-> s.work]

\* A source found again is cut up again.  A source without text counts as one
\* that fails: no chunk is added.
AddChunks(b) ==
    /\ branch[b] = "storing"
    /\ left[b] = {}
    /\ bare[b] = {}
    /\ \E s \in todo[b] :
          LET c == [id |-> NextChunk, source |-> s.id, text |-> TextOf(s)]
          IN /\ todo' = [todo EXCEPT ![b] = @ \ {s}]
             /\ \/ /\ Stores(s \in sources)
                   /\ chunks' = chunks \cup {c}
                   /\ lastChunk' = NextChunk
                   /\ bare' = [bare EXCEPT ![b] = {c}]
                \/ Refused(s \in sources) /\ UNCHANGED <<chunks, lastChunk, bare>>
    /\ UNCHANGED <<projects, sources, vectors, lastSource, trail, told, asks, branch, left, got,
                   candidates, ask, passes, asked>>

VectorOf(c) == [chunk |-> c.id, source |-> c.source, text |-> c.text]

\* The embedding takes its time, after the chunk was committed and outside any
\* lock.  The vector table refers to nothing: the chunk may be gone by now.
AddVectors(b) ==
    /\ \E c \in bare[b] :
          LET free == \A v \in vectors : v.chunk # c.id
          IN \/ Stores(free) /\ vectors' = vectors \cup {VectorOf(c)}
             \/ Refused(free) /\ UNCHANGED vectors
    /\ bare' = [bare EXCEPT ![b] = {}]
    /\ UNCHANGED <<projects, sources, chunks, lastSource, lastChunk, trail, told, asks, branch,
                   left, got, todo, candidates, ask, passes, asked>>

Indexed(b) ==
    /\ branch[b] = "storing"
    /\ left[b] = {} /\ todo[b] = {} /\ bare[b] = {}
    /\ branch' = [branch EXCEPT ![b] = "done"]
    /\ UNCHANGED <<tables, trail, told, asks, left, got, todo, bare, candidates, ask, passes,
                   failed, asked>>

\* The node returns and its candidates are checkpointed; the loop may come back
\* to it with the topics of another round.
Return ==
    /\ \A b \in Branches : branch[b] = "done"
    /\ candidates' = candidates \cup {s.id : s \in UNION {got[b] : b \in Branches}}
    /\ IF passes < MaxPasses
       THEN passes' = passes + 1 /\ Rest
       ELSE /\ branch' = [b \in Branches |-> "over"]
            /\ UNCHANGED <<passes, left, got, todo, bare>>
    /\ UNCHANGED <<tables, trail, told, asks, ask, failed, asked>>

\* The process ends and the run is resumed: the node starts over.
CutNode ==
    /\ \E b \in Branches : branch[b] \notin {"idle", "over"}
    /\ passes < MaxPasses
    /\ passes' = passes + 1
    /\ Rest
    /\ ask' = NoAsk
    /\ UNCHANGED <<tables, trail, told, asks, candidates, failed, asked>>

-----------------------------------------------------------------------------
(***************************************************************************)
(* Asking                                                                  *)
(***************************************************************************)
Chunk(ids) == {c \in chunks : c.id \in ids}
Upto(S) == {T \in SUBSET S : Cardinality(T) <= TopK}

\* The nearest vectors of all runs, none if the question cannot be embedded: no
\* vector is ever deleted, so nothing can come between the look at the run and
\* the search.
AskRun(r) ==
    /\ ask.at = "idle"
    /\ r \in projects
    /\ asked < MaxAsks
    /\ asked' = asked + 1
    /\ \E near \in Upto(vectors) : ask' = [NoAsk EXCEPT !.at = "filter", !.run = r, !.near = near]
    /\ UNCHANGED <<tables, trail, told, asks, nodeVars, candidates, passes, failed>>

\* Mutant of Scoped: any source that still has a row.
ScopedAnyRun(near) == {v \in near : \E s \in sources : s.id = v.source}

\* Those whose source is of the run that was asked.
Scoped(near) == {v \in near : \E s \in SourcesOf(ask.run) : s.id = v.source}

Filter ==
    /\ ask.at = "filter"
    /\ ask' = [ask EXCEPT !.at = "words", !.near = {}, !.ids = {v.chunk : v \in Scoped(ask.near)}]
    /\ UNCHANGED <<tables, trail, told, asks, nodeVars, candidates, passes, failed, asked>>

\* The chunks of the run with words of the question, joined with its sources.
Words ==
    /\ ask.at = "words"
    /\ \E lexical \in Upto({c.id : c \in {d \in chunks : \E s \in SourcesOf(ask.run) : s.id = d.source}}) :
          ask' = [ask EXCEPT !.at = "fetch", !.ids = @ \cup lexical]
    /\ UNCHANGED <<tables, trail, told, asks, nodeVars, candidates, passes, failed, asked>>

\* The best of the two rankings; a chunk that is gone by now is left out.
Fetch ==
    /\ ask.at = "fetch"
    /\ \E top \in Upto(ask.ids) : ask' = [ask EXCEPT !.at = "answer", !.ids = {}, !.shown = Chunk(top)]
    /\ UNCHANGED <<tables, trail, told, asks, nodeVars, candidates, passes, failed, asked>>

\* The model cites one of the excerpts, and the answer refers to them all, or it
\* is stored as not grounded.
Answer ==
    /\ ask.at = "answer"
    /\ \/ /\ Stores(ask.run \in projects)
          /\ \E refs \in {{}, {c.source : c \in ask.shown}} :
                asks' = asks \cup {[run |-> ask.run, references |-> refs]}
       \/ Refused(ask.run \in projects) /\ UNCHANGED asks
    /\ ask' = NoAsk
    /\ UNCHANGED <<tables, trail, told, nodeVars, candidates, passes, asked>>

-----------------------------------------------------------------------------
\* DELETE FROM projects cascades over every table but the one of the vectors.
\* The run of the project is not stopped.
Delete(r) ==
    /\ r \in projects
    /\ projects' = projects \ {r}
    /\ sources' = sources \ SourcesOf(r)
    /\ chunks' = {c \in chunks : \A s \in SourcesOf(r) : c.source # s.id}
    /\ trail' = IF r = Run THEN {} ELSE trail
    /\ asks' = {a \in asks : a.run # r}
    /\ UNCHANGED <<vectors, lastSource, lastChunk, told, nodeVars, candidates, ask, passes, failed, asked>>

EvNext ==
    \/ \E t \in Questions : Search(t) \/ SearchFails(t) \/ RecordQuery(t)
    \/ FollowCitations
    \/ \E b \in Branches : Persist(b) \/ AddChunks(b) \/ AddVectors(b) \/ Indexed(b)
    \/ Return \/ CutNode
    \/ \E r \in Runs : AskRun(r) \/ Delete(r)
    \/ Filter \/ Words \/ Fetch \/ Answer

EvSpec == EvInit /\ [][EvNext]_evVars

-----------------------------------------------------------------------------
SourceRow == [id : Nat, run : Runs, work : Works]
ChunkRow == [id : Nat, source : Nat, text : Texts]
VectorRow == [chunk : Nat, source : Nat, text : Texts]

EvTypeOK ==
    /\ projects \subseteq Runs
    /\ sources \subseteq SourceRow /\ chunks \subseteq ChunkRow /\ vectors \subseteq VectorRow
    /\ lastSource \in Nat /\ lastChunk \in Nat
    /\ trail \subseteq Questions /\ told \subseteq Questions
    /\ asks \subseteq [run : Runs, references : SUBSET Nat]
    /\ branch \in [Branches -> {"idle", "searched", "storing", "done", "over"}]
    /\ left \in [Branches -> SUBSET Works]
    /\ got \in [Branches -> SUBSET SourceRow] /\ todo \in [Branches -> SUBSET SourceRow]
    /\ bare \in [Branches -> SUBSET ChunkRow]
    /\ candidates \subseteq Nat
    /\ ask \in [at : {"idle", "filter", "words", "fetch", "answer"}, run : Runs,
                near : SUBSET VectorRow, ids : SUBSET Nat, shown : SUBSET ChunkRow]
    /\ passes \in 0 .. MaxPasses /\ failed \in 0 .. MaxFaults /\ asked \in 0 .. MaxAsks

\* A vector speaks of the chunk that has its id, if there is one: also when a
\* chunk was deleted while its vector was computed, and other chunks followed.
VectorsFit ==
    \A v \in vectors, c \in chunks : v.chunk = c.id => v.source = c.source /\ v.text = c.text

\* routes_research.py:80 "grounded ONLY in this run's gathered sources": whatever
\* happens between the steps of an answer, no excerpt is of another run, and a
\* stored answer refers to sources that its run still has.
AnswersOwnRun ==
    /\ \A c \in ask.shown : c.text.run = ask.run
    /\ \A a \in asks : a.references \subseteq {s.id : s \in SourcesOf(a.run)}

\* A work is one source of its run, however many branches and repeated passes
\* found it, and the candidates that the graph goes on with have rows as long as
\* the project does.
CandidatesHaveRows ==
    /\ \A s, t \in sources : s.run = t.run /\ s.work = t.work => s = t
    /\ Run \in projects => candidates \subseteq {s.id : s \in SourcesOf(Run)}

\* researcher.py:539 "so the streamed trail never shows a query that the reopened
\* (DB-reconstructed) trail will be missing".
TrailTold == Run \in projects => told \subseteq trail
=============================================================================
