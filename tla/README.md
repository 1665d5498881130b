# TLA+ models of Advanced Web Search

Advanced Web Search answers one question with a cited report. A FastAPI server
(`src/backend/advanced_web_search`) runs a LangGraph state graph of nine nodes
for each *run*, streams its progress to a browser over server-sent events,
stores everything in one SQLite file, and may pause for the user to approve the
plan. The server is a single process: an asyncio event loop plus worker threads
(`asyncio.to_thread`) for the database and the embedding models.

This directory holds TLA+ modules for the parts where order, interruption and
repetition decide whether the program is right, the TLC configurations that
check them, and proofs that TLAPS checks for every value of the constants.

## The system

| Component | State it keeps | Operations | What is hard, and what makes it right |
|---|---|---|---|
| Run lifecycle: `graph/runner.py`, `api/routes_research.py`, `graph/nodes/finalizer.py` | `runs.status`, the settings row `approval_decision_<run>`, the cancel flag, `_APPROVALS`, `_CANCEL_EVENTS`, the LangGraph checkpoint | `run_stream`, `approve`, `cancel` | A run has no task of its own: it executes inside whatever event stream a browser holds open, and a browser reopens streams by itself. Two streams, an approval and a cancel interleave at every `await`; a disconnect or crash may come anywhere. Right: no cancel is lost, cancelled runs are not executed again, the gate holds, `done` means finished. |
| Research graph: `graph/builder.py`, `graph/state.py`, `graph/nodes/*` | `ResearchState`, checkpointed after each superstep | nine nodes, two conditional edges | Three nested loops (rounds, evidence, rewrites) share one recursion limit and pass work through keys that different nodes set and clear. Right: the loops end, within the limit, never go round for nothing, search what they queued and write only then. |
| Coverage: `graph/nodes/ranker.py`, `scoring/ranker.py`, `embeddings/reranker.py`, `graph/nodes/gap.py` | scores, `rerank_confidence`, `reranker_degraded`, the process-wide re-ranker mode | scoring, CRAG grading | A re-ranker that fails to load, or fails later, must not be taken for one that measured. |
| Sub-question tree: `graph/nodes/{planner,moderator,approval,gap}.py`, `db/repositories.py`, `ApprovalPanel.tsx` | the table `subtopics`, `state["subtopics"]` | `replace_subtopics`, `add_subtopics`, `set_subtopic_approval` | Nodes write rows before their superstep is checkpointed, and every rebuild renumbers all of them. Right: the ids in the state have rows, and a rebuild keeps the tree. |
| Rows of a report: `db/repositories.py`, `graph/nodes/{ranker,synthesizer,verifier}.py`, `export.py` | scores, claims, citations, verdicts, reports per language | one function per statement; `export_run` | Rows are committed one by one and the node that writes them may be repeated; a failing deletion mixes drafts; shares are stamped on rows of all languages. Right: shares, claims and reports are of one draft, and what it cites has its number. |
| Write transactions: `db/database.py`, `graph/builder.py` | one shared connection behind a lock, a second one of the checkpointer, one WAL | `init_db`, `tx`, `run_in_tx`, single statements | Threads share one connection; two connections write one file; retries within retries. Right: all or nothing, once, with a truthful answer, and no lock is left behind. |
| Key vault: `llm/vault.py`, `api/routes_settings.py` | `vault_meta`, `vault_secrets`, the derived key and the cache in memory | setup, unlock, lock, change_password, set_key, delete_key, reset | Read-modify-write over two rows in concurrent threads; crash between the two writes. |
| Evidence: `graph/nodes/researcher.py`, `retrieval/*`, `sources/*`, `api/routes_research.py` | `sources`, `chunks`, the vector table, `run_queries`, `run_asks`, the candidates in the checkpoint | search, dedup, store, index, hybrid search, ask, delete a project | Branches run at once, rows, chunks and vectors are separate transactions, vectors are never deleted, and a user asks and deletes meanwhile. Right: answers stay with their run, candidates have rows, vectors fit their chunks. |
| Model provider: `llm/provider.py` | the usage accumulator of a pass | `chat`, `chat_stream`, `chat_json`, `llm_status` | Fallback after part of a stream was delivered; settings and vault change in the middle. Right: each request is counted as its provider told; the page should name the model that is used, and does not always. |
| Browser client: `frontend/src/lib/sse.ts`, `pages/Research.tsx` | the reducer's view of one run | open, reopen, approve, cancel | Reopens a stream after every server close, twice on a development mount; it is the environment of the lifecycle. |

Interaction: the browser calls the endpoints; `run_stream` resumes the graph
from its checkpoint and forwards the nodes' frames; nodes call repositories,
sources and models; the repositories and the checkpointer share the database.
`PROJECT.json` lists the components that are left out and why, and every hazard
at its line.

## Modules

    RunPromise     <- implemented by --  RunLifecycle   <- RunLifecycleProofs
                                              ^ MCRunLifecycle, MCLive
    ResearchBudget <- implemented by --  ResearchGraph  <- ResearchGraphProofs
                                              ^ MCResearch, MCLive
    AtomicStore    <- implemented by --  WriteTx        <- WriteTxProofs
                                              ^ MCLive
                                         Coverage       <- CoverageProofs
                                         Evidence, Provider
                                                        <- NodeServicesProofs
                                              ^ MCNodeServices, MCProvider
                                         SubtopicTree   <- SubtopicTreeProofs
                                              ^ MCSubtopicTree
                                         ReportRows     <- ReportRowsProofs
                                              ^ MCResearch
                                         Vault          <- VaultProofs
                                              ^ MCVault, MCNodeServices

`RunLifecycle` sees the whole research loop as one stage, "research";
`ResearchGraph` opens that stage up and sees a disconnect, crash, error or
restart only as `Resume`. What its nodes do to the database is in `SubtopicTree`
(planner, moderator, gate, gap analysis), `Evidence` (researcher) and
`ReportRows` (ranker, synthesizer, verifier), where a cut between rows and
checkpoint is an action; each call of a repository is one step there, and why
that is allowed is the subject of `WriteTx`. `MCLive`, `MCResearch` and
`MCNodeServices` put modules that share no state side by side for TLC: a
behaviour belongs to one of them.

### RunLifecycle: streams, approval, cancel

One run, any number of event streams (`Streams`), approvals (`Approvals`) and
cancels (`Cancels`). `Faults` names what may go wrong in a configuration:
disconnects, crashes, failing nodes, and writes that are left behind in worker
threads. `GateSettings` are the values of `require_approval`.

The state is what survives (the row's status, the cancel flag, the stored
decision, the checkpoint) next to what dies with the process (`_APPROVALS`,
the registered event, the position and local variables of every coroutine). An
action is the code between two points where another coroutine can run: the
start of `run_stream` down to its first `await`, each database call, each pull
of a frame, each `finally` part. So `FlagCheck`, `Register`, `Recheck` are three
actions because the code awaits between them, while the decision is popped and
the event registered in one.

* The graph's stages are planning, gate, research, finalizer and end; the
  checkpoint moves when a stage completes, as LangGraph saves it.
* `Disconnect` throws `CancelledError` into a stream at any `await`; its
  `finally` runs, but a write already in a worker thread still lands (`Land`).
* `Crash` clears all memory and keeps rows and checkpoint.
* `is_cancelled` answers "no" when its read fails. `Answers` is what a look at
  the flag may return at `FlagCheck`, `Recheck` and `FinalFlag`; `misread` is the
  history of where a stream was told "no" wrongly, and `MaxMisreads` bounds such
  answers. A stream that was misled may run on; no other stream may.

Not in it: the running token cost, frame contents, the branches for a missing
run or project, deletion of the project during a run, per-subtopic approval,
failing status writes (failing reads of the flag are in it), `checkpoint_wal`. A node's completion and its checkpoint
are one step. LangGraph and `to_thread` are external and modelled from their use.

`RunPromise` is what the lifecycle promises a user: work starts after opening,
the gate is passed by a decision only, a run ends once, and nobody starts to
work on a cancelled run but one who could not read that it is (`misled`). `KeepsPromise` is its refinement.

### ResearchGraph: the loops

One action per superstep, with the control keys of `ResearchState` as
variables under their own names. Topics are numbered in the order they are
added; what models, searches and link checks answer is a choice. `Queue` is the
researcher's choice of what to search, `GapStop` and `GapExpand` are the two
ends of the gap analysis, `Judge` the verifier's verdict, `AfterGap` and
`AfterVerify` the conditional edges. `steps` counts LangGraph's supersteps of
one invocation; `OutOfSteps` is its `GraphRecursionError`; `Resume` continues
from the checkpoint with a fresh count; `Approve` is the resume of the gate.
`planned` and `visits` are history variables.

Abstracted: which topics are leaves (any non-empty set), scores and
confidences (any leaf may be weak), rows (the topics of claims are topics of
the state), texts. All failures inside the gap analysis and its two early
returns write the same single key and are one action. `MaxEdit` bounds the
topics a user leaves after editing the plan; the program has no such bound.

`ResearchBudget` says what bounds a run: rounds and drafts from two limited
budgets, one extra round per revision that asked for evidence. `KeepsBudget` is
its refinement: a round is counted by the researcher at its start and by the
budget when its gap analysis has decided, hence the `round - 1` in the mapping.

### Coverage: what the loop believes it knows

The re-ranker's mode is a variable of the process: the first use, by any run,
settles it (`ModeAfterUse`), a restart forgets it. What the ranker node returns
is a part of the run's checkpoint. The model keeps the two apart and lets other
runs (`OtherRun`) and restarts (`Restart`) come between any two nodes.

`Ranker` is one pass over all groups: each group's scoring ends in measured
scores, in scores invented for want of a model or by a loaded model that breaks,
in an exception or in a neutral breakdown (`Outcomes`), and `Merge` keeps the confidences of the pass before when a pass
has none. A confidence is one of the three bands that the thresholds of
`gap.py` tell apart; invented scores fall into the upper one, because the
sigmoid of 0.98 and more lies above it. `UsesConfidence`, `UnderCovered`,
`AllSufficient`, `OneShotPending` are the grading and the early exit. The rest of
the loop is reduced to what adds topics and sources; `ResearchGraph` has it in
full. `origin`, `fresh`, `first`, `exit` and `judged` are history variables.

### Vault: keys in two rows

One action is one access to a row of `app_settings` or to the two variables in
memory; each caller (a worker thread) carries its local variables in `call`.
Only the change of `_derived_key` and `_secrets_cache` holds a lock, so two
callers interleave between any two actions. The key derived from a password is
represented by the salt it was derived with, and a wrong password derives
nothing. `expected` is a history variable: what a user may expect each name to
hold, which is the value of the last call that returned, or of one that did
not. A read that fails is taken for an absent row, as in the code (`Misread`,
`ReadFails`), and what is written next goes over the row that is there; `doubt`
records that, and a password change cut between its rows. Refused calls and
short passwords are left out.

### SubtopicTree: rows against the checkpoint

The sub-questions of a run are kept twice: `rows` is the table, `nodes` is the
list in the checkpoint, and `at` is the node the checkpoint will run next.
Planner, moderator and gate hand `replace_subtopics` a list of items and put
what it returns into the state; that is `Rebuild`, and its second disjunct is
the cut between the two. `Numberings` are the insertion orders that sorting by
depth and order allows, and `Known` is `id_map` at the moment an item is
inserted, which is why a parent that sorts later is dropped. The gap analysis
is three actions (`GapAnalyzer`, `OutlineRevision`, `GapReturn`) because it
writes rows twice before it returns; `Persist` appends, and falls back to a
rebuild that returns only the follow-ups. `Approve` deletes rejected rows with
their descendants (`Cascaded`), and the decision reaches the gate only if the
run stands there (`Taken`).

A sub-question is followed through its renumberings by `origin`, the id of its
first row; `forked` remembers why rows and checkpoint may differ. Both are
history variables. Left open where the code decides by data: the order of
items with equal keys, the order of siblings in the approval panel, which
leaves are under-covered. Left out: texts, perspectives, `status`, `approved`,
a second stream of the run, approvals that come while the run executes. What a
user does not keep is rejected (the panel's checkbox: deleted at once) or taken
off the list (its remove button: deleted by the rebuild). An added sub-question has no
parent, as in the panel. `LastId` bounds the ids ever handed out.

### Evidence: what is found, stored and asked about

Three actors: the researcher node, whose branches (one for each topic of the
round, then the snowball) run at once; a user with a question; a user who
deletes a project. `Search` and `FollowCitations` are the fan-out over providers
and the deduplication; since any provider may fail or time out, what comes back
is any subset of `Hits`. `Persist`, `AddChunks` and `AddVectors` are the three
transactions of a source, the embedding lying between the last two; each may
fail and is then passed over. `Return` checkpoints the candidates, `CutNode` is
a restart. `AskRun`, `Filter`, `Words`, `Fetch` and `Answer` are the points of
`ask_run` between which other threads run. `Delete` cascades over every table
but the one of the vectors, which refers to nothing.

A text is known by its run and its work, which is what the properties tell
apart; the chunks of a source are one, because they are inserted together. Left
open: which hit of a work survives a merge, every ranking. Left out: distances,
the embedding cache, contextual prefixes, and the loss that comes from taking
the nearest vectors of *all* runs before filtering, of which the code promises
nothing: with enough vectors of other or deleted runs in between, an answer is
declared not grounded although the run has the text.

### WriteTx: one connection, two writers

A call is one use of the database by one worker thread: a write through `tx`, a
write through `run_in_tx`, or a single statement. The state is what is in the
file, what the shared connection sees of its open transaction (`image`), who has
SQLite's write lock (`writer`, the checkpointer's connection being "other"), the
two locks of the module, and the position and counters of every call. `Begin`,
`Statement`, `Commit`, `BeginFails`, `BodyFails` are the paths through `tx`;
`Fail` is the way out of it, with the second budget of tries that `run_in_tx`
adds. `EnterInit` to `Publish` are `init_db` by the first caller. `Dies` is the
end of the process: SQLite drops what was not committed.

`AtomicStore` is what callers may rely on: a call takes effect as a whole or not
at all, once, and its answer says which. `KeepsAtomicity` is the refinement; a
call is applied when all its statements are in the file.

### Provider: which model, and what it is counted as

One call of `chat`, `chat_stream` or `chat_json`, with its requests, and one
visit after another to the settings page. `Resolve` is made when the call
begins, `Fallback` looks at the settings of its own moment. What a reply or a
chunk says of its tokens is a choice (`Usages`): nothing, something unreadable,
or a usage, and a stream may bring several; `Recorded` is what is counted of it,
`Estimates` the estimate for a stream without any, which may fail and then
counts nothing. `requests` is the history of requests with what each was told
and how often it was counted. `Default` and `Status` are the two decision lists
that ought to agree. The page reads the keys, then waits for the local server,
then reads the rest (`PageProbes`, `PageShows`); `PageAtOnce` is the case of a
cached probe. Settings change in between (`Change`), the task may be cancelled
(`CutCall`). Replies are not modelled, only whether there is one and whether
`chat_json` can use it. Prices, roles with a model of their own and the wording
of requests are left out.

### ReportRows: drafts in rows

The ranker, the synthesizer and the verifier, statement by statement, over
`MaxDrafts` executions of the synthesizer. `ckpt` holds the keys of the state that
matter here, `work` the local variables of the running node, `Cut` ends a node
and lets it start again over its own rows. `Write` is the writing of all
languages: a primary draft, translations which may fail. Claims and citations
are numbered through the list of sources that the draft was given
(`NumberedRefs`). `CheckCitation` gives each citation of the first `CheckCap` a
verdict, keeping the old one where the check had none. `Stamp` and `ScoreQuality`
write counts and scorecard on the rows of all languages, whatever they hold.
`JudgeDraft` sends a draft back to the writer or a few sub-questions back to the
search, each at most once (`retried`).
Texts are reduced to the draft they belong to; only the newest report of a
language is kept, because no reader looks at an older one.

## Runs

| Run | Bounds | Question |
|---|---|---|
| `lifecycle_tabs` | 2 streams, 1 approval, 2 cancels, gate on, crashes, 1 failing read of the flag | No lost cancel; late streams stay out; the gate holds. |
| `lifecycle_tab` | 1 stream that reopens without bound, both gate settings, all faults, 1 failing read of the flag | `done` means finished; the promise is kept. |
| `live` | 1 stream, 2 approvals, 1 cancel; a `tx`, a `run_in_tx` of two statements and a read, 2 tries, 2 failures or crashes; the graph with 3 rounds, 2 iterations and a recursion limit of 9; fairness of each | Cancels stick and stop the work, approvals take effect. Bodies are in the file and in reads as a whole, calls are atomic and come to an end. The budget of the loops is kept, also when the limit does strike; they come to rest. |
| `research` | `ResearchGraph`: 3 rounds, 2 iterations as in the deep preset, 2 planned topics, ceiling 4, up to 2 follow-ups and 1 revision, gate on with edited plans, recursion limit 25. `ReportRows`: 2 sources, 2 languages, 2 claims, 3 drafts, 2 returns of the verifier, 2 sub-questions of which 1 is retried at a time, 2 citations checked, 1 fault | Recursion limit, books, notes. Shares, claims and reports are of one draft; counts agree with verdicts; cited sources have their numbers. |
| `node_services` | `Coverage`: 2 topics, up to 2 candidates each, `gap_min_sources` 2, 3 rounds, 1 re-research, failing loads, inferences and scorings, restarts. `Evidence`: 1 topic and the snowball, 2 works with one title, 1 restart or second round, 1 fault, 1 question, both projects deleted. `Provider`: 2 clouds, every pin, any keys, streams of 2 tokens and 2 usages, 2 tries for JSON, 1 change of the settings. `Vault`: 1 caller, 2 names, 2 values, 2 salts, crashes, failing writes and reads | Grades are fresh, the early exit waits for the first round's passes; a ranking without a model is told. Vectors fit, answers stay with their run, candidates have rows, the trail is stored. Requests are counted as told. Acknowledged keys survive, and memory agrees with them. |
| `subtopic_tree` | plans of up to 3 with any parents and 2 depths, 1 added at the gate, batches of 1, ceiling 4, 2 rounds, both gate settings, cuts and failing writes, 6 ids | Parents are older and sort first; checkpointed ids have rows; rebuilds keep the tree. |
| `cancel_not_terminal` | small | A cancelled run may be stored as live again. |
| `keys_lost_in_change` | small, crashes | A password change that is cut loses the keys. |
| `torn_by_set` | 2 callers | A locked vault keeps an opened key in memory. |
| `unmeasured_early_exit` | 1 topic, a model that breaks | Made-up scores end the research early. |
| `page_against_calls` | 1 change of the settings | The page names a model that no call uses. |
| `stale_ids_after_cut` | small, without the gate | Research starts on ids that a cut rebuild has renumbered. |

**Why the bounds are enough.** A lost cancel takes one stream and one cancel;
two streams and two cancels let a second registration come between a flag and
its event, which is the largest pattern the code has state for (one event per
run). One failing read misleads one stream of two, so that what the other one
does is seen. The lifecycle theorems hold for any number. A single stream reopens
again and again, so that leftovers of an earlier stream meet a later one. The
graph runs keep rounds and iterations at their real values, because those are
the counters the properties are about, and scale the topics down: a ceiling of
4 with batches of 2 is met, and overshot, within three rounds. The recursion
limit of 25 is the exact bound for these counters, so that one superstep more
would be found. Two candidates and a threshold of two give a topic with none,
too few and enough; three rounds let a confidence grow two passes old. Two salts
are a setup and a password change, or a reset and a second setup, so that a row
sealed with an earlier key can be met; the proofs hold for any number. Three planned
sub-questions are the least that can name a forward reference, a cycle and a
chain; six ids allow a plan of three and one rebuild of it, a plan of two with
an added angle and a rebuild, or a plan of one, its rebuild, two follow-ups and
their repetition after a cut. The proofs about the tree hold for any
number of ids. For the database two tries are the least that can run out, two
statements the least that can be half done, and a crash after a failure the
least that meets what the failure left. One topic and the snowball are two
branches that store one work; a second pass finds the rows of the first, and one
deletion of each project reaches every step. A stream of two tokens breaks
before, between and after them, and two usages are one more than a provider
should send. Three drafts are the first, one rewrite and one
more after evidence; with two citations checked, some stay unchecked. Two
sub-questions that are retried one at a time let a second return to the search
follow a first.

**Deadlock** is not checked where a run may stop: a closed stream need not be
reopened, and the graph stops at its end or at the recursion limit.

**Fairness.** In `live`, for the lifecycle, weak fairness of every step of a coroutine
that is ready and of every write in a worker thread (the event loop and the
thread pool run them), and of a browser reopening a closed stream
(`frontend/src/lib/sse.ts:305`, where `EventSource` reconnects by itself).
Nothing is assumed of users and nothing of a long model call: it may never
return, which is why cancel must interrupt it. The run assumes that the flag can
be read (`MaxMisreads` is 0): a stream that was told "no" wrongly, and then waits
for a model that never answers, waits for ever. For the database, weak fairness
of every thread that has begun and can take its next step; a lock that is free
again and again goes to a waiting thread because the calls are finitely many.
Nothing is assumed of the other connection, which may keep the file locked for
good. For the graph, weak fairness of
its steps, that is, nodes return, and LangGraph's giving up counts as a step;
the question there is only whether the loops come to rest, at their end or at
the recursion limit. Neither liveness nor anything with ENABLED is proved: that
stays with TLC.

**Violations.** Each of the six checks one sentence of the repository that
TLC refutes; `PROJECT.json` quotes it under "findings". A cancel between the
last look at the flag and the status write, or an approval after a cancel,
leaves a cancelled run stored as live. A password change cut between its two
rows loses every key. A lock while another thread sets a key leaves the opened
key in the memory of a locked vault, although the cache is said to be guarded.
A re-ranker whose inference fails after it was loaded invents scores while it
still counts as a cross-encoder: they can end the loop, and nobody is told. The
settings page skips a pinned local server that lists no models while calls use
it, and reads keys earlier than the rest. A moderator that is cut off after it
renumbered the rows, and finds nothing to add when it is repeated, leaves a
checkpoint whose ids have no rows; without the gate the research then stores no
source, because each violates its foreign key and the failure is skipped.

Other disagreements between code and comments, met while modelling, have a
hazard each and no run: a reconnect after an error is offered an approval that
the graph is not waiting for, and rejections given there delete rows the
checkpoint keeps; a decision can be used twice; with two tabs a cancel
interrupts one; the ceiling on topics is compared before topics are added;
nothing reads `recursion_depth`; two vault setups, or two key writes, at once
overwrite each other.

## Proofs

All for every value of the constants that satisfies the named assumptions
(`LifecycleAssumption`, `GraphAssumption`, `CoverageAssumption`, `VaultAssumption`,
`TreeAssumption`, `ReportRowsAssumption`, `WriteTxAssumption`, `EvidenceAssumption`,
`ProviderAssumption`).

`RunLifecycleProofs`
* `TypeCorrect`.
* `NoLostCancelHolds`: inductive as it stands, because flag and event are both
  part of the statement. For any number of failing reads: a stream whose own
  look at the flag failed is excused, every other one is held to it.
* `LateStreamsStayOutHolds`: needs that streams are late only under a set flag;
  it excuses a stream whose own check at the start failed, and no other.
* `GateHoldsAlways`: strengthened from the checkpoint to every executor's
  position, and by "a held decision has been counted as resumed".
* `DoneMeansFinishedForOne` and `KeepsPromiseForOne`, for a single stream that may
  be reopened after any faults. By `Sole`: it works on the saved checkpoint and
  starts afresh only where nothing is saved, done is written, or left to be
  written, only of a graph at its finalizer, and a decision that is held was
  submitted. With two streams both properties fail by the two executors that
  the code does not exclude.
* `DecisionKeptForOne`, for a single stream, any number of approvals and cancels
  and no faults: once a decision is submitted, the memory, the settings or the
  stream keeps a decision until the graph is beyond the gate or the run is
  cancelled. It is the safety core of `ApprovalTakesEffect`, stated by the theorem
  alone. By `Keeping`: a stream that is not cancelled stops only at the gate or at
  the end, and ends with a decision in its hands only beyond the gate. Faults are
  excluded because the code needs that: a crash or a disconnect between
  `clearPending` and the resumed approval node loses the decision.

`ResearchGraphProofs`
* `TypeCorrect`, with the bound on the size of the tree.
* `NeverOutOfStepsHolds`, under 6 + 3 MaxRounds + 5 MaxIterations <=
  RecursionLimit. The invariant `Paced` gives, for every node, the supersteps
  that can lead to it: 3 for each round and 2 for each draft; `Capped` bounds
  rounds by the cap plus the revisions spent. Neither is inductive alone. With
  two iterations the presets need at most 28 of the 50 supersteps; a stored
  `max_research_rounds` above 11 would need more than 50, and the settings
  endpoint accepts it.
* `KeepsBudgetHolds`: the refinement, step by step under `Paced`.
* `NoThrashHolds`, `NoEmptyRoundHolds`, `FollowUpsSearchedHolds` share one
  invariant, `Booked`: what waits is new or was asked for, waits only at the
  researcher, and every follow-up waits or has been searched.
* `NotesGuideRewriteHolds`, from the fact that notes live from a verification
  to the next search or rewrite only.

`CoverageProofs`
* `TypeCorrect`.
* `GradesAreFreshHolds`, by `Replaced`: outside the ranker's own step, a
  confidence that is not of the last pass belongs to a degraded pass or to a
  topic without a kept source, and those are not used.
* `OneShotsNotSwallowedHolds`, by `Decided`: a round after the first knows how the
  first one went, and after an early exit the leaves that were judged still have
  the scores they were judged by.
* `NoModelToldHolds`, by `Marked`: a kept source that was ranked for want of a model
  implies `reranker_degraded`, through any loads, restarts, other runs and models
  that break. Of made-up scores of a model that broke the code says nothing; that
  is the violation `unmeasured_early_exit`.

`VaultProofs`
* `TypeCorrect`, which needs that each program counter has its locals set
  (`HasLocals`) and that every salt in use has been drawn (`Salted`).
* `NotTornHolds`, for any number of callers that do not use `set_key`, by `Whole`.
  With `set_key` two callers break it, as described under the violations.
* `KeysDurableForOne`, `MemoryAgreesForOne`, for a single caller
  with all operations and faults, failing reads among them. `Lasting` says, for every program counter,
  what is already in the rows and what the local variables hold: it goes on
  until a password change is cut or a row is taken for absent. `Drawn`, that nothing is sealed with a salt
  before it is drawn, is what makes a new verifier over old rows open nothing.
  For two callers the first two fail, and the code has nothing to keep two
  callers apart; see the hazards.

`SubtopicTreeProofs`
* `TypeCorrect` and `ParentsOlderHolds`, from one inductive invariant `Base`: an
  id in use has been handed out (`IdsUsed`), a decision waits only at the gate
  (`DecidedAtGate`), follow-ups in flight exist only inside the gap analysis
  (`AddedInGap`). Ages need the first, types the other two.
* `NodesHaveRowsHolds`, inductive on top of `Base`.
* `ParentsFirstHolds`: each rebuild keeps the order if the items that name each
  other are sorted (`Related` for plans, seeds and edits, then
  `InsertedParentsFirst`), and a follow-up sorts below its parent because its
  depth exceeds all depths of the tree (`FollowUpsBelow`).
* `TreeKeptHolds`, an action property, from `ParentsFirst` and `Distinct`: ids and
  origins name one node each, and follow-ups are younger than the tree they join.
  A rebuild then inserts a node's item after its parent's, which is the only one
  known under that id (`RedrawnStays`).

`WriteTxProofs`
* `TypeCorrect`, `NothingHalfHolds` and `LocksGivenBackAlways`, from one inductive
  invariant: who is in a transaction holds the lock and only writes ever are
  (`LockHeld`), nobody works on a schema that is being built (`SchemaHeld`), an
  unfinished call has nothing in the file (`Told`), and the connection sees the
  file and the statements of the transaction in progress (`Image`). That locks
  are given back is proved only; no run states it.
* `KeepsAtomicityHolds`: the refinement of `AtomicStore`. A commit is the only step
  that moves rows to the file, and it gives the truthful answer in the same step;
  every other end of a call answers with an error over an unchanged file.

`ReportRowsProofs`
* `TypeCorrect`, with `AtWork`: a writer's numbers are those of the ranking, and
  the claims in a pass's hands are the rows, or none because reading failed.
* `OneDraftAtEndHolds`, by `Drafting` (what the writer has done so far: no older
  claim, no verdict, a fresh report in each language that had its turn) and
  `OneDraft`, which carries it from the writer's return to the end.
* `GroundingOfItsDraftHolds`, by `OneDraft`: a pass counts claims of the draft that
  is on all rows.
* `CountsAgreeHolds`, by `Counting`. A pass that is cut off leaves verdicts in the
  rows that the next pass forgets and then counts again, so the two agree only
  because no pass leaves more than the next one repeats: the checked citations are
  the first ones in order, and at most `CheckCap` (`Prefix`). `Passing` says what
  the current pass has found of them; when it stops at the cap its citations are
  all that were ever checked, by their number. Were the order of claims not that
  of their ids, or the cap changed between passes, this argument would fail.
* `CitedIsListedHolds`, by `Numbered` (drafts are numbered upwards; what the writer
  has stored of the present draft was numbered by the present ranking, in claims
  and in reports) and `Resolved`. A claim and a report of one draft were written
  in one execution of the synthesizer, hence with one list; an older claim that
  a failing deletion left behind never gets the number of a newer draft.

`NodeServicesProofs`, over `Evidence` and `Provider`, which share no state
* `EvidenceTypeCorrect`, `TrailToldHolds`.
* `VectorsFitHolds`, by `Ids` (ids are handed out once, and what has one was given
  it) and `Fit` (a chunk that waits for its vectors is still the one of its id,
  or is gone). This is where SQLite's AUTOINCREMENT is needed: with ids used again
  a stale vector would speak of a new chunk.
* `AnswersOwnRunHolds`, by `Owned` (a chunk has a source of its run) and `Asking`
  (what each step of an answer holds, whatever is deleted before the next).
* `CandidatesHaveRowsHolds`, by `Kept`: as long as its project exists, what a branch
  holds are rows.
* `ProviderTypeCorrect`, `CountedAsToldHolds`, by `Position` (the request in progress
  is the last one and open, and a stream is the first request of its call) and
  `Counts`: what was never seen told nothing, and only a stream that is over is
  estimated.

Model-checked only: all liveness, that is `CancelSticks`, `CancelStopsWork`,
`ApprovalTakesEffect`, `Answered`, `Terminates`.

## Not modelled

* `export.py` beyond which report, sources and markers it joins: the wording of
  Markdown, BibTeX, RIS, CSL, HTML, PDF and DOCX is layout.
* The parsers of the connectors and `pdf_extract`: each turns an answer of a
  service into hits or into nothing, which is how `Evidence` sees them.
* The signals of `scoring/*` and the adaptive cut: which candidates are kept, and
  with which confidence, is a choice in `Coverage` within what the loop can see.
* The embedding cache: a function from text to vector.
* A `ROLLBACK` that fails itself, a file that is corrupt.
* Running cost and quality scorecards, configuration, schemas, the command line.
* The browser, except as the one who opens, reopens, approves and cancels.

## Plan

Done: all modules above and their proofs. Left, in this order:

1. `Ranking`: the adaptive cut and the normalisation of scores over small lists,
   against a declarative reference.
2. The browser's reducer (`frontend/src/lib/sse.ts`) over repeated streams, and
   the running cost of a run over its streams.
3. The embedding cache with its writers, and deletion of a project during a run.
