------------------------------- MODULE Coverage -------------------------------
(***************************************************************************)
(* How the research loop learns that it knows enough: the re-ranker        *)
(* (embeddings/reranker.py), what the ranker node makes of its scores, and *)
(* the grades by which the gap analyzer ends the loop.                     *)
(*                                                                         *)
(* The re-ranker's mode belongs to the process: it is found out on first   *)
(* use, by whichever run comes first, and forgotten in a restart.  What    *)
(* the nodes return belongs to the run and is checkpointed.  The rest of   *)
(* the loop (ResearchGraph) is reduced to what adds topics and sources.    *)
(*                                                                         *)
(* A confidence is the band it falls into between the two thresholds of    *)
(* gap.py; scores made up in the order of the search are 1, 0.99, ...,     *)
(* whose sigmoids lie above the upper one.                                 *)
(***************************************************************************)
EXTENDS Naturals

CONSTANTS
    Topics,       \* sub-questions the tree can come to hold
    MaxFound,     \* bound on the candidates of one topic
    MaxRounds,    \* max_research_rounds
    MaxRetries,   \* times the verifier may ask for more evidence
    GapMin,       \* gap_min_sources
    CragOn,       \* the preset's crag
    SnowballOn,   \* snowball and snowball_top_k > 0
    OutlineOn,    \* the preset's outline_revision
    Faults,       \* "failing_load", "failing_inference", "failing_scoring", "restart"
    None          \* no confidence

ASSUME CoverageAssumption ==
    /\ {MaxFound, MaxRounds, MaxRetries, GapMin} \subseteq Nat
    /\ {CragOn, SnowballOn, OutlineOn} \subseteq BOOLEAN
    /\ None \notin {"weak", "ambiguous", "sufficient"}

VARIABLES
    mode,        \* _mode of the re-ranker
    node,        \* the node to run next; "synthesizer" for all that follows
    round,       \* research_round
    known,       \* subtopics
    queue,       \* gap_subtopic_ids and reresearch_subtopic_ids
    seeds,       \* snowball_seed_ids is non-empty
    found,       \* candidates of each topic
    kept,        \* ranked_sources of each topic
    confidence,  \* rerank_confidence
    degraded,    \* reranker_degraded
    \* history: where the last scores of each topic came from, the topics whose
    \* confidence the last ranker pass wrote, how the analysis of round 1 went,
    \* how the loop was left and for which leaves, retries used
    origin, fresh, first, exit, judged, retries

tree    == <<known, queue, seeds>>
scores  == <<kept, confidence, degraded, origin, fresh>>
leaving == <<first, exit, judged>>
vars    == <<mode, node, round, tree, found, scores, leaving, retries>>

-----------------------------------------------------------------------------
Bands == {"weak", "ambiguous", "sufficient"}
Nodes == {"researcher", "ranker", "gap_analyzer", "synthesizer"}
Loaded == {"cross_encoder"} \cup (IF "failing_load" \in Faults THEN {"identity"} ELSE {})
Modes == {"unloaded", "cross_encoder", "identity"}

Counts == 0 .. MaxFound
NoCounts == [t \in Topics |-> 0]

Init ==
    /\ mode \in {"unloaded"} \cup Loaded
    /\ node = "researcher"
    /\ round = 0
    /\ known \in (SUBSET Topics) \ {{}}
    /\ queue = known
    /\ seeds = FALSE
    /\ found = NoCounts
    /\ kept = NoCounts
    /\ confidence = [t \in Topics |-> None]
    /\ degraded = FALSE
    /\ origin = [t \in Topics |-> "none"]
    /\ fresh = {}
    /\ first = "open"
    /\ exit = "none"
    /\ judged = {}
    /\ retries = 0

\* _load: the first use settles the mode for the life of the process.
ModeAfterUse == IF mode = "unloaded" THEN Loaded ELSE {mode}

-----------------------------------------------------------------------------
(***************************************************************************)
(* researcher                                                              *)
(***************************************************************************)
\* Searches what is queued, and the citations of the seeds, whose finds count
\* for any topic.  More hits than the cap are re-ranked first.
Researcher ==
    /\ node = "researcher"
    /\ node' = "ranker"
    /\ round' = round + 1
    /\ found' \in {f \in [Topics -> Counts] : \A t \in Topics :
                     /\ f[t] >= found[t]
                     /\ f[t] > found[t] => t \in queue \/ (seeds /\ t \in known)}
    /\ mode' \in {mode} \cup ModeAfterUse
    /\ queue' = {}
    /\ seeds' = FALSE
    /\ UNCHANGED <<known, scores, leaving, retries>>

-----------------------------------------------------------------------------
(***************************************************************************)
(* ranker                                                                  *)
(***************************************************************************)
Groups == {t \in Topics : found[t] > 0}

\* How the scoring of one group can go: the model's scores; made-up ones,
\* because there is no model or because its inference fails; an exception; and
\* a neutral breakdown for every source.
Scored == {"measured", "no_model", "broken"}

Outcomes(m) ==
    (IF m = "identity" THEN {"no_model"} ELSE {"measured"})
      \cup (IF "failing_inference" \in Faults /\ m # "identity" THEN {"broken"} ELSE {})
      \cup (IF "failing_scoring" \in Faults THEN {"raised", "neutral"} ELSE {})

\* The bands a group's confidence may fall into: measured scores anywhere,
\* made-up ones at the top, unless the mode says that there is no model.
BandsOf(outcome, m) ==
    IF m # "cross_encoder" \/ outcome \notin Scored THEN {None}
    ELSE IF outcome = "broken" THEN {"sufficient"} ELSE Bands

\* What is kept of a group is Ranking's subject.
KeptOf(outcome, n) == IF outcome \in Scored THEN 0 .. n ELSE {0}

\* Mutant: asks for the mode before there was any use of the re-ranker.
DegradedBefore(scored, m) == scored # {} /\ mode = "identity"

Degraded(scored, m) == scored # {} /\ m = "identity"

Merge(conf) == IF \E t \in Topics : conf[t] # None THEN conf ELSE confidence

\* All candidates of all rounds are scored again.  A pass without any
\* confidence leaves those of the pass before.
Rank(outcome, m) ==
    LET scored   == {t \in Groups : outcome[t] # "raised"}
        reranked == {t \in Groups : outcome[t] \in Scored}
    IN  /\ mode' = m
        /\ kept' \in {k \in [Topics -> Counts] : \A t \in Topics :
                        k[t] \in IF t \in Groups THEN KeptOf(outcome[t], found[t]) ELSE {0}}
        /\ \E conf \in [Topics -> Bands \cup {None}] :
             /\ \A t \in Topics :
                  conf[t] \in IF t \in Groups THEN BandsOf(outcome[t], m) ELSE {None}
             /\ confidence' = Merge(conf)
             /\ fresh' = {t \in Topics : conf[t] # None}
        /\ degraded' = Degraded(scored, m)
        /\ origin' = [t \in Topics |-> IF t \in reranked THEN outcome[t] ELSE "none"]

Ranker ==
    /\ node = "ranker"
    /\ node' = "gap_analyzer"
    /\ \E m \in (IF Groups = {} THEN {mode} ELSE {mode} \cup ModeAfterUse) :
       \E outcome \in [Groups -> Scored \cup {"raised", "neutral"}] :
         /\ \A t \in Groups : outcome[t] \in Outcomes(m)
         /\ m = "unloaded" => \A t \in Groups : outcome[t] = "raised"
         /\ Rank(outcome, m)
    /\ UNCHANGED <<round, tree, found, leaving, retries>>

-----------------------------------------------------------------------------
(***************************************************************************)
(* gap_analyzer                                                            *)
(***************************************************************************)
\* Mutant: does not ask whether the re-ranker was degraded.
UsesConfidenceAnyway(t) == CragOn /\ confidence[t] # None /\ kept[t] > 0

UsesConfidence(t) == CragOn /\ ~degraded /\ confidence[t] # None /\ kept[t] > 0

\* _grade_coverage: by confidence if there is one, by number of sources if not.
UnderCovered(t) ==
    IF UsesConfidence(t) THEN confidence[t] # "sufficient" ELSE kept[t] < GapMin

AllSufficient(leaves) ==
    \A t \in leaves : UsesConfidence(t) /\ ~UnderCovered(t)

\* Mutant: does not wait for the passes of the first round.
PendingNever == FALSE

OneShotPending == round = 1 /\ (SnowballOn \/ OutlineOn)

Leave(reason, leaves) ==
    /\ node' = "synthesizer"
    /\ exit' = reason
    /\ judged' = leaves
    /\ UNCHANGED <<mode, round, tree, found, scores, retries>>

AfterFirst(how) == first' = IF round = 1 THEN how ELSE first

CapReached ==
    /\ node = "gap_analyzer"
    /\ round >= MaxRounds
    /\ Leave("cap", {})
    /\ UNCHANGED first

EarlyExit(leaves) ==
    /\ node = "gap_analyzer"
    /\ round < MaxRounds
    /\ AllSufficient(leaves)
    /\ ~OneShotPending
    /\ Leave("early", leaves)
    /\ UNCHANGED first

\* Any exception ends the loop.
GapFails ==
    /\ node = "gap_analyzer"
    /\ Leave("failed", {})
    /\ AfterFirst("failed")

\* Follow-ups for gaps, new angles and seeds in the first round; without any
\* of them the loop is over too.
Expand(leaves) ==
    /\ node = "gap_analyzer"
    /\ round < MaxRounds
    /\ ~AllSufficient(leaves) \/ OneShotPending
    /\ \E new \in SUBSET (Topics \ known), picked \in BOOLEAN :
         /\ new # {} => (\E t \in leaves : UnderCovered(t)) \/ (OutlineOn /\ round = 1)
         /\ picked => SnowballOn /\ round = 1 /\ \E t \in Topics : kept[t] > 0
         /\ known' = known \cup new
         /\ queue' = queue \cup new
         /\ seeds' = picked
         /\ IF new # {} \/ picked
            THEN node' = "researcher" /\ UNCHANGED <<exit, judged>>
            ELSE node' = "synthesizer" /\ exit' = "nothing" /\ judged' = leaves
    /\ AfterFirst("done")
    /\ UNCHANGED <<mode, round, found, scores, retries>>

-----------------------------------------------------------------------------
(***************************************************************************)
(* Around the loop                                                         *)
(***************************************************************************)
\* The verifier sends topics back that need other evidence.
ReResearch ==
    /\ node = "synthesizer"
    /\ retries < MaxRetries
    /\ retries' = retries + 1
    /\ queue' \in (SUBSET known) \ {{}}
    /\ node' = "researcher"
    /\ exit' = "none"
    /\ judged' = {}
    /\ UNCHANGED <<mode, round, known, seeds, found, scores, first>>

\* Another run of the same process uses the re-ranker.
OtherRun ==
    /\ mode = "unloaded"
    /\ mode' \in Loaded
    /\ UNCHANGED <<node, round, tree, found, scores, leaving, retries>>

\* The process is started again; the run continues from its checkpoint.
Restart ==
    /\ "restart" \in Faults
    /\ mode # "unloaded"
    /\ mode' = "unloaded"
    /\ UNCHANGED <<node, round, tree, found, scores, leaving, retries>>

Next ==
    \/ Researcher \/ Ranker
    \/ CapReached \/ GapFails
    \/ \E leaves \in (SUBSET known) \ {{}} : EarlyExit(leaves) \/ Expand(leaves)
    \/ ReResearch \/ OtherRun \/ Restart

Spec == Init /\ [][Next]_vars

-----------------------------------------------------------------------------
(***************************************************************************)
(* Properties                                                              *)
(***************************************************************************)
\* Every part of the state has its type.
TypeOK ==
    /\ mode \in Modes
    /\ node \in Nodes
    /\ round \in Nat
    /\ known \in SUBSET Topics
    /\ queue \in SUBSET Topics
    /\ seeds \in BOOLEAN
    /\ found \in [Topics -> Counts]
    /\ kept \in [Topics -> Counts]
    /\ confidence \in [Topics -> Bands \cup {None}]
    /\ degraded \in BOOLEAN
    /\ origin \in [Topics -> Scored \cup {"none"}]
    /\ fresh \in SUBSET Topics
    /\ first \in {"open", "done", "failed"}
    /\ exit \in {"none", "cap", "early", "failed", "nothing"}
    /\ judged \in SUBSET Topics
    /\ retries \in 0 .. MaxRetries

\* state.py:87 "last-write-wins is complete each pass": no topic is graded by a
\* confidence that an earlier pass of the ranker left behind.
GradesAreFresh ==
    node = "gap_analyzer" => \A t \in Topics : UsesConfidence(t) => t \in fresh

\* gap.py:185 "never let it pre-empt the one-shot round-1 passes": whoever
\* leaves early has been through them, unless the analysis of round 1 failed.
OneShotsNotSwallowed == exit = "early" /\ (SnowballOn \/ OutlineOn) => first # "open"

\* scoring/ranker.py:411 "ONLY meaningful with a real cross-encoder": the loop
\* is left early only on scores that a model measured.  Not so once a model
\* breaks after it was loaded.
EarlyExitEarned == exit = "early" => \A t \in judged : origin[t] = "measured"

\* ranker.py:140 "never a silently-stale value across rounds/resume": a report
\* for which a source was ranked without a model says so, and the loop before
\* it was not left early.
NoModelTold ==
    node = "synthesizer"
        => ((\E t \in Topics : kept[t] > 0 /\ origin[t] = "no_model")
              => degraded /\ exit # "early")
=============================================================================
