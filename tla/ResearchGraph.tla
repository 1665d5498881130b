---------------------------- MODULE ResearchGraph ----------------------------
(***************************************************************************)
(* The state graph of one research run (graph/builder.py) and the control  *)
(* part of ResearchState that its nodes write.  RunLifecycle sees the loop *)
(* below as one stage, "research"; this module opens it up:                *)
(*                                                                         *)
(*   planner -> moderator -> approval -> researcher -> ranker              *)
(*     -> gap_analyzer -> (researcher | synthesizer) -> verifier           *)
(*     -> (synthesizer | researcher | finalizer) -> end                    *)
(*                                                                         *)
(* One action is one superstep: LangGraph runs a node, merges what it      *)
(* returns into the state and saves a checkpoint.  Topics are numbered in  *)
(* the order they were added, so the state holds the topics 1 .. size.     *)
(* What models and the web answer is left open; which topics are leaves of *)
(* the tree is left open too (SubtopicTree).                               *)
(***************************************************************************)
EXTENDS Naturals, FiniteSets

CONSTANTS
    MaxRounds,       \* max_research_rounds
    MaxIterations,   \* verifier_max_iterations
    MaxPlan,         \* max_subtopics
    MaxEdit,         \* bound on the topics a user leaves after editing the plan
    MaxTotal,        \* _MAX_TOTAL_SUBTOPICS
    MaxNew,          \* _MAX_NEW_SUBTOPICS
    MaxOutline,      \* _MAX_OUTLINE_ADD
    MaxReresearch,   \* _MAX_RERESEARCH
    RequireApproval, \* require_approval
    SnowballOn,      \* snowball and snowball_top_k > 0
    OutlineOn,       \* the preset's outline_revision
    RecursionLimit   \* supersteps LangGraph allows one invocation

ASSUME GraphAssumption ==
    /\ {MaxRounds, MaxPlan, MaxEdit, MaxTotal} \subseteq Nat \ {0}
    /\ {MaxIterations, MaxNew, MaxOutline, MaxReresearch} \subseteq Nat
    /\ RecursionLimit \in Nat
    /\ {RequireApproval, SnowballOn, OutlineOn} \subseteq BOOLEAN

VARIABLES
    node,         \* the node to run next
    size,         \* number of subtopics
    round,        \* research_round
    researched,   \* researched_subtopic_ids
    gapIds,       \* gap_subtopic_ids
    seeds,        \* snowball_seed_ids is non-empty
    needsMore,    \* needs_more_research
    reresearch,   \* reresearch_subtopic_ids
    reresearched, \* reresearched_subtopic_ids
    iteration,    \* verifier_iteration
    fatal,        \* verifier_fatal
    needsEvidence,\* verifier_needs_evidence
    notes,        \* issues among the verifier_notes
    steps,        \* supersteps of the current invocation
    outOfSteps,   \* the invocation was ended by its recursion limit
    \* history: topics at the gate, how often each topic was searched
    planned, visits

plan    == <<size, planned>>
loop    == <<round, researched, gapIds, seeds, needsMore>>
retry   == <<reresearch, reresearched>>
verdict == <<iteration, fatal, needsEvidence, notes>>
clock   == <<steps, outOfSteps>>
graphVars == <<node, plan, loop, retry, verdict, clock, visits>>

-----------------------------------------------------------------------------
Nodes == {"planner", "moderator", "approval", "researcher", "ranker",
          "gap_analyzer", "synthesizer", "verifier", "finalizer", "end"}

Issues == {"all_citations_dead", "sources_do_not_support"}

Larger(a, b) == IF a >= b THEN a ELSE b

\* No run has more subtopics than this.
SizeBound ==
    Larger(Larger(MaxPlan, MaxEdit), MaxTotal - 1 + Larger(MaxNew, MaxOutline))

Ids == 1 .. SizeBound
Topics == 1 .. size

\* initial_state
GraphInit ==
    /\ node = "planner"
    /\ size = 0
    /\ round = 0
    /\ researched = {}
    /\ gapIds = {}
    /\ seeds = FALSE
    /\ needsMore = FALSE
    /\ reresearch = {}
    /\ reresearched = {}
    /\ iteration = 0
    /\ fatal = FALSE
    /\ needsEvidence = FALSE
    /\ notes = {}
    /\ steps = 0
    /\ outOfSteps = FALSE
    /\ planned = 0
    /\ visits = [t \in Ids |-> 0]

\* LangGraph runs the node it stands at and goes on to another.
Superstep(from, to) ==
    /\ node = from
    /\ ~outOfSteps
    /\ steps < RecursionLimit
    /\ steps' = steps + 1
    /\ node' = to
    /\ UNCHANGED outOfSteps

-----------------------------------------------------------------------------
(***************************************************************************)
(* From the question to the approved plan                                  *)
(***************************************************************************)
\* At least the root question itself; nothing at all if the rows cannot be
\* written.
Planner ==
    /\ Superstep("planner", "moderator")
    /\ size' \in 0 .. MaxPlan
    /\ UNCHANGED <<planned, loop, retry, verdict, visits>>

\* Up to three more angles while there is room, unless there is no plan or the
\* model or the database fails.
Moderator ==
    /\ Superstep("moderator", "approval")
    /\ \E extra \in 0 .. 3 :
         /\ extra > 0 => size > 0 /\ size + extra <= MaxPlan
         /\ size' = size + extra
    /\ UNCHANGED <<planned, loop, retry, verdict, visits>>

\* require_approval is off: every topic is approved as it stands.
AutoApprove ==
    /\ ~RequireApproval
    /\ Superstep("approval", "researcher")
    /\ planned' = size
    /\ UNCHANGED <<size, loop, retry, verdict, visits>>

\* A decision resumes the graph in a new invocation: topics were dropped,
\* edited or added, or everything was rejected, which keeps the original plan.
Approve ==
    /\ RequireApproval
    /\ node = "approval"
    /\ node' = "researcher"
    /\ steps' = 1
    /\ outOfSteps' = FALSE
    /\ size' \in (1 .. MaxEdit) \cup {size}
    /\ planned' = size'
    /\ UNCHANGED <<loop, retry, verdict, visits>>

-----------------------------------------------------------------------------
(***************************************************************************)
(* The research rounds                                                     *)
(***************************************************************************)
\* What a round searches: in the first the leaves, afterwards the follow-ups
\* of the gap analysis; at any time what the verifier wants searched again.
Queue(leaves) ==
    (IF round = 0 THEN leaves ELSE (gapIds \cap Topics) \ researched)
        \cup (reresearch \cap Topics)

\* Mutant: keeps the notes that drove the search.
NotesKept == notes

NotesAfterSearch == {}

\* Every search may fail on its own: `found` are those that did not.  What the
\* round consumed is cleared, the verifier's notes with it.
Search(queue) ==
    /\ Superstep("researcher", "ranker")
    /\ \E found \in SUBSET queue : researched' = researched \cup found
    /\ visits' = [t \in Ids |-> visits[t] + (IF t \in queue THEN 1 ELSE 0)]
    /\ round' = round + 1
    /\ gapIds' = {}
    /\ seeds' = FALSE
    /\ reresearch' = {}
    /\ notes' = NotesAfterSearch
    /\ UNCHANGED <<plan, needsMore, reresearched, iteration, fatal, needsEvidence>>

Researcher ==
    \E leaves \in SUBSET Topics :
      /\ Topics # {} => leaves # {}
      /\ Search(Queue(leaves))

\* Scores and confidences are Coverage's subject.
Ranker ==
    /\ Superstep("ranker", "gap_analyzer")
    /\ UNCHANGED <<plan, loop, retry, verdict, visits>>

\* Mutant: always on to the synthesis.
AfterGapOnward(more) == "synthesizer"

\* route_after_gap
AfterGap(more) == IF more THEN "researcher" ELSE "synthesizer"

\* The round cap is reached, or every leaf is well covered, or something in the
\* node fails: on to the synthesis, and nothing else is written.
GapStop ==
    /\ Superstep("gap_analyzer", AfterGap(FALSE))
    /\ needsMore' = FALSE
    /\ UNCHANGED <<plan, round, researched, gapIds, seeds, retry, verdict, visits>>

\* Mutant: allows one round more than the cap.
RoomForRoundLate == round <= MaxRounds

RoomForRound == round < MaxRounds

\* How many follow-ups the gaps of `weak` leaves can lead to, and how many new
\* angles the sources: the ceiling is compared before topics are added.
FollowUps(weak) ==
    IF weak /\ size < MaxTotal THEN 0 .. MaxNew ELSE {0}

\* There are sources only if some search has succeeded.
HaveSources == researched # {}

Revisions(soFar) ==
    IF OutlineOn /\ round = 1 /\ soFar < MaxTotal /\ HaveSources
    THEN 0 .. MaxOutline ELSE {0}

\* Kept academic sources to snowball from, in the first round's analysis.
SeedsFound ==
    IF SnowballOn /\ round = 1 /\ ~seeds /\ HaveSources THEN BOOLEAN ELSE {FALSE}

\* Whether some leaf is under-covered; an empty tree has none.
LeavesWeak == IF Topics = {} THEN {FALSE} ELSE BOOLEAN

\* Mutant: goes on whenever a leaf is under-covered.
NeedsMoreIfWeak(weak, added, picked) == weak \/ added > 0 \/ picked

NeedsMore(weak, added, picked) == added > 0 \/ picked

\* The topics and seeds found are queued, and the loop goes on if there are any.
Expand(weak, picked, followUps, revisions) ==
    LET added == followUps + revisions
        more  == NeedsMore(weak, added, picked)
    IN  /\ Superstep("gap_analyzer", AfterGap(more))
        /\ needsMore' = more
        /\ size' = size + added
        /\ gapIds' = IF added > 0 THEN size + 1 .. size + added ELSE gapIds
        /\ seeds' = (seeds \/ picked)
        /\ UNCHANGED <<planned, round, researched, retry, verdict, visits>>

GapExpand ==
    /\ RoomForRound
    /\ \E weak \in LeavesWeak, picked \in SeedsFound :
       \E followUps \in FollowUps(weak) :
       \E revisions \in Revisions(size + followUps) :
         Expand(weak, picked, followUps, revisions)

-----------------------------------------------------------------------------
(***************************************************************************)
(* Writing and verifying the report                                        *)
(***************************************************************************)
\* What the synthesizer stores is RunRows' subject; of the control state it
\* writes nothing, and it reads the notes.
Synthesizer ==
    /\ Superstep("synthesizer", "verifier")
    /\ UNCHANGED <<plan, loop, retry, verdict, visits>>

\* route_after_verify: dead links first, then missing evidence.
AfterVerify(dead, unsupported) ==
    IF dead THEN "synthesizer" ELSE IF unsupported THEN "researcher" ELSE "finalizer"

\* Mutant: does not remember what was searched again.
RememberNothing(again) == reresearched

Remember(again) == reresearched \cup again

\* Mutant: goes round as long as there is something to repair.
IterationLeftAlways == iteration <= MaxIterations

IterationLeft == iteration < MaxIterations

\* Mutant: the counter is not advanced.
IterationForgotten == iteration

NextIteration == iteration + 1

\* `dead`: a claim has lost all its checked citations; `unsupported`: topics of
\* claims that none of their sources support, those not yet searched again.
Judge(dead, unsupported) ==
    LET isFatal  == dead /\ IterationLeft
        isWanted == unsupported # {} /\ ~isFatal /\ IterationLeft
    IN  /\ Superstep("verifier", AfterVerify(isFatal, isWanted))
        /\ iteration' = NextIteration
        /\ fatal' = isFatal
        /\ needsEvidence' = isWanted
        /\ notes' = (IF dead THEN {"all_citations_dead"} ELSE {})
                      \cup (IF unsupported # {} THEN {"sources_do_not_support"} ELSE {})
        /\ reresearch' = IF isWanted THEN unsupported ELSE reresearch
        /\ reresearched' = IF isWanted THEN Remember(unsupported) ELSE reresearched
        /\ UNCHANGED <<plan, loop, visits>>

Verifier ==
    \E dead \in BOOLEAN,
       unsupported \in {S \in SUBSET (Topics \ reresearched) :
                          Cardinality(S) <= MaxReresearch} :
      Judge(dead, unsupported)

Finalizer ==
    /\ Superstep("finalizer", "end")
    /\ UNCHANGED <<plan, loop, retry, verdict, visits>>

-----------------------------------------------------------------------------
\* LangGraph gives up: GraphRecursionError, which run_stream reports as a
\* failed run.
OutOfSteps ==
    /\ node # "end"
    /\ ~outOfSteps
    /\ steps >= RecursionLimit
    /\ outOfSteps' = TRUE
    /\ UNCHANGED <<node, plan, loop, retry, verdict, steps, visits>>

\* A disconnect, crash, error or restart loses the superstep under way, and a
\* later stream continues from the checkpoint with a count of its own.
Resume ==
    /\ node # "end"
    /\ steps' = 0
    /\ outOfSteps' = FALSE
    /\ UNCHANGED <<node, plan, loop, retry, verdict, visits>>

Step ==
    \/ Planner \/ Moderator \/ AutoApprove \/ Approve
    \/ Researcher \/ Ranker \/ GapStop \/ GapExpand
    \/ Synthesizer \/ Verifier \/ Finalizer

GraphNext == Step \/ OutOfSteps \/ Resume

GraphSpec == GraphInit /\ [][GraphNext]_graphVars

\* Every node returns in the end, or LangGraph gives up, and a decision comes in
\* the end: what is left to show is that the loops do.
GraphFairSpec == GraphSpec /\ WF_graphVars(Step \/ OutOfSteps)

-----------------------------------------------------------------------------
(***************************************************************************)
(* Properties                                                              *)
(***************************************************************************)
\* Every part of the state has its type; the topics stay within SizeBound.
GraphTypeOK ==
    /\ node \in Nodes
    /\ size \in 0 .. SizeBound
    /\ round \in Nat
    /\ researched \in SUBSET Ids
    /\ gapIds \in SUBSET Ids
    /\ seeds \in BOOLEAN
    /\ needsMore \in BOOLEAN
    /\ reresearch \in SUBSET Ids
    /\ reresearched \in SUBSET Ids
    /\ iteration \in Nat
    /\ fatal \in BOOLEAN
    /\ needsEvidence \in BOOLEAN
    /\ notes \in SUBSET Issues
    /\ steps \in Nat
    /\ outOfSteps \in BOOLEAN
    /\ planned \in 0 .. SizeBound
    /\ visits \in [Ids -> Nat]

\* The limit of 50 supersteps in runner.py is never what ends a run: the round
\* cap, the evidence loop and the rewrites together stay below it, whatever the
\* models answer and wherever the run was interrupted and resumed.
NeverOutOfSteps == ~outOfSteps

\* Each trip back to the researcher has something to search: no round, and no
\* part of the recursion limit, is spent on an empty queue.
NoEmptyRound ==
    node = "researcher" /\ round > 0
        => (gapIds \cap Topics) \ researched # {} \/ seeds \/ reresearch \cap Topics # {}

\* A topic is searched once, and once more if the verifier asked for it
\* (state.py:67 "a subtopic is re-researched at most once (no thrash)").
NoThrash ==
    \A t \in Ids : visits[t] <= 1 + (IF t \in reresearched THEN 1 ELSE 0)

\* Every follow-up the gap analysis added has been searched before any report
\* is written.
FollowUpsSearched ==
    node \in {"synthesizer", "verifier", "finalizer", "end"}
        => \A t \in planned + 1 .. size : visits[t] > 0

\* A rewrite is told of dead links exactly when they caused it; after more
\* evidence was looked for, no stale note makes it hedge (researcher.py:514).
NotesGuideRewrite ==
    node = "synthesizer" => (fatal <=> notes # {}) /\ (fatal => "all_citations_dead" \in notes)

BudgetPhase(n) ==
    CASE n \in {"planner", "moderator", "approval"}     -> "prepare"
      [] n \in {"researcher", "ranker", "gap_analyzer"} -> "gather"
      [] n \in {"synthesizer", "verifier"}              -> "write"
      [] OTHER                                          -> "over"

Budget == INSTANCE ResearchBudget WITH
    phase  <- BudgetPhase(node),
    rounds <- IF node \in {"ranker", "gap_analyzer"} THEN round - 1 ELSE round,
    drafts <- iteration

\* The graph implements ResearchBudget: rounds and drafts are spent from two
\* limited budgets, and a run is over only after its last draft was verified.
KeepsBudget == Budget!Spec

\* If its nodes return, the graph comes to rest once it has begun: at its end, or
\* cut off by the recursion limit and not continued.
Terminates == node # "planner" ~> [](node = "end" \/ outOfSteps)
=============================================================================
