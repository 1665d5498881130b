------------------------- MODULE ResearchGraphProofs -------------------------
(***************************************************************************)
(* Theorems about ResearchGraph, for any plan, ceiling, round cap and      *)
(* iteration cap, and whatever models and searches answer.                 *)
(***************************************************************************)
EXTENDS ResearchGraph, TLAPS

USE DEF plan, loop, retry, verdict, clock

\* The larger of two numbers bounds both.
LEMMA LargerBounds ==
  ASSUME NEW a \in Nat, NEW b \in Nat
  PROVE  /\ Larger(a, b) \in Nat
         /\ a <= Larger(a, b)
         /\ b <= Larger(a, b)
BY DEF Larger

\* Plan, edited plan, and a tree just below the ceiling with one batch of
\* follow-ups or revisions on top all fit into SizeBound.
LEMMA SizeBoundFits ==
  /\ SizeBound \in Nat
  /\ MaxPlan <= SizeBound
  /\ MaxEdit <= SizeBound
  /\ \A n \in Nat : n < MaxTotal =>
        n + MaxNew <= SizeBound /\ n + MaxOutline <= SizeBound
<1> DEFINE batch == Larger(MaxNew, MaxOutline)
<1> DEFINE grown == MaxTotal - 1 + batch
<1>1. batch \in Nat /\ MaxNew <= batch /\ MaxOutline <= batch
  BY GraphAssumption, LargerBounds
<1>2. grown \in Nat /\ MaxTotal \in Nat
  <2> HIDE DEF batch
  <2> QED BY <1>1, GraphAssumption
<1>3. /\ Larger(MaxPlan, MaxEdit) \in Nat
      /\ MaxPlan <= Larger(MaxPlan, MaxEdit)
      /\ MaxEdit <= Larger(MaxPlan, MaxEdit)
  BY GraphAssumption, LargerBounds
<1>4. /\ SizeBound \in Nat
      /\ Larger(MaxPlan, MaxEdit) <= SizeBound
      /\ grown <= SizeBound
  BY <1>2, <1>3, LargerBounds DEF SizeBound
<1> HIDE DEF batch
<1>5. MaxPlan <= SizeBound /\ MaxEdit <= SizeBound
  BY <1>3, <1>4, GraphAssumption
<1>6. ASSUME NEW n \in Nat, n < MaxTotal
      PROVE  n + MaxNew <= SizeBound /\ n + MaxOutline <= SizeBound
  BY <1>1, <1>2, <1>4, <1>6, GraphAssumption
<1> QED
  BY <1>4, <1>5, <1>6

-----------------------------------------------------------------------------
(***************************************************************************)
(* Types                                                                   *)
(***************************************************************************)
\* What a gap analysis can add keeps the tree within its bound.
LEMMA AddedFits ==
  ASSUME GraphTypeOK, NEW weak, NEW followUps \in FollowUps(weak),
         NEW revisions \in Revisions(size + followUps)
  PROVE  /\ followUps \in Nat
         /\ revisions \in Nat
         /\ size + (followUps + revisions) \in 0 .. SizeBound
<1>1. size \in Nat /\ size <= SizeBound
  BY SizeBoundFits DEF GraphTypeOK
<1>2. /\ followUps \in Nat
      /\ followUps = 0 \/ (followUps <= MaxNew /\ size < MaxTotal)
  BY GraphAssumption DEF FollowUps
<1>3. /\ revisions \in Nat
      /\ revisions = 0 \/ (revisions <= MaxOutline /\ size + followUps < MaxTotal)
  BY GraphAssumption DEF Revisions
<1>4. size + followUps <= SizeBound
  BY <1>1, <1>2, SizeBoundFits, GraphAssumption
<1>5. size + followUps \in Nat
  BY <1>1, <1>2
<1>6. (size + followUps) + revisions <= SizeBound
  BY <1>3, <1>4, <1>5, SizeBoundFits, GraphAssumption
<1> QED
  BY <1>1, <1>2, <1>3, <1>6, SizeBoundFits

LEMMA InitTypes == GraphInit => GraphTypeOK
<1> SUFFICES ASSUME GraphInit PROVE GraphTypeOK
  OBVIOUS
<1>1. 0 \in 0 .. SizeBound
  BY SizeBoundFits
<1>2. visits \in [Ids -> Nat]
  BY DEF GraphInit
<1>3. /\ {researched, gapIds, reresearch, reresearched} \subseteq SUBSET Ids
      /\ notes \in SUBSET Issues
      /\ {seeds, needsMore, fatal, needsEvidence, outOfSteps} \subseteq BOOLEAN
  BY DEF GraphInit
<1>4. node \in Nodes /\ {round, iteration, steps} \subseteq Nat
  BY DEF GraphInit, Nodes
<1> QED
  BY <1>1, <1>2, <1>3, <1>4 DEF GraphInit, GraphTypeOK

LEMMA StepTypes == GraphTypeOK /\ [GraphNext]_graphVars => GraphTypeOK'
<1> SUFFICES ASSUME GraphTypeOK, [GraphNext]_graphVars PROVE GraphTypeOK'
  OBVIOUS
<1> USE GraphAssumption, SizeBoundFits DEF GraphTypeOK, Superstep, Nodes
<1>1. CASE Planner
  BY <1>1 DEF Planner
<1>2. CASE Moderator
  BY <1>2 DEF Moderator
<1>3. CASE AutoApprove
  BY <1>3 DEF AutoApprove
<1>4. CASE Approve
  <2>1. size' \in 0 .. SizeBound /\ planned' = size'
    BY <1>4 DEF Approve
  <2>2. node' \in Nodes /\ steps' \in Nat /\ outOfSteps' \in BOOLEAN
    BY <1>4 DEF Approve
  <2> QED
    BY <1>4, <2>1, <2>2 DEF Approve
<1>5. CASE Researcher
  <2>1. PICK leaves \in SUBSET Topics : Search(Queue(leaves))
    BY <1>5 DEF Researcher
  <2>2. Queue(leaves) \subseteq Ids
    BY <2>1 DEF Queue, Topics, Ids
  <2>3. researched' \in SUBSET Ids
    BY <2>1, <2>2 DEF Search
  <2>4. visits' \in [Ids -> Nat]
    BY <2>1 DEF Search
  <2>5. /\ {gapIds, reresearch}' \subseteq SUBSET Ids
        /\ seeds' \in BOOLEAN /\ notes' \in SUBSET Issues
    BY <2>1 DEF Search, NotesAfterSearch
  <2>6. node' \in Nodes /\ steps' \in Nat /\ round' \in Nat
    BY <2>1 DEF Search
  <2> QED
    BY <2>1, <2>3, <2>4, <2>5, <2>6 DEF Search
<1>6. CASE Ranker
  BY <1>6 DEF Ranker
<1>7. CASE GapStop
  <2>1. node' \in Nodes /\ steps' \in Nat
    BY <1>7 DEF GapStop, AfterGap
  <2>2. needsMore' \in BOOLEAN
    BY <1>7 DEF GapStop
  <2> QED
    BY <1>7, <2>1, <2>2 DEF GapStop
<1>8. CASE GapExpand
  <2>1. PICK weak \in LeavesWeak, picked \in SeedsFound :
          \E followUps \in FollowUps(weak) :
          \E revisions \in Revisions(size + followUps) :
            Expand(weak, picked, followUps, revisions)
    BY <1>8 DEF GapExpand
  <2>2. PICK followUps \in FollowUps(weak) :
          \E revisions \in Revisions(size + followUps) :
            Expand(weak, picked, followUps, revisions)
    BY <2>1
  <2>3. PICK revisions \in Revisions(size + followUps) :
            Expand(weak, picked, followUps, revisions)
    BY <2>2
  <2>4. /\ followUps \in Nat
        /\ revisions \in Nat
        /\ size + (followUps + revisions) \in 0 .. SizeBound
    BY AddedFits
  <2>5. picked \in BOOLEAN /\ weak \in BOOLEAN
    BY DEF SeedsFound, LeavesWeak
  <2>6. size' \in 0 .. SizeBound
    <3>1. size' = size + (followUps + revisions)
      BY <2>3 DEF Expand
    <3> QED
      BY <2>4, <3>1
  <2>9. gapIds' \in SUBSET Ids
    <3>1. size + 1 .. size + (followUps + revisions) \subseteq Ids
      BY <2>4 DEF Ids
    <3>2. gapIds' \in {gapIds, size + 1 .. size + (followUps + revisions)}
      BY <2>3 DEF Expand
    <3> QED
      BY <3>1, <3>2
  <2>7. needsMore' \in BOOLEAN /\ seeds' \in BOOLEAN
    BY <2>3, <2>5 DEF Expand, NeedsMore
  <2>8. node' \in Nodes /\ steps' \in Nat /\ UNCHANGED outOfSteps
    BY <2>3 DEF Expand, AfterGap
  <2> QED
    BY <2>3, <2>6, <2>7, <2>8, <2>9 DEF Expand
<1>9. CASE Synthesizer
  BY <1>9 DEF Synthesizer
<1>10. CASE Verifier
  <2>1. PICK dead \in BOOLEAN, unsupported \in SUBSET (Topics \ reresearched) :
          Judge(dead, unsupported)
    BY <1>10 DEF Verifier
  <2>2. unsupported \subseteq Ids
    BY <2>1 DEF Topics, Ids
  <2>3. reresearch' \in SUBSET Ids /\ reresearched' \in SUBSET Ids
    BY <2>1, <2>2 DEF Judge, Remember
  <2>4. fatal' \in BOOLEAN /\ needsEvidence' \in BOOLEAN /\ notes' \in SUBSET Issues
    BY <2>1 DEF Judge, Issues, IterationLeft
  <2>5. node' \in Nodes /\ steps' \in Nat /\ UNCHANGED outOfSteps
    BY <2>1 DEF Judge, AfterVerify
  <2> QED
    BY <2>1, <2>3, <2>4, <2>5 DEF Judge, NextIteration
<1>11. CASE Finalizer
  BY <1>11 DEF Finalizer
<1>12. CASE OutOfSteps
  BY <1>12 DEF OutOfSteps
<1>13. CASE Resume
  BY <1>13 DEF Resume
<1>14. CASE UNCHANGED graphVars
  BY <1>14 DEF graphVars
<1> QED
  BY <1>1, <1>2, <1>3, <1>4, <1>5, <1>6, <1>7, <1>8, <1>9, <1>10, <1>11, <1>12,
     <1>13, <1>14 DEF GraphNext, Step

\* Type correctness, and with it the bound on the size of the tree: repeated
\* rounds cannot grow the decomposition beyond SizeBound (gap.py:31).
THEOREM TypeCorrect == GraphSpec => []GraphTypeOK
<1> QED
  BY InitTypes, StepTypes, PTL DEF GraphSpec

-----------------------------------------------------------------------------
(***************************************************************************)
(* The recursion limit                                                     *)
(***************************************************************************)
Preparing == node \in {"planner", "moderator", "approval"}

\* Revisions spent so far: the last verification spends none.
Spent == IF iteration <= MaxIterations THEN iteration ELSE MaxIterations

\* Rounds and iterations stay within their caps: one extra round for every
\* revision spent.
Capped ==
    /\ iteration <= MaxIterations + 1
    /\ round <= MaxRounds + Spent
    /\ Preparing => round = 0 /\ iteration = 0
    /\ node = "researcher" => round < MaxRounds + Spent
    /\ node \in {"ranker", "gap_analyzer"} => round >= 1
    /\ node \notin {"finalizer", "end"} => iteration <= MaxIterations

\* The supersteps that can lead to each node: three to reach the loops, three
\* for each round and two for each draft.
StepsTo ==
    CASE node = "planner"      -> 0
      [] node = "moderator"    -> 1
      [] node = "approval"     -> 2
      [] node = "ranker"       -> 3 * round + 2 * iteration + 1
      [] node = "gap_analyzer" -> 3 * round + 2 * iteration + 2
      [] node \in {"researcher", "synthesizer", "finalizer"}
                               -> 3 * round + 2 * iteration + 3
      [] OTHER                 -> 3 * round + 2 * iteration + 4

Paced == GraphTypeOK /\ Capped /\ steps <= StepsTo

LEMMA InitPaced == GraphInit => Paced
BY InitTypes, GraphAssumption DEF GraphInit, Paced, Capped, StepsTo, Spent, Preparing

LEMMA StepPaced == Paced /\ [GraphNext]_graphVars => Paced'
<1> SUFFICES ASSUME Paced, [GraphNext]_graphVars PROVE (Capped /\ steps <= StepsTo)'
  BY StepTypes DEF Paced
<1>0. /\ GraphTypeOK /\ Capped /\ steps <= StepsTo
      /\ round \in Nat /\ iteration \in Nat /\ steps \in Nat /\ node \in Nodes
  BY DEF Paced, GraphTypeOK
<1> USE <1>0, GraphAssumption DEF Capped, Spent, StepsTo, Preparing, Superstep, Nodes
<1>1. CASE Planner
  BY <1>1 DEF Planner
<1>2. CASE Moderator
  BY <1>2 DEF Moderator
<1>3. CASE AutoApprove
  BY <1>3 DEF AutoApprove
<1>4. CASE Approve
  BY <1>4 DEF Approve
<1>5. CASE Researcher
  <2>1. PICK leaves \in SUBSET Topics : Search(Queue(leaves))
    BY <1>5 DEF Researcher
  <2>2. /\ node = "researcher" /\ node' = "ranker"
        /\ round' = round + 1 /\ iteration' = iteration
        /\ steps' = steps + 1
    BY <2>1 DEF Search
  <2> QED
    BY <2>2
<1>6. CASE Ranker
  BY <1>6 DEF Ranker
<1>7. CASE GapStop
  BY <1>7 DEF GapStop, AfterGap
<1>8. CASE GapExpand
  <2>1. /\ node = "gap_analyzer" /\ node' \in {"researcher", "synthesizer"}
        /\ steps' = steps + 1 /\ round' = round /\ iteration' = iteration
        /\ round < MaxRounds
    BY <1>8 DEF GapExpand, Expand, AfterGap, RoomForRound
  <2> QED
    BY <2>1
<1>9. CASE Synthesizer
  BY <1>9 DEF Synthesizer
<1>10. CASE Verifier
  <2>1. /\ node = "verifier" /\ steps' = steps + 1
        /\ round' = round /\ iteration' = iteration + 1
        /\ \/ node' = "finalizer"
           \/ node' \in {"synthesizer", "researcher"} /\ iteration < MaxIterations
    BY <1>10 DEF Verifier, Judge, AfterVerify, NextIteration, IterationLeft
  <2> QED
    BY <2>1
<1>11. CASE Finalizer
  BY <1>11 DEF Finalizer
<1>12. CASE OutOfSteps
  BY <1>12 DEF OutOfSteps
<1>13. CASE Resume
  BY <1>13 DEF Resume
<1>14. CASE UNCHANGED graphVars
  BY <1>14 DEF graphVars
<1> QED
  BY <1>1, <1>2, <1>3, <1>4, <1>5, <1>6, <1>7, <1>8, <1>9, <1>10, <1>11, <1>12,
     <1>13, <1>14 DEF GraphNext, Step

\* A node is always reached with a superstep to spare.
LEMMA StepsLeft ==
  ASSUME Paced, 6 + 3 * MaxRounds + 5 * MaxIterations <= RecursionLimit,
         node # "end"
  PROVE  steps < RecursionLimit
<1>1. /\ round \in Nat /\ iteration \in Nat /\ steps \in Nat /\ node \in Nodes
      /\ MaxRounds \in Nat /\ MaxIterations \in Nat /\ RecursionLimit \in Nat
  BY GraphAssumption DEF Paced, GraphTypeOK
<1>2. round <= MaxRounds + MaxIterations /\ iteration <= MaxIterations + 1
  BY <1>1 DEF Paced, Capped, Spent
<1>3. node # "finalizer" => iteration <= MaxIterations
  BY <1>1 DEF Paced, Capped
<1>4. steps <= StepsTo
  BY DEF Paced
<1> QED
  BY <1>1, <1>2, <1>3, <1>4 DEF StepsTo, Nodes

\* With a recursion limit of 6 + 3 rounds + 5 iterations (runner.py's 50 is
\* above it for every preset), LangGraph never ends a run, from whatever
\* checkpoint it is resumed.
THEOREM NeverOutOfStepsHolds ==
  ASSUME 6 + 3 * MaxRounds + 5 * MaxIterations <= RecursionLimit
  PROVE  GraphSpec => []NeverOutOfSteps
<1> DEFINE Inv == Paced /\ NeverOutOfSteps
<1>1. GraphInit => Inv
  BY InitPaced DEF GraphInit, NeverOutOfSteps
<1>2. Inv /\ [GraphNext]_graphVars => Inv'
  <2> SUFFICES ASSUME Inv, [GraphNext]_graphVars PROVE NeverOutOfSteps'
    BY StepPaced
  <2>1. ~OutOfSteps
    BY StepsLeft, GraphAssumption DEF OutOfSteps, Paced, GraphTypeOK
  <2>2. CASE Step
    <3>1. CASE Approve
      BY <3>1 DEF Approve, NeverOutOfSteps
    <3>2. CASE ~Approve
      BY <2>2, <3>2 DEF Step, Planner, Moderator, AutoApprove, Researcher, Search,
         Ranker, GapStop, GapExpand, Expand, Synthesizer, Verifier, Judge, Finalizer,
         Superstep, NeverOutOfSteps
    <3> QED
      BY <3>1, <3>2
  <2>3. CASE Resume
    BY <2>3 DEF Resume, NeverOutOfSteps
  <2>4. CASE UNCHANGED graphVars
    BY <2>4 DEF graphVars, NeverOutOfSteps
  <2> QED
    BY <2>1, <2>2, <2>3, <2>4 DEF GraphNext
<1>3. Inv => NeverOutOfSteps
  OBVIOUS
<1> QED
  BY <1>1, <1>2, <1>3, PTL DEF GraphSpec

-----------------------------------------------------------------------------
(***************************************************************************)
(* The graph implements ResearchBudget                                     *)
(***************************************************************************)
\* Rounds gathered, as ResearchBudget counts them: the researcher counts a
\* round at its start, the budget when its gap analysis has decided.
Gathered == IF node \in {"ranker", "gap_analyzer"} THEN round - 1 ELSE round

LEMMA InitInBudget == GraphInit => Budget!Init
BY DEF GraphInit, Budget!Init, BudgetPhase

LEMMA StepInBudget == Paced /\ [GraphNext]_graphVars => [Budget!Next]_(Budget!vars)
<1> SUFFICES ASSUME Paced, [GraphNext]_graphVars PROVE [Budget!Next]_(Budget!vars)
  OBVIOUS
<1>0. /\ Capped /\ round \in Nat /\ iteration \in Nat /\ node \in Nodes
  BY DEF Paced, GraphTypeOK
<1> USE <1>0, GraphAssumption DEF Capped, Spent, Preparing, Superstep, Nodes, BudgetPhase
<1> DEFINE Same == UNCHANGED <<BudgetPhase(node), Gathered, iteration>>
<1>1. ASSUME Same PROVE UNCHANGED Budget!vars
  BY <1>1 DEF Budget!vars, Gathered
<1>2. CASE Planner \/ Moderator
  <2>1. Same
    BY <1>2 DEF Planner, Moderator, Gathered
  <2> QED BY <1>1, <2>1
<1>3. CASE AutoApprove \/ Approve
  <2>1. Budget!Begin
    BY <1>3 DEF AutoApprove, Approve, Budget!Begin
  <2> QED BY <2>1 DEF Budget!Next
<1>4. CASE Researcher \/ Ranker
  <2>1. Same
    BY <1>4 DEF Researcher, Search, Ranker, Gathered
  <2> QED BY <1>1, <2>1
<1>5. CASE GapStop \/ GapExpand
  <2>1. /\ node = "gap_analyzer" /\ round' = round /\ iteration' = iteration
        /\ \/ node' = "synthesizer"
           \/ node' = "researcher" /\ round < MaxRounds
    BY <1>5 DEF GapStop, GapExpand, Expand, AfterGap, RoomForRound
  <2>2. Budget!Revisions = Spent
    BY DEF Budget!Revisions
  <2>3. Budget!Gather
    BY <2>1, <2>2 DEF Budget!Gather
  <2> QED BY <2>3 DEF Budget!Next
<1>6. CASE Verifier
  <2>1. /\ node = "verifier" /\ round' = round /\ iteration' = iteration + 1
        /\ \/ node' = "finalizer"
           \/ node' \in {"synthesizer", "researcher"} /\ iteration < MaxIterations
    BY <1>6 DEF Verifier, Judge, AfterVerify, NextIteration, IterationLeft
  <2>2. Budget!Judge
    BY <2>1 DEF Budget!Judge
  <2> QED BY <2>2 DEF Budget!Next
<1>7. CASE Synthesizer \/ Finalizer
  <2>1. Same
    BY <1>7 DEF Synthesizer, Finalizer, Gathered
  <2> QED BY <1>1, <2>1
<1>8. CASE OutOfSteps \/ Resume \/ UNCHANGED graphVars
  <2>1. Same
    BY <1>8 DEF OutOfSteps, Resume, graphVars, Gathered
  <2> QED BY <1>1, <2>1
<1> QED
  BY <1>2, <1>3, <1>4, <1>5, <1>6, <1>7, <1>8 DEF GraphNext, Step

\* The graph implements ResearchBudget: it spends rounds and drafts only as the
\* budget allows, one round more for each revision (gap.py:178, verifier.py:379).
THEOREM KeepsBudgetHolds == GraphSpec => KeepsBudget
<1>1. GraphSpec => []Paced
  BY InitPaced, StepPaced, PTL DEF GraphSpec
<1> QED
  BY <1>1, InitInBudget, StepInBudget, PTL DEF GraphSpec, KeepsBudget, Budget!Spec

-----------------------------------------------------------------------------
(***************************************************************************)
(* What is searched, and how often                                         *)
(***************************************************************************)
\* What waits to be searched is known, new or asked for by the verifier, and
\* waits at the researcher only.
Waiting ==
    /\ gapIds \subseteq Topics \ researched
    /\ reresearch \subseteq Topics \cap reresearched
    /\ \A t \in gapIds : visits[t] = 0
    /\ \A t \in reresearch : visits[t] <= 1
    /\ node # "researcher" => gapIds = {} /\ reresearch = {}

\* Before the first round nothing has been searched, and only topics have.
Searched ==
    /\ round = 0 => /\ Preparing \/ node = "researcher"
                    /\ {researched, reresearched, gapIds, reresearch} = {{}}
                    /\ \A t \in Ids : visits[t] = 0
    /\ Preparing => round = 0
    /\ researched \subseteq Topics
    /\ \A t \in Ids : t > size => visits[t] = 0

\* Every follow-up waits or has been searched.
Followed ==
    ~Preparing => \A t \in planned + 1 .. size : t \in gapIds \/ visits[t] > 0

Booked == /\ GraphTypeOK
          /\ Waiting
          /\ Searched
          /\ Followed
          /\ NoThrash
          /\ NoEmptyRound

LEMMA InitBooked == GraphInit => Booked
<1> SUFFICES ASSUME GraphInit PROVE Booked
  OBVIOUS
<1>1. \A t \in Ids : visits[t] = 0
  BY DEF GraphInit
<1>2. Waiting /\ Searched /\ Followed /\ NoEmptyRound
  BY <1>1 DEF GraphInit, Waiting, Searched, Followed, Preparing, NoEmptyRound
<1>3. NoThrash
  BY <1>1 DEF GraphInit, NoThrash
<1> QED
  BY <1>2, <1>3, InitTypes DEF Booked

\* A round keeps the books: the first one starts from nothing, the later ones
\* search what waits.
LEMMA SearchBooked ==
  ASSUME Booked, GraphTypeOK', NEW leaves \in SUBSET Topics, Search(Queue(leaves))
  PROVE  Booked'
<1> DEFINE queue == Queue(leaves)
<1>1. /\ node = "researcher" /\ node' = "ranker"
      /\ round' = round + 1 /\ size' = size /\ planned' = planned
      /\ gapIds' = {} /\ reresearch' = {} /\ reresearched' = reresearched
      /\ researched' \subseteq researched \cup queue
      /\ visits' = [t \in Ids |-> visits[t] + (IF t \in queue THEN 1 ELSE 0)]
  BY DEF Search, Superstep
<1>2. /\ round \in Nat /\ visits \in [Ids -> Nat] /\ size \in Nat /\ planned \in Nat
      /\ Topics \subseteq Ids /\ Topics' = Topics
  BY <1>1, SizeBoundFits DEF Booked, GraphTypeOK, Topics, Ids
<1>3. queue \subseteq Topics
  BY DEF Queue
<1>4. \A t \in queue : visits[t] = 0 \/ (visits[t] <= 1 /\ t \in reresearched)
  <2>1. CASE round = 0
    BY <1>2, <1>3, <2>1 DEF Booked, Searched
  <2>2. CASE round # 0
    <3>1. queue \subseteq gapIds \cup reresearch
      BY <2>2 DEF Queue
    <3> QED
      BY <3>1 DEF Booked, Waiting
  <2> QED
    BY <2>1, <2>2
<1>5. \A t \in gapIds : t \in queue
  <2>1. round = 0 => gapIds = {}
    BY DEF Booked, Searched
  <2>2. gapIds \subseteq Topics \ researched
    BY DEF Booked, Waiting
  <2> QED
    BY <2>1, <2>2 DEF Queue
<1>6. \A t \in Ids : visits'[t] = visits[t] + (IF t \in queue THEN 1 ELSE 0)
  BY <1>1
<1> HIDE DEF queue
<1>7. Waiting'
  BY <1>1 DEF Waiting
<1>8. Searched'
  <2>1. \A t \in Ids : t > size => visits'[t] = 0
    <3> SUFFICES ASSUME NEW t \in Ids, t > size PROVE visits'[t] = 0
      OBVIOUS
    <3>1. t \notin queue
      BY <1>2, <1>3 DEF Topics, Ids
    <3>2. visits[t] = 0
      BY DEF Booked, Searched
    <3> QED
      BY <1>6, <3>1, <3>2
  <2>2. round' # 0 /\ ~Preparing'
    BY <1>1, <1>2 DEF Preparing
  <2>3. (researched \subseteq Topics)'
    BY <1>1, <1>2, <1>3 DEF Booked, Searched
  <2> QED
    BY <1>1, <2>1, <2>2, <2>3 DEF Searched
<1>9. Followed'
  <2>1. ASSUME NEW t \in planned + 1 .. size PROVE visits'[t] > 0
    <3>1. t \in Ids
      BY <1>2 DEF Topics
    <3>2. t \in gapIds \/ visits[t] > 0
      BY <1>1 DEF Booked, Followed, Preparing
    <3> QED
      BY <1>2, <1>5, <1>6, <3>1, <3>2
  <2> QED
    BY <1>1, <2>1 DEF Followed
<1>10. NoThrash'
  <2>1. ASSUME NEW t \in Ids
        PROVE  visits'[t] <= 1 + (IF t \in reresearched THEN 1 ELSE 0)
    <3>1. visits[t] <= 1 + (IF t \in reresearched THEN 1 ELSE 0) /\ visits[t] \in Nat
      BY <1>2 DEF Booked, NoThrash
    <3> QED
      BY <1>4, <1>6, <3>1
  <2> QED
    BY <1>1, <2>1 DEF NoThrash
<1>11. NoEmptyRound'
  BY <1>1 DEF NoEmptyRound
<1> QED
  BY <1>7, <1>8, <1>9, <1>10, <1>11 DEF Booked

\* A gap analysis that goes on queues new topics only.
LEMMA ExpandBooked ==
  ASSUME Booked, GraphTypeOK', NEW weak \in LeavesWeak, NEW picked \in SeedsFound,
         NEW followUps \in FollowUps(weak),
         NEW revisions \in Revisions(size + followUps),
         Expand(weak, picked, followUps, revisions)
  PROVE  Booked'
<1> DEFINE added == followUps + revisions
<1>0. GraphTypeOK
  BY DEF Booked
<1>1. /\ node = "gap_analyzer" /\ size' = size + added
      /\ node' = AfterGap(added > 0 \/ picked)
      /\ gapIds' = IF added > 0 THEN size + 1 .. size + added ELSE gapIds
      /\ seeds' = (seeds \/ picked)
      /\ UNCHANGED <<planned, round, researched, reresearch, reresearched, visits>>
  BY DEF Expand, Superstep, NeedsMore
<1>2. /\ added \in Nat /\ size + added \in 0 .. SizeBound
      /\ size \in Nat /\ planned \in Nat /\ round \in Nat
  BY <1>0, AddedFits, SizeBoundFits DEF GraphTypeOK
<1>3. gapIds = {} /\ reresearch = {} /\ round # 0 /\ researched \subseteq Topics
  BY <1>1 DEF Booked, Waiting, Searched, Preparing
<1>4. /\ gapIds' = size + 1 .. size + added
      /\ Topics' = 1 .. size + added
      /\ Topics' \subseteq Ids /\ Topics \subseteq Topics'
  BY <1>1, <1>2, <1>3, SizeBoundFits DEF Topics, Ids
<1>5. \A t \in gapIds' : visits[t] = 0 /\ t \notin researched /\ t \in Topics'
  <2> SUFFICES ASSUME NEW t \in gapIds'
               PROVE  visits[t] = 0 /\ t \notin researched /\ t \in Topics'
    OBVIOUS
  <2>1. t \in Topics' /\ t \in Ids /\ t > size
    BY <1>2, <1>4
  <2>2. t \notin Topics
    BY <1>2, <2>1 DEF Topics
  <2> QED
    BY <1>3, <2>1, <2>2 DEF Booked, Searched
<1>6. node' \in {"researcher", "synthesizer"} /\ (node' # "researcher" => added = 0)
  BY <1>1, <1>2 DEF AfterGap
<1> HIDE DEF added
<1>7. Waiting'
  <2>1. gapIds' \subseteq Topics' \ researched'
    BY <1>1, <1>5
  <2>2. \A t \in gapIds' : visits'[t] = 0
    BY <1>1, <1>5
  <2>3. reresearch' = {}
    BY <1>1, <1>3
  <2>4. node' # "researcher" => gapIds' = {}
    BY <1>2, <1>4, <1>6
  <2> QED
    BY <2>1, <2>2, <2>3, <2>4 DEF Waiting
<1>8. Searched'
  BY <1>1, <1>2, <1>3, <1>4, <1>6 DEF Booked, Searched, Preparing
<1>9. Followed'
  <2>1. ASSUME NEW t \in planned + 1 .. size + added
        PROVE  t \in gapIds' \/ visits[t] > 0
    <3>1. CASE t <= size
      BY <1>1, <1>2, <1>3, <3>1 DEF Booked, Followed, Preparing
    <3>2. CASE t > size
      BY <1>2, <1>4, <3>2
    <3> QED
      BY <1>2, <3>1, <3>2
  <2> QED
    BY <1>1, <2>1 DEF Followed
<1>10. NoThrash'
  BY <1>1 DEF Booked, NoThrash
<1>11. NoEmptyRound'
  <2>1. CASE added > 0
    <3>1. size + 1 \in gapIds'
      BY <1>2, <1>4, <2>1
    <3> QED
      BY <1>1, <1>5, <3>1 DEF NoEmptyRound
  <2>2. CASE ~(added > 0)
    BY <1>1, <2>2 DEF NoEmptyRound, AfterGap, added
  <2> QED
    BY <2>1, <2>2
<1> QED
  BY <1>7, <1>8, <1>9, <1>10, <1>11 DEF Booked

\* The verifier asks only for topics it has not asked for before.
LEMMA JudgeBooked ==
  ASSUME Booked, GraphTypeOK', NEW dead \in BOOLEAN,
         NEW unsupported \in SUBSET (Topics \ reresearched),
         Judge(dead, unsupported)
  PROVE  Booked'
<1> DEFINE wanted == unsupported # {} /\ ~(dead /\ IterationLeft) /\ IterationLeft
<1>1. /\ node = "verifier" /\ node' \in {"synthesizer", "researcher", "finalizer"}
      /\ node' = "researcher" <=> wanted
      /\ reresearch' = IF wanted THEN unsupported ELSE reresearch
      /\ reresearched' = IF wanted THEN reresearched \cup unsupported ELSE reresearched
      /\ UNCHANGED <<size, planned, round, researched, gapIds, seeds, visits>>
  BY DEF Judge, Superstep, AfterVerify, Remember
<1>2. wanted => unsupported # {}
  OBVIOUS
<1> HIDE DEF wanted
<1>3. /\ gapIds = {} /\ reresearch = {} /\ round # 0
      /\ visits \in [Ids -> Nat] /\ Topics \subseteq Ids /\ Topics' = Topics
  BY <1>1, SizeBoundFits DEF Booked, GraphTypeOK, Waiting, Searched, Preparing, Topics, Ids
<1>4. \A t \in unsupported : visits[t] <= 1
  BY <1>3 DEF Booked, NoThrash
<1>5. Waiting'
  BY <1>1, <1>3, <1>4 DEF Booked, Waiting
<1>6. Searched' /\ Followed'
  BY <1>1, <1>3 DEF Booked, Searched, Followed, Preparing
<1>7. NoThrash'
  <2>1. ASSUME NEW t \in Ids
        PROVE  visits[t] <= 1 + (IF t \in reresearched' THEN 1 ELSE 0)
    <3>1. visits[t] <= 1 + (IF t \in reresearched THEN 1 ELSE 0)
      BY DEF Booked, NoThrash
    <3>2. t \in reresearched => t \in reresearched'
      BY <1>1
    <3> QED
      BY <1>3, <3>1, <3>2
  <2> QED
    BY <1>1, <2>1 DEF NoThrash
<1>8. NoEmptyRound'
  BY <1>1, <1>2, <1>3 DEF NoEmptyRound
<1> QED
  BY <1>5, <1>6, <1>7, <1>8 DEF Booked

\* Preparing a plan books nothing yet.
LEMMA PlanBooked ==
  ASSUME Booked, GraphTypeOK', Preparing,
         node' \in {"moderator", "approval", "researcher"},
         node' = "researcher" => planned' = size',
         UNCHANGED <<loop, retry, visits>>
  PROVE  Booked'
<1>1. /\ round = 0 /\ researched = {} /\ reresearched = {}
      /\ gapIds = {} /\ reresearch = {} /\ \A t \in Ids : visits[t] = 0
  BY DEF Booked, Searched, Preparing
<1>2. Waiting' /\ NoEmptyRound'
  BY <1>1 DEF Waiting, NoEmptyRound
<1>3. Searched'
  BY <1>1 DEF Searched, Preparing
<1>4. Followed'
  <2>1. size' \in Nat
    BY SizeBoundFits DEF GraphTypeOK
  <2>2. CASE node' = "researcher"
    <3> DEFINE none(n) == n + 1 .. n = {}
    <3>1. \A n \in Nat : none(n)
      OBVIOUS
    <3>2. none(size')
      BY <2>1, <3>1
    <3> QED
      BY <2>2, <3>2 DEF Followed
  <2>3. CASE node' # "researcher"
    BY <2>3 DEF Followed, Preparing
  <2> QED
    BY <2>2, <2>3
<1>5. NoThrash'
  BY DEF Booked, NoThrash
<1> QED
  BY <1>2, <1>3, <1>4, <1>5 DEF Booked

LEMMA StepBooked == Booked /\ [GraphNext]_graphVars => Booked'
<1> SUFFICES ASSUME Booked, [GraphNext]_graphVars PROVE Booked'
  OBVIOUS
<1>0. GraphTypeOK'
  BY StepTypes DEF Booked
<1> USE <1>0
<1>1. CASE Planner \/ Moderator
  BY <1>1, PlanBooked DEF Planner, Moderator, Superstep, Preparing
<1>2. CASE AutoApprove \/ Approve
  BY <1>2, PlanBooked DEF AutoApprove, Approve, Superstep, Preparing
<1>3. CASE Researcher
  BY <1>3, SearchBooked DEF Researcher
<1>4. CASE GapExpand
  BY <1>4, ExpandBooked DEF GapExpand
<1>5. CASE Verifier
  BY <1>5, JudgeBooked DEF Verifier
<1>6. ASSUME UNCHANGED <<size, planned, round, researched, gapIds, seeds, retry, visits>>,
             \/ UNCHANGED node
             \/ ~Preparing /\ node # "researcher" /\ ~Preparing' /\ node' # "researcher"
      PROVE  Booked'
  BY <1>6 DEF Booked, Waiting, Searched, Followed, Preparing, NoThrash, NoEmptyRound, Topics
<1>7. CASE Ranker \/ GapStop \/ Synthesizer \/ Finalizer
  BY <1>6, <1>7 DEF Ranker, GapStop, AfterGap, Synthesizer, Finalizer, Superstep,
     Preparing
<1>8. CASE OutOfSteps \/ Resume \/ UNCHANGED graphVars
  BY <1>6, <1>8 DEF OutOfSteps, Resume, graphVars
<1> QED
  BY <1>1, <1>2, <1>3, <1>4, <1>5, <1>7, <1>8 DEF GraphNext, Step

LEMMA AlwaysBooked == GraphSpec => []Booked
<1> QED
  BY InitBooked, StepBooked, PTL DEF GraphSpec

\* No topic is searched a second time unless the verifier asked for it, and
\* none a third time (state.py:67), though a search may have failed, a cut may
\* have come between, and follow-ups and evidence share one queue.
THEOREM NoThrashHolds == GraphSpec => []NoThrash
<1>1. Booked => NoThrash
  BY DEF Booked
<1> QED
  BY <1>1, AlwaysBooked, PTL

\* Every return to the researcher finds something to search.
THEOREM NoEmptyRoundHolds == GraphSpec => []NoEmptyRound
<1>1. Booked => NoEmptyRound
  BY DEF Booked
<1> QED
  BY <1>1, AlwaysBooked, PTL

\* No report is written, verified or finished while a follow-up is unsearched.
THEOREM FollowUpsSearchedHolds == GraphSpec => []FollowUpsSearched
<1>1. Booked => FollowUpsSearched
  BY DEF Booked, Waiting, Followed, Preparing, FollowUpsSearched
<1> QED
  BY <1>1, AlwaysBooked, PTL

-----------------------------------------------------------------------------
(***************************************************************************)
(* What a rewrite is told                                                  *)
(***************************************************************************)
\* Notes live from a verification to the next search or rewrite only.
NotesFresh ==
    /\ Preparing \/ node \in {"ranker", "gap_analyzer"} => notes = {} /\ ~fatal
    /\ node = "researcher" => ~fatal
    /\ NotesGuideRewrite

\* A rewrite hears of dead links if and only if they caused it, and a draft
\* after a search for evidence starts with a clean slate (researcher.py:514).
THEOREM NotesGuideRewriteHolds == GraphSpec => []NotesGuideRewrite
<1>1. GraphInit => NotesFresh
  BY DEF GraphInit, NotesFresh, Preparing, NotesGuideRewrite
<1>2. NotesFresh /\ [GraphNext]_graphVars => NotesFresh'
  <2> SUFFICES ASSUME NotesFresh, [GraphNext]_graphVars PROVE NotesFresh'
    OBVIOUS
  <2> USE DEF NotesFresh, Preparing, NotesGuideRewrite, Superstep
  <2>1. CASE Planner \/ Moderator
    BY <2>1 DEF Planner, Moderator
  <2>2. CASE AutoApprove \/ Approve
    BY <2>2 DEF AutoApprove, Approve
  <2>3. CASE Researcher
    BY <2>3 DEF Researcher, Search, NotesAfterSearch
  <2>4. CASE Ranker
    BY <2>4 DEF Ranker
  <2>5. CASE GapStop \/ GapExpand
    BY <2>5 DEF GapStop, GapExpand, Expand, AfterGap
  <2>6. CASE Synthesizer \/ Finalizer
    BY <2>6 DEF Synthesizer, Finalizer
  <2>7. CASE Verifier
    BY <2>7 DEF Verifier, Judge, AfterVerify
  <2>8. CASE OutOfSteps \/ Resume \/ UNCHANGED graphVars
    BY <2>8 DEF OutOfSteps, Resume, graphVars
  <2> QED
    BY <2>1, <2>2, <2>3, <2>4, <2>5, <2>6, <2>7, <2>8 DEF GraphNext, Step
<1>3. NotesFresh => NotesGuideRewrite
  BY DEF NotesFresh
<1> QED
  BY <1>1, <1>2, <1>3, PTL DEF GraphSpec
=============================================================================
