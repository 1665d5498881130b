---------------------------- MODULE CoverageProofs ----------------------------
(***************************************************************************)
(* Theorems about Coverage, for any topics, caps and counts, and any of    *)
(* the faults.                                                             *)
(***************************************************************************)
EXTENDS Coverage, TLAPS

USE DEF tree, scores, leaving

\* What the re-ranker can become is a mode.
LEMMA ModesClosed ==
  ASSUME TypeOK
  PROVE  /\ Loaded \subseteq Modes
         /\ ModeAfterUse \subseteq Modes
BY DEF TypeOK, Loaded, Modes, ModeAfterUse

-----------------------------------------------------------------------------
(***************************************************************************)
(* Types                                                                   *)
(***************************************************************************)
LEMMA InitTypes == Init => TypeOK
<1> SUFFICES ASSUME Init PROVE TypeOK
  OBVIOUS
<1>1. 0 \in Counts /\ 0 \in 0 .. MaxRetries
  BY CoverageAssumption DEF Counts
<1>2. found \in [Topics -> Counts] /\ kept \in [Topics -> Counts]
  BY <1>1 DEF NoCounts, Init
<1>3. mode \in Modes /\ node \in Nodes
  BY DEF Init, Loaded, Modes, Nodes
<1>4. confidence \in [Topics -> Bands \cup {None}]
  BY DEF Init
<1>5. /\ round \in Nat /\ retries \in 0 .. MaxRetries
      /\ known \in SUBSET Topics /\ queue \in SUBSET Topics /\ seeds \in BOOLEAN
  BY <1>1 DEF Init
<1>6. /\ degraded \in BOOLEAN
      /\ origin \in [Topics -> Scored \cup {"none"}]
      /\ fresh \in SUBSET Topics
      /\ first \in {"open", "done", "failed"}
      /\ exit \in {"none", "cap", "early", "failed", "nothing"}
      /\ judged \in SUBSET Topics
  BY DEF Init
<1> QED
  BY <1>2, <1>3, <1>4, <1>5, <1>6 DEF TypeOK

\* One pass of the ranker keeps every type.
LEMMA RankerTypes ==
  ASSUME TypeOK, Ranker
  PROVE  TypeOK'
<1>1. PICK m \in (IF Groups = {} THEN {mode} ELSE {mode} \cup ModeAfterUse),
           outcome \in [Groups -> Scored \cup {"raised", "neutral"}] :
             Rank(outcome, m)
  BY DEF Ranker
<1>2. m \in Modes
  BY ModesClosed DEF TypeOK
<1>3. kept' \in [Topics -> Counts] /\ fresh' \in SUBSET Topics
  BY <1>1 DEF Rank
<1>4. confidence' \in [Topics -> Bands \cup {None}]
  BY <1>1 DEF Rank, Merge, TypeOK
<1>5. degraded' \in BOOLEAN
  BY <1>1 DEF Rank, Degraded
<1>6. origin' \in [Topics -> Scored \cup {"none"}]
  BY <1>1 DEF Rank
<1>7. mode' \in Modes /\ node' \in Nodes
  BY <1>1, <1>2 DEF Rank, Ranker, Nodes
<1> QED
  BY <1>3, <1>4, <1>5, <1>6, <1>7 DEF TypeOK, Ranker

LEMMA StepTypes == TypeOK /\ [Next]_vars => TypeOK'
<1> SUFFICES ASSUME TypeOK, [Next]_vars PROVE TypeOK'
  OBVIOUS
<1>1. CASE Researcher
  <2>1. round' \in Nat /\ mode' \in Modes /\ node' \in Nodes
    BY <1>1, ModesClosed DEF Researcher, TypeOK, Nodes
  <2> QED
    BY <1>1, <2>1 DEF Researcher, TypeOK
<1>2. CASE Ranker
  BY <1>2, RankerTypes
<1>3. CASE CapReached
  BY <1>3 DEF CapReached, Leave, TypeOK, Nodes
<1>4. CASE GapFails
  BY <1>4 DEF GapFails, AfterFirst, Leave, TypeOK, Nodes
<1>5. ASSUME NEW leaves \in (SUBSET known) \ {{}}, EarlyExit(leaves)
      PROVE  TypeOK'
  BY <1>5 DEF EarlyExit, Leave, TypeOK, Nodes
<1>6. ASSUME NEW leaves \in (SUBSET known) \ {{}}, Expand(leaves)
      PROVE  TypeOK'
  BY <1>6 DEF Expand, AfterFirst, TypeOK, Nodes
<1>7. CASE ReResearch
  <2>1. retries' \in 0 .. MaxRetries
    BY <1>7, CoverageAssumption DEF ReResearch, TypeOK
  <2> QED
    BY <1>7, <2>1 DEF ReResearch, TypeOK, Nodes
<1>8. CASE OtherRun
  BY <1>8, ModesClosed DEF OtherRun, TypeOK
<1>9. CASE Restart
  BY <1>9 DEF Restart, TypeOK, Modes
<1>10. CASE UNCHANGED vars
  BY <1>10 DEF TypeOK, vars
<1> QED
  BY <1>1, <1>2, <1>3, <1>4, <1>5, <1>6, <1>7, <1>8, <1>9, <1>10 DEF Next

\* Every reachable state is well typed.
THEOREM TypeCorrect == Spec => []TypeOK
BY InitTypes, StepTypes, PTL DEF Spec

-----------------------------------------------------------------------------
(***************************************************************************)
(* Confidences and grades                                                  *)
(***************************************************************************)
\* The scores are those of the last pass, complete.
Ranked == node \in {"gap_analyzer", "synthesizer"}

\* A pass that found a confidence replaces all of them; one that found none
\* was degraded, or kept nothing.
Replaced ==
    Ranked
      => \A t \in Topics :
           confidence[t] # None => t \in fresh \/ degraded \/ kept[t] = 0

\* Nothing was kept of a group that was not scored, and one that was scored
\* has a confidence unless the mode is identity.
LEMMA RankerReplaces ==
  ASSUME TypeOK, Ranker
  PROVE  Replaced'
<1>1. PICK m \in (IF Groups = {} THEN {mode} ELSE {mode} \cup ModeAfterUse),
           outcome \in [Groups -> Scored \cup {"raised", "neutral"}] :
             /\ m = "unloaded" => \A t \in Groups : outcome[t] = "raised"
             /\ Rank(outcome, m)
  BY DEF Ranker
<1>2. m \in Modes
  BY ModesClosed DEF TypeOK
<1>3. PICK conf \in [Topics -> Bands \cup {None}] :
        /\ \A t \in Topics :
             conf[t] \in IF t \in Groups THEN BandsOf(outcome[t], m) ELSE {None}
        /\ confidence' = Merge(conf)
        /\ fresh' = {t \in Topics : conf[t] # None}
  BY <1>1 DEF Rank
<1> SUFFICES ASSUME NEW t \in Topics, confidence'[t] # None, t \notin fresh',
                    ~degraded', kept'[t] # 0
             PROVE  FALSE
  BY DEF Replaced
<1>4. conf[t] = None
  BY <1>3
<1>5. t \in Groups /\ outcome[t] \in Scored
  BY <1>1 DEF Rank, KeptOf
<1>6. m # "identity"
  BY <1>1, <1>5 DEF Rank, Degraded, Scored
<1>7. m = "cross_encoder"
  BY <1>1, <1>2, <1>5, <1>6 DEF Modes, Scored
<1>8. conf[t] \in BandsOf(outcome[t], m)
  BY <1>3, <1>5
<1>9. BandsOf(outcome[t], m) \subseteq Bands
  BY <1>5, <1>7 DEF BandsOf, Bands
<1> QED
  BY <1>4, <1>8, <1>9, CoverageAssumption DEF Bands

LEMMA ReplacedStep == TypeOK /\ Replaced /\ [Next]_vars => Replaced'
<1> SUFFICES ASSUME TypeOK, Replaced, [Next]_vars PROVE Replaced'
  OBVIOUS
<1>1. CASE Ranker
  BY <1>1, RankerReplaces
<1>2. CASE Researcher
  BY <1>2 DEF Researcher, Replaced, Ranked
<1>3. CASE CapReached \/ GapFails \/ ReResearch
  BY <1>3 DEF CapReached, GapFails, Leave, ReResearch, Replaced, Ranked
<1>4. ASSUME NEW leaves \in (SUBSET known) \ {{}}, EarlyExit(leaves) \/ Expand(leaves)
      PROVE  Replaced'
  BY <1>4 DEF EarlyExit, Expand, Leave, Replaced, Ranked
<1>5. CASE OtherRun \/ Restart \/ UNCHANGED vars
  BY <1>5 DEF OtherRun, Restart, vars, Replaced, Ranked
<1> QED
  BY <1>1, <1>2, <1>3, <1>4, <1>5 DEF Next

\* No grade is given by a confidence of an earlier pass.
THEOREM GradesAreFreshHolds == Spec => []GradesAreFresh
<1>1. Init => Replaced
  BY DEF Init, Replaced, Ranked
<1>2. Replaced => GradesAreFresh
  BY DEF Replaced, Ranked, GradesAreFresh, UsesConfidence
<1> QED
  BY <1>1, <1>2, TypeCorrect, ReplacedStep, PTL DEF Spec

-----------------------------------------------------------------------------
(***************************************************************************)
(* What an early exit stands for                                           *)
(***************************************************************************)
OneShotsOn == SnowballOn \/ OutlineOn

\* Once a node has run there is a round; the analysis of round 1 is open only
\* until it has run, or where the cap leaves no room for it.
FirstSeen ==
    /\ node # "researcher" => round >= 1
    /\ first = "open" /\ OneShotsOn
         => \/ round = 0
            \/ round = 1 /\ node \in {"ranker", "gap_analyzer"}
            \/ MaxRounds <= 1

\* After an early exit nothing is scored: what it was decided on still stands.
Decided ==
    exit = "early"
      => /\ node = "synthesizer"
         /\ \A t \in judged : UsesConfidence(t)
         /\ OneShotsOn => first # "open"

LEMMA DecidedInit == Init => FirstSeen /\ Decided
BY DEF Init, FirstSeen, Decided

LEMMA FirstSeenStep == TypeOK /\ FirstSeen /\ [Next]_vars => FirstSeen'
<1> SUFFICES ASSUME TypeOK, FirstSeen, [Next]_vars PROVE FirstSeen'
  OBVIOUS
<1> USE CoverageAssumption DEF TypeOK, FirstSeen
<1>1. CASE Researcher
  BY <1>1 DEF Researcher
<1>2. CASE Ranker
  BY <1>2 DEF Ranker
<1>3. CASE CapReached \/ GapFails
  BY <1>3 DEF CapReached, GapFails, Leave, AfterFirst
<1>4. ASSUME NEW leaves \in (SUBSET known) \ {{}}, EarlyExit(leaves)
      PROVE  FirstSeen'
  BY <1>4 DEF EarlyExit, Leave, OneShotPending, OneShotsOn
<1>5. ASSUME NEW leaves \in (SUBSET known) \ {{}}, Expand(leaves)
      PROVE  FirstSeen'
  <2>1. round' = round /\ (first' = "open" => first = "open" /\ round # 1)
    BY <1>5 DEF Expand, AfterFirst
  <2>2. node = "gap_analyzer"
    BY <1>5 DEF Expand
  <2> QED
    BY <2>1, <2>2
<1>6. CASE ReResearch
  BY <1>6 DEF ReResearch
<1>7. CASE OtherRun \/ Restart \/ UNCHANGED vars
  BY <1>7 DEF OtherRun, Restart, vars
<1> QED
  BY <1>1, <1>2, <1>3, <1>4, <1>5, <1>6, <1>7 DEF Next

LEMMA DecidedStep == TypeOK /\ FirstSeen /\ Decided /\ [Next]_vars => Decided'
<1> SUFFICES ASSUME TypeOK, FirstSeen, Decided, [Next]_vars PROVE Decided'
  OBVIOUS
<1>1. CASE Researcher
  BY <1>1 DEF Researcher, Decided
<1>2. CASE Ranker
  BY <1>2 DEF Ranker, Decided
<1>3. CASE CapReached \/ GapFails \/ ReResearch
  BY <1>3 DEF CapReached, GapFails, Leave, ReResearch, Decided
<1>4. ASSUME NEW leaves \in (SUBSET known) \ {{}}, EarlyExit(leaves)
      PROVE  Decided'
  <2>1. node' = "synthesizer" /\ judged' = leaves /\ UNCHANGED <<scores, first>>
    BY <1>4 DEF EarlyExit, Leave
  <2>2. \A t \in leaves : UsesConfidence(t)
    BY <1>4 DEF EarlyExit, AllSufficient
  <2>3. ASSUME OneShotsOn PROVE first # "open"
    <3>1. round < MaxRounds /\ round # 1 /\ node = "gap_analyzer"
      BY <1>4, <2>3 DEF EarlyExit, OneShotPending, OneShotsOn
    <3> QED
      BY <2>3, <3>1, CoverageAssumption DEF FirstSeen, TypeOK
  <2> QED
    BY <2>1, <2>2, <2>3 DEF Decided, UsesConfidence
<1>5. ASSUME NEW leaves \in (SUBSET known) \ {{}}, Expand(leaves)
      PROVE  Decided'
  BY <1>5 DEF Expand, Decided
<1>6. CASE OtherRun \/ Restart \/ UNCHANGED vars
  BY <1>6 DEF OtherRun, Restart, vars, Decided, UsesConfidence
<1> QED
  BY <1>1, <1>2, <1>3, <1>4, <1>5, <1>6 DEF Next

LEMMA DecidedAlways == Spec => [](FirstSeen /\ Decided)
BY DecidedInit, FirstSeenStep, DecidedStep, TypeCorrect, PTL DEF Spec

\* The loop is not left early before the passes of the first round, unless the
\* analysis of that round failed.
THEOREM OneShotsNotSwallowedHolds == Spec => []OneShotsNotSwallowed
<1>1. Decided => OneShotsNotSwallowed
  BY DEF Decided, OneShotsNotSwallowed, OneShotsOn
<1> QED
  BY <1>1, DecidedAlways, PTL

-----------------------------------------------------------------------------
(***************************************************************************)
(* Ranking without a model                                                 *)
(***************************************************************************)
\* Scores made up for want of a model are marked, whatever became of the mode
\* since; made-up scores of a broken model are not (EarlyExitEarned).
Marked == Ranked => \A t \in Topics : origin[t] = "no_model" => degraded

LEMMA RankerMarks ==
  ASSUME TypeOK, Ranker
  PROVE  Marked'
<1>1. PICK m \in (IF Groups = {} THEN {mode} ELSE {mode} \cup ModeAfterUse),
           outcome \in [Groups -> Scored \cup {"raised", "neutral"}] :
             /\ \A t \in Groups : outcome[t] \in Outcomes(m)
             /\ Rank(outcome, m)
  BY DEF Ranker
<1> SUFFICES ASSUME NEW t \in Topics, origin'[t] = "no_model" PROVE degraded'
  BY DEF Marked
<1>2. t \in Groups /\ outcome[t] = "no_model"
  BY <1>1 DEF Rank
<1>3. m = "identity"
  BY <1>1, <1>2 DEF Outcomes
<1> QED
  BY <1>1, <1>2, <1>3 DEF Rank, Degraded

LEMMA MarkedStep == TypeOK /\ Marked /\ [Next]_vars => Marked'
<1> SUFFICES ASSUME TypeOK, Marked, [Next]_vars PROVE Marked'
  OBVIOUS
<1>1. CASE Ranker
  BY <1>1, RankerMarks
<1>2. CASE Researcher
  BY <1>2 DEF Researcher, Marked, Ranked
<1>3. CASE CapReached \/ GapFails \/ ReResearch
  BY <1>3 DEF CapReached, GapFails, Leave, ReResearch, Marked, Ranked
<1>4. ASSUME NEW leaves \in (SUBSET known) \ {{}}, EarlyExit(leaves) \/ Expand(leaves)
      PROVE  Marked'
  BY <1>4 DEF EarlyExit, Expand, Leave, Marked, Ranked
<1>5. CASE OtherRun \/ Restart \/ UNCHANGED vars
  BY <1>5 DEF OtherRun, Restart, vars, Marked, Ranked
<1> QED
  BY <1>1, <1>2, <1>3, <1>4, <1>5 DEF Next

\* Nobody is judged by default: an early exit has judged some leaf.
SomeJudged == exit = "early" => judged # {}

LEMMA SomeJudgedStep == SomeJudged /\ [Next]_vars => SomeJudged'
<1> SUFFICES ASSUME SomeJudged, [Next]_vars PROVE SomeJudged'
  OBVIOUS
<1>1. CASE Researcher \/ Ranker \/ OtherRun \/ Restart \/ UNCHANGED vars
  BY <1>1 DEF Researcher, Ranker, Rank, OtherRun, Restart, vars, SomeJudged
<1>2. CASE CapReached \/ GapFails \/ ReResearch
  BY <1>2 DEF CapReached, GapFails, Leave, ReResearch, SomeJudged
<1>3. ASSUME NEW leaves \in (SUBSET known) \ {{}}, EarlyExit(leaves) \/ Expand(leaves)
      PROVE  SomeJudged'
  BY <1>3 DEF EarlyExit, Expand, Leave, SomeJudged
<1> QED
  BY <1>1, <1>2, <1>3 DEF Next

\* A report ranked without a model says so, and no early exit came before it:
\* through loads that fail, restarts, other runs and broken models.
THEOREM NoModelToldHolds == Spec => []NoModelTold
<1>1. Init => Marked /\ SomeJudged
  BY DEF Init, Marked, Ranked, SomeJudged
<1>2. Marked /\ SomeJudged /\ Decided => NoModelTold
  BY DEF Marked, Ranked, SomeJudged, Decided, NoModelTold, UsesConfidence
<1> QED
  BY <1>1, <1>2, MarkedStep, SomeJudgedStep, DecidedAlways, TypeCorrect, PTL DEF Spec
=============================================================================
