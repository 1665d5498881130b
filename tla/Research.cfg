SPECIFICATION ResearchSpec
CONSTANTS
    \* ResearchGraph
    MaxRounds = 3
    MaxIterations = 2
    MaxPlan = 2
    MaxEdit = 2
    MaxTotal = 4
    MaxNew = 2
    MaxOutline = 1
    MaxReresearch = 1
    RequireApproval = TRUE
    SnowballOn = TRUE
    OutlineOn = TRUE
    RecursionLimit = 25
    \* ReportRows
    Sources = {s1, s2}
    NLangs = 2
    MaxClaims = 2
    MaxDrafts = 3
    MaxReturns = 2
    Subtopics = {q1, q2}
    RetryCap = 1
    CheckCap = 2
    Judgements = {"supported", "unsupported"}
    MaxFaults = 1
    None = None
INVARIANTS NeverOutOfSteps NoEmptyRound NoThrash FollowUpsSearched NotesGuideRewrite
    GroundingOfItsDraft OneDraftAtEnd CountsAgree CitedIsListed
SYMMETRY Likeness
CHECK_DEADLOCK FALSE
