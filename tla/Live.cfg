SPECIFICATION LiveSpec
CONSTANTS
    \* RunLifecycle
    Streams = {s1}
    Approvals = {a1, a2}
    Cancels = {c1}
    GateSettings = {TRUE}
    Faults = {}
    MaxMisreads = 0
    NoStream = NoStream
    NoDecision = NoDecision
    \* WriteTx
    plain = plain
    replayed = replayed
    reader = reader
    Calls = {plain, replayed, reader}
    Kind <- CallKinds
    Statements <- BodySizes
    Retries = 2
    MaxTrouble = 2
    Nobody = Nobody
    \* ResearchGraph
    MaxRounds = 3
    MaxIterations = 2
    MaxPlan = 2
    MaxEdit = 1
    MaxTotal = 3
    MaxNew = 1
    MaxOutline = 1
    MaxReresearch = 1
    RequireApproval = FALSE
    SnowballOn = TRUE
    OutlineOn = TRUE
    RecursionLimit = 9
INVARIANT NothingHalf
PROPERTIES CancelSticks CancelStopsWork ApprovalTakesEffect KeepsAtomicity Answered KeepsBudget Terminates
