SPECIFICATION ServicesSpec
CONSTANTS
    \* Coverage
    Topics = {t1, t2}
    MaxFound = 2
    MaxRounds = 3
    MaxRetries = 1
    GapMin = 2
    CragOn = TRUE
    SnowballOn = TRUE
    OutlineOn = TRUE
    Faults = {"failing_load", "failing_inference", "failing_scoring", "restart"}
    None = None
    \* Evidence
    Run = Run
    Older = Older
    Questions = {q1}
    Snowball = Snowball
    Hits <- SomeHits
    MaxSources = 1
    TopK = 1
    MaxPasses = 1
    MaxFaults = 1
    MaxAsks = 1
    \* Provider
    Clouds <- CloudOrder
    Offered <- SettingsThatOccur
    MaxTokens = 2
    MaxUsages = 2
    JsonTries = 2
    MaxChanges = 1
    \* Vault
    Callers = {c1}
    Names = {n1, n2}
    Values = {v1, v2}
    Passwords = {p1}
    Ops = {"setup", "unlock", "lock", "change", "reset", "set", "delete"}
    VaultFaults = {"crash", "failing_write", "failing_read"}
    MaxSalts = 2
    Nothing = Nothing
INVARIANTS GradesAreFresh OneShotsNotSwallowed NoModelTold
    VectorsFit AnswersOwnRun CandidatesHaveRows TrailTold
    CountedAsTold
    KeysDurable MemoryAgrees
CHECK_DEADLOCK FALSE
