SPECIFICATION Spec
CONSTANTS
    Topics = {t1}
    MaxFound = 1
    MaxRounds = 3
    MaxRetries = 0
    GapMin = 2
    CragOn = TRUE
    SnowballOn = FALSE
    OutlineOn = FALSE
    Faults = {"failing_inference"}
    None = None
INVARIANT EarlyExitEarned
CHECK_DEADLOCK FALSE
