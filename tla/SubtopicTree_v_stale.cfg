\* Without the gate: a moderator pass that is cut off between its rows and its
\* checkpoint, or a rejection that reaches the rows only.
SPECIFICATION Spec
CONSTANTS
    MaxPlan = 2
    MaxDepth = 0
    MaxAdds = 0
    MaxTotal = 3
    MaxNew = 0
    MaxOutline = 0
    MaxRounds = 1
    GateSettings = {FALSE}
    Faults = {"cut"}
    LastId = 6
INVARIANT ResearchHasRows
CHECK_DEADLOCK FALSE
