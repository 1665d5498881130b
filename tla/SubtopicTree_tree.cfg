\* Plans of up to three sub-questions with any parents the model may name,
\* edited at the gate, follow-ups in two rounds, cuts and failing writes.
SPECIFICATION Spec
CONSTANTS
    MaxPlan = 3
    MaxDepth = 1
    MaxAdds = 1
    MaxTotal = 4
    MaxNew = 1
    MaxOutline = 1
    MaxRounds = 2
    GateSettings = {TRUE, FALSE}
    Faults = {"cut", "write"}
    LastId = 6
INVARIANTS ParentsOlder ParentsFirst NodesHaveRows
PROPERTIES TreeKept
CHECK_DEADLOCK FALSE
