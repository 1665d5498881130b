CONSTANTS
    Streams = {s1}
    Approvals = {a1}
    Cancels = {c1}
    GateSettings = {TRUE}
    Faults = {}
    MaxMisreads = 0
    NoStream = NoStream
    NoDecision = NoDecision
SPECIFICATION Spec

INVARIANT CancelledIsTerminal
