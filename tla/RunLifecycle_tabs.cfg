CONSTANTS
    Streams = {s1, s2}
    Approvals = {a1}
    Cancels = {c1, c2}
    GateSettings = {TRUE}
    Faults = {"crash"}
    MaxMisreads = 1
    NoStream = NoStream
    NoDecision = NoDecision
SPECIFICATION Spec
SYMMETRY Symmetry
INVARIANTS NoLostCancel LateStreamsStayOut GateHolds
