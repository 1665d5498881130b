CONSTANTS
    Streams = {s1}
    Approvals = {a1}
    Cancels = {c1, c2}
    GateSettings = {TRUE, FALSE}
    Faults = {"disconnect", "crash", "nodeError"}
    MaxMisreads = 1
    NoStream = NoStream
    NoDecision = NoDecision
SPECIFICATION Spec
SYMMETRY Symmetry
INVARIANT DoneMeansFinished
PROPERTY KeepsPromise
