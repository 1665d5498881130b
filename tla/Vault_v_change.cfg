SPECIFICATION VaultSpec
CONSTANTS
    Callers = {c1}
    Names = {n1}
    Values = {v1}
    Passwords = {p1}
    Ops = {"setup", "unlock", "lock", "change", "reset", "set", "delete"}
    VaultFaults = {"crash"}
    MaxSalts = 3
    Nothing = Nothing
INVARIANT KeysSurvive
SYMMETRY Symmetry
CHECK_DEADLOCK FALSE
