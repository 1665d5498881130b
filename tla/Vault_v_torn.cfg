SPECIFICATION VaultSpec
CONSTANTS
    Callers = {c1, c2}
    Names = {n1}
    Values = {v1}
    Passwords = {p1}
    Ops = {"setup", "lock", "set"}
    VaultFaults = {}
    MaxSalts = 1
    Nothing = Nothing
INVARIANT NotTorn
SYMMETRY Symmetry
CHECK_DEADLOCK FALSE
