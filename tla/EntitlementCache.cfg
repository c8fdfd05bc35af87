SPECIFICATION Spec
CONSTANTS
    c1 = c1
    c2 = c2
    c3 = c3
    p1 = p1
    p2 = p2
    Procs = {p1, p2}
    Calls = {c1, c2, c3}
    ProcOf <- MCProcOf
    NoCall = NoCall
    MaxChanges = 2
    MaxFaults = 1
INVARIANTS
    RefreshHolds
    LocksAreLive
SYMMETRY Symmetry
CHECK_DEADLOCK FALSE
