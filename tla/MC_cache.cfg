CONSTANTS
    Clients = {a, b}
    Keys = {k1, k2}
    None = None
    Ttl = 2
    MaxRequests = 2
    Window = 2
    LoadTimeout = 1
    MaxTime = 4
SPECIFICATION Spec
INVARIANTS
    BudgetHolds
    BatchIsRecent
SYMMETRY ClientSymmetry
CHECK_DEADLOCK FALSE
