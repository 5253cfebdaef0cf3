SPECIFICATION Spec
CONSTANTS
    u1 = u1
    u2 = u2
    n1 = n1
    n2 = n2
    r1 = r1
    r2 = r2
    r3 = r3
    NoUser = NoUser
    Users = {u1, u2}
    Names = {n1}
    Requests = {r1, r2, r3}
    Reserve = 2
    Costs = {2}
    SavesMayFail = FALSE
    TopUp = 3
    MaxTopUps = 2
    MaxCrashes = 1
    MaxDebt = 2
SYMMETRY Symmetric
INVARIANTS
    TypeOK
    HeldIsRunning
    FanOutCovered
    ExhaustionIsDurable
CHECK_DEADLOCK FALSE
