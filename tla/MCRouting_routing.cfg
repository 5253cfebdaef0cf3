SPECIFICATION Spec
CONSTANTS
    p1 = p1
    p2 = p2
    down = down
    NoRung = NoRung
    Requests = {r1, r2}
    r1 = r1
    r2 = r2
    Providers = {p1, p2, down}
    Live = {p1, p2}
    Prepaid = {p1}
    Streaming = {p1, p2, down}
    Chain <- MCChain
    Callers <- MCCallers
    Chosen = {0, 2}
    Cooldown = 1
    MaxSteps = 1
    MaxNow = 2
INVARIANTS
    DemotedOnlyIfRefused
    BilledAsServed
PROPERTIES
    ImplementsFallback
SYMMETRY Symmetric
CHECK_DEADLOCK FALSE
