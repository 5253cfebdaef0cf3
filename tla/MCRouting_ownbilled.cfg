SPECIFICATION Spec
CONSTANTS
    p1 = p1
    p2 = p2
    down = down
    NoRung = NoRung
    Requests = {r1}
    r1 = r1
    r2 = r2
    Providers = {p1, p2, down}
    Live = {p1, p2}
    Prepaid = {p1}
    Streaming = {p1, p2}
    Chain <- MCChain
    Callers <- MCStreamer
    Chosen = {0}
    Cooldown = 1
    MaxSteps = 1
    MaxNow = 1
INVARIANTS
    OwnKeyNotBilled
CHECK_DEADLOCK FALSE
