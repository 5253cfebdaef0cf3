SPECIFICATION Spec
CONSTANTS
    p1 = p1
    p2 = p2
    s1 = s1
    s2 = s2
    h1 = h1
    h2 = h2
    NoProject = NoProject
    NoSession = NoSession
    Projects = {p1}
    Sessions = {s1, s2}
    Handlers = {h1, h2}
    PrepaidSeconds = 1
    StaleAfter = 1
    ClockSlack = 1
    TTL = 2
    MaxOpen = 1
    Reports = {0, 3}
    SavesMayFail = FALSE
    MaxTime = 3
    MaxCrashes = 1
SYMMETRY Symmetric
INVARIANTS
    BilledOnce
    WithinTheClock
CHECK_DEADLOCK FALSE
