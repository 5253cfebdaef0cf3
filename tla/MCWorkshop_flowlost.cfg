SPECIFICATION WorkshopSpec
CONSTANTS
    e1 = e1
    e2 = e2
    r1 = r1
    a1 = a1
    f1 = f1
    f2 = f2
    f3 = f3
    f4 = f4
    m1 = m1
    m2 = m2
    Nothing = Nothing
    Names = {a1, f1, f2, f3, f4, m1}
    Aliases = {m1}
    Models = {m1, m2}
    Chains <- MCChains
    BakedAgents <- MCBakedAgents
    BakedFlows <- MCBakedFlows
    Written = {a1, f2}
    Called = {f1}
    Editors = {e1, e2}
    Runs = {r1}
    MaxFlowDepth = 3
    MaxEdits = 2
    MaxUpsets = 1
    t1 = t1
    t2 = t2
    t3 = t3
    g1 = g1
    g2 = g2
    i1 = i1
    NoProject = NoProject
    NoFile = NoFile
    Projects = {g1, g2}
    Ids = {i1}
    Turns = {t1, t2, t3}
    Bodies <- MCBodies
    Replies = {0, 3}
    MaxTurns = 2
    MaxChars = 4
    MaxDrops = 1
INVARIANT EverythingSpentIsBooked
CHECK_DEADLOCK FALSE
