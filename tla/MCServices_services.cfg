SPECIFICATION ServicesSpec
CONSTANTS
    e1 = e1
    e2 = e2
    r1 = r1
    a1 = a1
    f1 = f1
    f2 = f2
    f3 = f3
    f4 = f4
    m1 = m1
    m2 = m2
    Nothing = Nothing
    Names = {a1, f1, f2, f3, f4, m1}
    Aliases = {m1}
    Models = {m1, m2}
    Chains <- MCChains
    BakedAgents <- MCBakedAgents
    BakedFlows <- MCBakedFlows
    Written = {a1, f2}
    Called = {f1}
    Editors = {e1, e2}
    Runs = {r1}
    MaxFlowDepth = 3
    MaxEdits = 2
    MaxUpsets = 1
    t1 = t1
    t2 = t2
    t3 = t3
    g1 = g1
    g2 = g2
    i1 = i1
    NoProject = NoProject
    NoFile = NoFile
    Projects = {g1, g2}
    Ids = {i1}
    Turns = {t1, t2, t3}
    Bodies <- MCBodies
    Replies = {0, 3}
    MaxTurns = 2
    MaxChars = 4
    MaxDrops = 1
    u1 = u1
    c1 = c1
    c2 = c2
    rd1 = rd1
    rd2 = rd2
    kc = kc
    kt = kt
    shop = shop
    Shop = Shop
    lab = lab
    fast = fast
    openai = openai
    gpt = gpt
    gptid = gptid
    odd = odd
    Star = Star
    Default = Default
    NoPrice = NoPrice
    NoCall = NoCall
    Users = {u1}
    Patience = 2
    MaxTroubles = 2
    Readers = {rd1, rd2}
    Statics <- MCStatics
    Versions = 2
    Callers = {c1, c2}
    Policies <- MCPolicies
    Limits = {1, 2}
    Asked <- MCAsked
    Ticks = 2
    MaxClock = 2
    MaxMints = 1
    Nobody = Nobody
    Clients = {c1, c2}
    ProjectNames = {Shop, lab}
    Lower <- MCLower
    Outcomes <- MCOutcomes
    Prices <- MCPrices
    Identity <- MCIdentity
    Free = {}
    Markup = 2
    RingSize = 2
    MaxEvents = 3
INVARIANTS
    HistoryIsTheTail
    HearsTheDraft
    RegistryFollowsStore
    FilesTidied
    RestIsKept
    GoodIsKept
    RecentIsTheTail
    BooksAgree
    BurstBounded
PROPERTIES
    RunsEnd
    EndsByItself
CHECK_DEADLOCK FALSE
