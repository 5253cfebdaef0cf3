SPECIFICATION CapabilitiesSpec
CONSTANTS
    p1 = p1
    p2 = p2
    r1 = r1
    r2 = r2
    x1 = x1
    x2 = x2
    sp = sp
    tr = tr
    de = de
    md = md
    lv = lv
    n1 = n1
    n2 = n2
    deep = deep
    warm = warm
    alto = alto
    None = None
    NoAsk = NoAsk
    Requests = {r1, r2}
    Admins = {x1, x2}
    Aliases = {sp, tr, de, md, lv}
    Names = {n1, n2}
    Providers = {p1, p2}
    Live = {p1, p2}
    Native = {p1}
    Local = {p1, p2}
    Priced = {p1}
    Prepaid = {p1}
    Units = {0, 1}
    Samples = 2
    MaxEvents = 3
    Deployments <- MCDeployments
    Voices <- MCVoices
    Speaks <- MCSpeaks
    Calls <- MCCalls
    Edits <- MCEdits
INVARIANTS
    SettingsFollow
    MarkIsEarned
    NoForeignVoice
    LiveIsPriced
    BookedAsServed
    AskedIsShown
PROPERTIES
    ImplementsFallback
SYMMETRY Symmetric
CHECK_DEADLOCK FALSE
