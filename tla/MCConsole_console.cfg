SPECIFICATION ConsoleSpec
CONSTANTS
    ann = ann
    w1 = w1
    b1 = b1
    b2 = b2
    c1 = c1
    k1 = k1
    x1 = x1
    openai = openai
    groq = groq
    NoPassword = NoPassword
    Absent = Absent
    NoSecret = NoSecret
    Names = {ann}
    Allowed = {}
    Passwords = {w1}
    Browsers = {b1, b2}
    MaxAttempts = 2
    LockFor = 2
    TTL = 1
    WritesMayFail = TRUE
    MaxMishaps = 1
    Providers = {openai, groq}
    Configured = {openai}
    Live = {openai}
    AutoGranted = {}
    Byok = {openai}
    Calls = {c1}
    Headers <- MCHeaders
    KeyIds = {k1}
    MaxKeys = 2
    Gifts = {1}
    Secrets = {x1}
    MaxCredit = 2
    MaxTroubles = 1
    MaxDecisions = 2
INVARIANTS
    GuessesBounded
    SessionsHaveAccounts
    CreditAccounted
    GrantHonoured
PROPERTIES
    LockEnds
CHECK_DEADLOCK FALSE
