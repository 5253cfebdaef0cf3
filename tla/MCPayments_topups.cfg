SPECIFICATION FairSpec
CONSTANTS
    u1 = u1
    u2 = u2
    i1 = i1
    i2 = i2
    v1 = v1
    v2 = v2
    gold = gold
    NoPlan = NoPlan
    NoKey = NoKey
    NoUser = NoUser
    NoInvoice = NoInvoice
    Users = {u1}
    Invoices = {i1, i2}
    Visits = {v1}
    Plans = {}
    Keys = {}
    Price <- MCPrice
    Bundle <- MCBundle
    Term <- MCTerm
    PendingMaxAge = 0
    PendingLimit = 2
    TopUps = {1}
    MinTopUp = 1
    MaxTopUp = 3
    Payable = {"full"}
    SavesMayFail = TRUE
    BridgeRefunds = FALSE
    MaxStarts = 2
    MaxDay = 0
    MaxCrashes = 1
    MaxSpent = 1
    MaxGrants = 0
    Costs = {1}
INVARIANTS
    TypeOK
    CreditIsDurable
    CheckoutRecorded
PROPERTIES
    PaidIsCredited
CHECK_DEADLOCK FALSE
