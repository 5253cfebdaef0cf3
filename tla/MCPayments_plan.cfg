SPECIFICATION Spec
CONSTANTS
    u1 = u1
    u2 = u2
    i1 = i1
    i2 = i2
    v1 = v1
    v2 = v2
    gold = gold
    NoPlan = NoPlan
    NoKey = NoKey
    NoUser = NoUser
    NoInvoice = NoInvoice
    Users = {u1, u2}
    Invoices = {i1}
    Visits = {v1, v2}
    Plans = {gold}
    Keys = {}
    Price <- MCPrice
    Bundle <- MCBundle
    Term <- MCTerm
    PendingMaxAge = 0
    PendingLimit = 1
    TopUps = {1}
    MinTopUp = 2
    MaxTopUp = 3
    Payable = {"full", "short"}
    SavesMayFail = TRUE
    BridgeRefunds = TRUE
    MaxStarts = 1
    MaxDay = 1
    MaxCrashes = 1
    MaxSpent = 0
    MaxGrants = 1
    Costs = {1}
SYMMETRY Symmetric
INVARIANTS
    NoCreditWithoutMoney
    BalanceIsAccounted
    CleanMeansSaved
PROPERTIES
    ImplementsLedger
CHECK_DEADLOCK FALSE
