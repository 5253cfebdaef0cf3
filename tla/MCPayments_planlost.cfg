SPECIFICATION Spec
CONSTANTS
    u1 = u1
    u2 = u2
    i1 = i1
    i2 = i2
    v1 = v1
    v2 = v2
    gold = gold
    NoPlan = NoPlan
    NoKey = NoKey
    NoUser = NoUser
    NoInvoice = NoInvoice
    Users = {u1}
    Invoices = {i1}
    Visits = {v1}
    Plans = {gold}
    Keys = {}
    Price <- MCPrice
    Bundle <- MCBundle
    Term <- MCTerm
    PendingMaxAge = 0
    PendingLimit = 1
    TopUps = {1}
    MinTopUp = 1
    MaxTopUp = 3
    Payable = {"full", "short"}
    SavesMayFail = FALSE
    BridgeRefunds = FALSE
    MaxStarts = 1
    MaxDay = 0
    MaxCrashes = 1
    MaxSpent = 0
    MaxGrants = 0
    Costs = {1}
SYMMETRY Symmetric
INVARIANTS
    PlanBoughtWithTopUp
CHECK_DEADLOCK FALSE
