SPECIFICATION FairSpec
CONSTANTS
    i1 = i1  i2 = i2  k1 = k1
    e1 = e1  e2 = e2  e3 = e3
    c1 = c1  c2 = c2
    Allowance = 1
    LowThreshold = 1
    Amount <- MCAmount
    InitialBalance <- MCInitialBalance
    CardIntents = {k1}
    ManualIntents = {}
    Receipts = {}
    Charges = {c1, c2}
    Submitters = {}
    Reviewers = {}
    DailyCountCap = 1
    Expirable = {k1}
    OverlapDeliveries = FALSE
    MaxCrashes = 1
    MaxFaults = 1
    MaxConfigEdits = 2
INVARIANTS
    SucceededIffCredited
PROPERTIES
    PaidIsCredited
CHECK_DEADLOCK FALSE
