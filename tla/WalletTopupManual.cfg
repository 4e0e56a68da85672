SPECIFICATION Spec
CONSTANTS
    i1 = i1  i2 = i2  k1 = k1
    e1 = e1  e2 = e2  e3 = e3
    c1 = c1  c2 = c2
    Allowance = 1
    LowThreshold = 1
    Amount <- MCAmount
    InitialBalance <- MCInitialBalance
    CardIntents = {}
    ManualIntents = {i1, i2}
    Receipts = {e1, e2, e3}
    Charges = {}
    Submitters = {s1, s2}
    Reviewers = {r1, r2}
    DailyCountCap = 1
    Expirable = {i1}
    OverlapDeliveries = FALSE
    MaxCrashes = 0
    MaxFaults = 0
    MaxConfigEdits = 1
SYMMETRY MCSymmetry
INVARIANTS
    TypeOK
    CreditedOnce
    ApprovedIsCredited
    HoldNeverExceedsReview
    AutoApprovalOvershoot
PROPERTIES
    SucceededIsFinal
CHECK_DEADLOCK FALSE
