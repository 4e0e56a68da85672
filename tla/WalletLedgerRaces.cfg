SPECIFICATION FairSpec
CONSTANTS
    o1 = o1  o2 = o2  k1 = k1  k2 = k2
    Orders = {o2}
    Credits = {k1, k2}
    Handlers = {h1, h2}
    CreditAmount <- MCCreditAmount
    CollectedFee <- MCCollectedFee
    TotalFee <- MCTotalFee
    InitialBalance = 0
    Allowance = 1
    LowThreshold = 1
    MaxConfigEdits = 1
INVARIANTS
    TypeOK
    OneCommissionPerOrder
PROPERTIES
    DriftNeedsStaleCopy
    DriftHeals
    PaidIsCharged
CHECK_DEADLOCK FALSE
