SPECIFICATION Spec
CONSTANTS
    Refunds = {f1, f2}
    Total = 2
    Collectible = 2
    PartialAmounts = {1}
    Creators = {c1, c2}
    Reviewers = {v1, v2}
    Processors = {p1, p2}
    MaxFaults = 2
    NoRefund = NoRefund
SYMMETRY MCSymmetry
INVARIANTS
    OpenFitsCollected
    PayoutsAccounted
    UnmarkedNeedsOverlap
PROPERTIES
    ImplementsSpendingLimit
CHECK_DEADLOCK FALSE
