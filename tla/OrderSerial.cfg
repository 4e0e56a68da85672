SPECIFICATION Spec
CONSTANTS
    Orders = {o1}
    Methods <- MCAllMethods
    Sessions = {s1}
    MerchantStatuses <- MCAllStatuses
    Charges = {c1, c2}
    Outcomes <- MCAllOutcomes
    LockedLookup = FALSE
    CourierEvents <- MCAllCourierEvents
    Bookings <- MCAllBookings
    CashEdits = {TRUE, FALSE}
    Sweeping = FALSE
    ProofHeld = {}
    MaxVersion = 6
SYMMETRY MCSymmetry
INVARIANTS
    TypeOK
    StampMatchesStock
PROPERTIES
    ClosedStaysClosed
CHECK_DEADLOCK FALSE
