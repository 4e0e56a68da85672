SPECIFICATION Spec
CONSTANTS
    Orders = {o1}
    Methods <- MCAllMethods
    Sessions = {s1, s2}
    MerchantStatuses = {}
    Charges = {c1, c2, c3}
    Outcomes <- MCAllOutcomes
    LockedLookup = TRUE
    CourierEvents <- MCAllCourierEvents
    Bookings = {}
    CashEdits = {TRUE, FALSE}
    Sweeping = TRUE
    ProofHeld = {}
    MaxVersion = 6
SYMMETRY MCSymmetry
INVARIANTS
    LiveOrderKeepsStock
PROPERTIES
    ClosedStaysClosed
    PaymentNotOverwritten
    LateMoneyFlagged
    CashReceiptKept
CHECK_DEADLOCK FALSE
