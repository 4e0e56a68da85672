SPECIFICATION Spec
CONSTANTS
    Orders = {o1}
    Methods = {"card"}
    Sessions = {s1}
    MerchantStatuses = {}
    Charges = {c1}
    Outcomes = {"success"}
    LockedLookup = FALSE
    CourierEvents = {}
    Bookings = {}
    CashEdits = {}
    Sweeping = TRUE
    ProofHeld = {}
    MaxVersion = 5
PROPERTIES
    ClosedStaysClosed
CHECK_DEADLOCK FALSE
