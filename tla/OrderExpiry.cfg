SPECIFICATION FairSpec
CONSTANTS
    Orders = {o1, o2}
    Methods = {"deposit", "card"}
    Sessions = {s1}
    MerchantStatuses = {}
    Charges = {c1, c2}
    Outcomes = {"success", "decline"}
    LockedLookup = TRUE
    CourierEvents = {}
    Bookings = {}
    CashEdits = {}
    Sweeping = TRUE
    ProofHeld = {}
    MaxVersion = 4
PROPERTIES
    ExpiredOrderEnds
CHECK_DEADLOCK FALSE
