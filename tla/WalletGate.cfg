SPECIFICATION Spec
CONSTANTS
    Procs = {p1, p2}
    Tenants <- MCTenants
    Settings <- MCSettings
    Wallets <- MCWallets
    MaxChanges = 2
    Nil = Nil
INVARIANTS
    StaleHasCause
PROPERTIES
    RefusalHasCause
    GateHeals
