SPECIFICATION Spec
CONSTANTS
    Logs = {l1}
    Subs = {s1}
    SubOf <- MCSubOf
    Attempts = {a1, a2}
    Pollers = {w1}
    MaxAttempts = 2
    MaxCrashes = 1
    NoLog = NoLog
INVARIANTS
    GivenUpHonestly
    AccountedFor
    LadderHolds
PROPERTIES
    DeliveredIsFinal
    EventuallySettled
CHECK_DEADLOCK FALSE
