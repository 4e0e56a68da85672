SPECIFICATION Spec
CONSTANTS
    Intents = {i1, i2}
    CardIntents = {i2}
    Receipts = {r1}
    Trial = 1
    Period = 2
    Grace = 1
    Backoff = 1
    MaxRetries = 1
    Window = 2
    MaxNow = 2
    MaxChanges = 1
    MaxJobs = 2
    Nil = Nil
INVARIANTS TypeOK GraceIsWhole PaidTimeKept ActivatedTwiceHasCause CardPaymentHonoured
PROPERTIES DeletedHasCause
CHECK_DEADLOCK FALSE
