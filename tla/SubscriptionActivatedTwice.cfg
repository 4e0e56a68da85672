SPECIFICATION Spec
CONSTANTS
    Intents = {i1}
    CardIntents = {}
    Receipts = {r1, r2}
    Trial = 1
    Period = 2
    Grace = 1
    Backoff = 1
    MaxRetries = 2
    Window = 1
    MaxNow = 1
    MaxChanges = 0
    MaxJobs = 2
    Nil = Nil
INVARIANT ActivatedOnce
CHECK_DEADLOCK FALSE
