SPECIFICATION FairSpec
CONSTANTS
    w1 = w1
    w2 = w2
    Workers <- OneWorker
    Faults = {"crash", "apiError", "partialList"}
    MaxAttempts = 2
    RerunAttempts = 3
    MaxRunAttempt = 3
    Slots = 3
PROPERTIES
    PreemptedIsRerun
CHECK_DEADLOCK FALSE
