SPECIFICATION Spec
CONSTANTS
    w1 = w1
    w2 = w2
    Workers <- TwoWorkers
    Faults = {"timeout", "lostReply", "refusal"}
    MaxAttempts = 2
    RerunAttempts = 3
    MaxRunAttempt = 3
    Slots = 2
SYMMETRY Symmetry
INVARIANTS
    RerunOnce
    PreemptionRemembered
PROPERTIES
    RerunDeserved
    PromiseKept
CHECK_DEADLOCK FALSE
