SPECIFICATION Spec
CONSTANTS
    j1 = j1
    j2 = j2
    w1 = w1
    w2 = w2
    Jobs <- TwoJobs
    None = None
    Workers <- TwoWorkers
    Faults = {"timeout", "apiError", "lostReply", "partialList", "crash"}
    MaxAttempts = 2
    MaxGen = 2
SYMMETRY Symmetry
INVARIANTS
    CompletedVMGone
    NoIdleLeftover
PROPERTIES
    KillsExplained
CHECK_DEADLOCK FALSE
