SPECIFICATION ReplacementsSpec
CONSTANTS
    w1 = w1
    w2 = w2
    z1 = z1
    z2 = z2
    Workers <- TwoWorkers
    Zones <- OneZone
    Faults = {"crash", "partialList", "timeout", "lostReply"}
    MaxAttempts = 2
    Reprovisions = 1
    MaxStep = 2
    MaxWindow = 1
SYMMETRY Symmetry
INVARIANTS
    TypeOK
    ReplacementsCounted
    QueuedJobWatched
PROPERTIES
    ChainSpec
CHECK_DEADLOCK FALSE
