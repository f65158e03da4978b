SPECIFICATION FairSpec
CONSTANTS
    w1 = w1
    w2 = w2
    z1 = z1
    z2 = z2
    Workers <- OneWorker
    Zones <- OneZone
    Faults = {"crash", "apiError", "waiting"}
    MaxAttempts = 2
    Reprovisions = 1
    MaxStep = 4
    MaxWindow = 1
INVARIANTS
    OneChain
PROPERTIES
    QueuedJobGetsRunner
CHECK_DEADLOCK FALSE
