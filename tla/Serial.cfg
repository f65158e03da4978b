SPECIFICATION Spec
CONSTANTS
    w1 = w1
    w2 = w2
    z1 = z1
    z2 = z2
    Workers <- OneWorker
    Zones <- TwoZones
    Faults = {"crash", "apiError", "redelivery", "refusal", "timeout"}
    MaxAttempts = 2
    Reprovisions = 1
    MaxStep = 2
    MaxWindow = 2
SYMMETRY Symmetry
INVARIANTS
    OneVM
    VMKeepsRegistration
CHECK_DEADLOCK FALSE
