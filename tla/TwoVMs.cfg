SPECIFICATION Spec
CONSTANTS
    w1 = w1
    w2 = w2
    z1 = z1
    z2 = z2
    Workers <- TwoWorkers
    Zones <- TwoZones
    Faults = {"redelivery"}
    MaxAttempts = 2
    Reprovisions = 1
    MaxStep = 3
    MaxWindow = 1
SYMMETRY Symmetry
INVARIANTS
    OneVM
CHECK_DEADLOCK FALSE
