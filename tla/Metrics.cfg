SPECIFICATION FairSpec
CONSTANTS
    Requests = {r1, r2, r3}
    Faults <- EveryFault
INVARIANTS
    TypeOK
    ReleasedCarried
    NothingLeftBehind
PROPERTIES
    AskAnswered
CHECK_DEADLOCK FALSE
