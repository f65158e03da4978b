SPECIFICATION FairSpec
CONSTANTS
    Requests = {r1, r2}
    Faults <- EveryFault
    Ttl = 2
    Life = 3
    Margin = 1
    FetchTime = 1
    MaxTime = 3
    MaxVersion = 1
INVARIANTS
    TypeOK
PROPERTIES
    CatalogueFresh
    BranchFresh
    FailureObserved
    TokenOutlives
    Answered
CHECK_DEADLOCK FALSE
