SPECIFICATION Spec
CONSTANTS
    Entries = {entry}
    Blocks = 3
    Parallel = 2
    MaxSends = 2
    Faults <- AnyFault
INVARIANTS StoredWhole StoredComplete SavedIsComplete
PROPERTIES SavedIsFinal
CHECK_DEADLOCK FALSE
