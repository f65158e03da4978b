SPECIFICATION Spec
CONSTANTS
    Apps = {a1, a2}
    Callbacks = {c1, c2}
    None = None
    Faults <- EveryFault
SYMMETRY Symmetry
INVARIANTS
    SavedIsWhole
    SignedWhole
PROPERTIES
    NoNilClient
CHECK_DEADLOCK FALSE
