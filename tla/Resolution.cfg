SPECIFICATION Spec
CONSTANTS
    Events <- SomeEvents
    Pools <- SomePools
    Regions <- OneRegion
    Catalogues <- ThreeCatalogues
    Offsets = {3}
    InsertErrors <- SomeErrors
    Fallback <- Guess
INVARIANTS
    TypeOK
    MachineHonoured
    SmallestFitting
    ConfigurationError
    HeldOnlyIfUndefined
    SettingsHonoured
    EveryZoneTried
CHECK_DEADLOCK FALSE
