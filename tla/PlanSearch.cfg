SPECIFICATION Spec
CONSTANTS
    Searches <- SomeSearches
INVARIANTS
    FusedShapeValid
    OnlyPinsFail
    ArenaHolds
    ClassesReached
CHECK_DEADLOCK FALSE
