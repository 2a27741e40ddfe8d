SPECIFICATION Spec
CONSTANTS
    Sessions = {s1, s2}
    Requests <- AllRequests
    LegacyMax = 2
    FusedMin = 4
    OneSearch = TRUE
SYMMETRY Symmetry
INVARIANTS
    OwnEntryKeepsPromise
    OtherEntriesDoNothing
    NothingLeftBehind
