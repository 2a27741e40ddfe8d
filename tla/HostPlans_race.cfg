SPECIFICATION Spec
CONSTANTS
    Sessions = {s1, s2}
    Requests <- SearchRequests
    LegacyMax = 2
    FusedMin = 4
    OneSearch = FALSE
INVARIANTS
    StatsOnlyDiagnose
