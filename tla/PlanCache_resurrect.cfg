SPECIFICATION Spec
CONSTANTS
    Sessions = {s1, s2}
    Addr = {a1, a2}
    Null = Null
    Requests <- RaceRequests
    NoRequest = NoRequest
    ExternalLock = FALSE
INVARIANTS
    HandlesLive
