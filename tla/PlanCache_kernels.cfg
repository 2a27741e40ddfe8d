SPECIFICATION Spec
CONSTANTS
    Sessions = {s1, s2}
    Addr = {a1, a2}
    Null = Null
    Requests <- KernelRequests
    NoRequest = NoRequest
    ExternalLock = TRUE
INVARIANTS
    HandleForRequest
