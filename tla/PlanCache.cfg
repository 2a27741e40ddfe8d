SPECIFICATION FairSpec
CONSTANTS
    Sessions = {s1, s2}
    Addr = {a1, a2}
    Null = Null
    Requests <- KindRequests
    NoRequest = NoRequest
    ExternalLock = TRUE
INVARIANTS
    TypeOK
    HandlesLive
    RefcountExact
    OnePlanPerKey
    EqualRequestsShare
    NoLeak
    ListedLive
    HandleForRequest
PROPERTIES
    ReclaimedUnreferenced
    CreateReturns
    UnreferencedFreed
    ImplementsStore
