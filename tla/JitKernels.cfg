SPECIFICATION Spec
CONSTANTS
    Prime = 127
    Order = 128
    Root <- RootOf128
    TileBudgets = {0, 4, 8, 16}
    PoolMax = 32
    Calls <- SomeCalls
INVARIANTS
    BlocksAreTransforms
    CallReturnsItsKind
    DiscardZoneUntouched
    GroupsStayResident
CHECK_DEADLOCK FALSE
