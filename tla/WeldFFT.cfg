SPECIFICATION Spec
CONSTANTS
    Prime = 10079
    Order = 10080
    Root <- RootOf10080
    WeldCalls <- SomeWelds
INVARIANTS
    WeldBlocksAreTransforms
    WeldReturnsItsKind
    PaddingStaysInSlack
CHECK_DEADLOCK FALSE
