SPECIFICATION Spec
CONSTANTS
    DirectMax = 2
    MaxNx = 7
    MaxNh = 4
INVARIANTS
    OneCallIsLinearConv
    DirectInPlaceSafe
    OlsPrefixWelded
PROPERTY
    ExecuteReturns
