SPECIFICATION MCSpec
CONSTANTS
    Ceiling = 16
    TinyTaps = 3
INVARIANTS
    OneCallIsCyclicConv
    CorrInPlaceSafe
    OlaPrefixSummed
    WeldsBuildable
    NoAliasing
    CorrectionFits
    RouteTableAsDocumented
