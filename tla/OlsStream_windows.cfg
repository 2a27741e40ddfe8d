SPECIFICATION Spec
CONSTANTS
    BlockLens = {1, 2, 4, 8}
    MaxNx = 9
    MaxNh = 4
    Feeding = "windows"
CHECK_DEADLOCK FALSE
INVARIANTS
    StreamComplete
    TailIsNextHead
    ConcatIsLinearConv
