SPECIFICATION Spec
CONSTANTS
    BlockLens = {1, 2, 4, 8}
    MaxNx = 9
    MaxNh = 4
    Feeding = "blocks"
CHECK_DEADLOCK FALSE
INVARIANTS
    ConcatIsLinearConv
