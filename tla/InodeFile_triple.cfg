CONSTANTS
    File = {f1}
    NDirect = 2
    IB_N_ENTRIES = 2
    BITS = 18
    NBB = 1
    Limit = 18
    MaxBlocks = 12
    Overwritten = {0, 1, 2, 3, 4, 5, 6, 7, 8, 9, 10, 11}
    StopAfter = {"shrink", "empty", "gap"}
    Unset = {}
    Wild = Wild
    NoOp = NoOp
SPECIFICATION Spec
INVARIANTS BlocksExclusive NoLeak PointersInv
PROPERTY MapsStable
