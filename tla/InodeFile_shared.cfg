CONSTANTS
    File = {f1, f2}
    NDirect = 2
    IB_N_ENTRIES = 2
    BITS = 3
    NBB = 2
    Limit = 4
    MaxBlocks = 4
    Overwritten = {0, 1, 2, 3}
    StopAfter = {"shrink", "empty", "gap"}
    Unset = {"result", "block_id"}
    Wild = Wild
    NoOp = NoOp
SPECIFICATION Spec
SYMMETRY Interchangeable
INVARIANTS TypeOK BlocksExclusive CountExact NoLeak PointersInv
PROPERTY MapsStable
