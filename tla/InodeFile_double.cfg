CONSTANTS
    File = {f1}
    NDirect = 2
    IB_N_ENTRIES = 2
    BITS = 9
    NBB = 1
    Limit = 9
    MaxBlocks = 6
    Overwritten = {0, 1, 2, 3}
    StopAfter = {"shrink", "empty", "gap"}
    Unset = {}
    Wild = Wild
    NoOp = NoOp
SPECIFICATION Spec
INVARIANT DataBlocksAllocated
