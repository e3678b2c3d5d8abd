CONSTANTS
    w1 = w1
    w2 = w2
    Worker = {w1, w2}
    Byte = {0, 1}
    Shape <- MCShape
    HALF = 5
    sector_size = 2
    MaxSide = 2
SPECIFICATION Spec
SYMMETRY Interchangeable
INVARIANTS TypeOK BlocksReadBack ReadsAreWhole
