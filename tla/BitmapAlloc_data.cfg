CONSTANTS
    BITS = 2
    NBB = 3
    Limit = 3
    Garbage = 1
    MaxCrashes = 2
SPECIFICATION Spec
INVARIANTS TypeOK FreeCountExact HintSkipsNothing RoomIsFound
PROPERTY DriftStays
