CONSTANTS
    Char = {" ", "/", "1", "2"}
    NUL = "NUL"
    Byte = {" ", "/", "1", "2"}
    Junk = {"/"}
    BLOCK_SIZE = 2
    NDIRECT = 1
    IB_N_ENTRIES = 2
    INT_MAX = 2147483647
    MaxSize = 3
    Digit <- MCDigit
    FileName <- MCFileName
    MaxWord = 1
    MaxData = 2
    MaxFields = 3
SPECIFICATION Spec
INVARIANTS RequestsReadBack PathsFieldByField
PROPERTIES WriteReplaces InsertSplices DeleteCuts
