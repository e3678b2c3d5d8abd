CONSTANTS
    b1 = b1
    b2 = b2
    d1 = d1
    d2 = d2
    Super = super
    NoBlock = NoBlock
    NoCall = NoCall
    Written = Written
    Failed = Failed
    Block = {super, b1, b2}
    Data = {d1}
    CACHE_SIZE = 2
SPECIFICATION FairSpec
PROPERTIES CallsReturn QuietCloseEnds
