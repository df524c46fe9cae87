SPECIFICATION FairSpec
CONSTANTS
    Before = Before
    Inside = Inside
    Exit = Exit
    Behind = Behind
    Other = Other
    v = v
    w = w
    x = x
    y = y
    BasePtr = BasePtr
    Block <- MCBlock
    Value <- MCValue
    Programs <- PointerLoop
PROPERTY Returns
CHECK_DEADLOCK FALSE
