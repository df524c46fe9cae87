SPECIFICATION FairSpec
CONSTANTS
    Before = Before
    Inside = Inside
    Exit = Exit
    Behind = Behind
    Other = Other
    v = v
    w = w
    x = x
    y = y
    BasePtr = BasePtr
    Block <- MCBlock
    Value <- MCValue
    Programs <- MCPrograms
INVARIANTS
    TypeOK
    AnswerDetermined
    LocalNotLiveUnread
PROPERTIES
    ReturnsUnlessCyclic
CHECK_DEADLOCK FALSE
