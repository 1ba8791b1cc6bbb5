SPECIFICATION Spec
CONSTANTS
    Size = 12
    TextSize = 14
    IntBits = 8
    LongBits = 9
    FifoSize = 3
    Messages <- MainMessages
    Brief <- BriefMessages
    MaxNest = 3
    MaxCalls = 3
INVARIANT FormatsRight
INVARIANT NothingLost
PROPERTY EveryLineSent
CHECK_DEADLOCK FALSE
