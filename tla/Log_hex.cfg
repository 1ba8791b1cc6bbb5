SPECIFICATION Spec
CONSTANTS
    Size = 12
    TextSize = 14
    IntBits = 8
    LongBits = 9
    FifoSize = 3
    Messages <- MainMessages
    Brief <- BriefMessages
    MaxNest = 1
    MaxCalls = 1
INVARIANT LongHexPrefixed
CHECK_DEADLOCK FALSE
