SPECIFICATION Spec
CONSTANTS
    FPerTick = 3
    FPerUs = 4
    UintMod = 16
    Delays = {1, 3}
    MaxNest = 2
    KeyLen = 4
    MaxArgs = 2
    BufLen = 6
    ValLen = 6
    ArgMod = 16
    Digits <- BinaryDigits
    Room = 2
    LevelMod = 4
    Keys <- KeysUsed
    SerialKey <- S
    DbgKey <- D
    Machines <- AllMachines
    MaxFires = 3
INVARIANT ArgsFound
INVARIANT MadtComplete
INVARIANT PicQuiet
INVARIANT RoutesToVector
INVARIANT MaskFollowsRequests
INVARIANT SleptLongEnough
PROPERTY BootEnds
PROPERTY SleepEnds
CHECK_DEADLOCK FALSE
