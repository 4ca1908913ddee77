SPECIFICATION Spec
CONSTANTS
    CommandLines <- MCCommandLines
    IntMax = 31
    LongMax = 127
    SizeMod = 256
    MiB = 8
    VecBytes = 4
    MaxThreads = 5
    DefaultMs = 20
    DefaultMiB = 2
    HvxCounts <- MCHvxCounts
    Places <- MCPlaces
    PathMax = 10
    SkelLen = 2
CHECK_DEADLOCK FALSE
INVARIANTS
    CountsAsAsked
    RunUsable
    OwnDirectoryIsUsed
