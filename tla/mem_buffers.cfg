SPECIFICATION MemSpec
CONSTANTS
    Sizes <- MCSizes
    Base = 5
    WordBytes = 2
    VecWords = 2
    Probes = 6
    Page = 4
    Stride = 29
    Mult = 3
    Offset = 2
    Digit = 3
    Transports <- MCTransports
    MaxRepeats = 16
CHECK_DEADLOCK FALSE
INVARIANTS
    ChecksumOfRow
    CopyVerdictTrue
