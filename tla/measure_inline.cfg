SPECIFICATION Spec
CONSTANTS
    N = 1
    Per = 3
    Kinds <- MCAllKinds
    Ok = Ok
    NoMem = NoMem
    Again = Again
    Failed = Failed
    e1 = e1
    e2 = e2
    DspErrors <- MCErrors
    Cycles <- MCCycles
    Checksums <- MCChecksums
    MaxClock = 3
CHECK_DEADLOCK FALSE

PROPERTIES
    ImplementsAtomic
