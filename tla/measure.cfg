SPECIFICATION FairSpec
CONSTANTS
    N = 3
    Per = 2
    Kinds <- MCAllKinds
    Ok = Ok
    NoMem = NoMem
    Again = Again
    Failed = Failed
    e1 = e1
    e2 = e2
    DspErrors <- MCErrors
    Cycles <- MCCycles
    Checksums <- MCChecksums
    MaxClock = 1
CHECK_DEADLOCK FALSE
INVARIANTS
    NoUseAfterFree
    ReturnsQuiescent
    CountIsWorkDone
    ElapsedCoversWork
PROPERTIES
    Returns
    ImplementsAtomic
