SPECIFICATION FairSpec
CONSTANTS
    Main = Main
    Workers = {w1, w2}
    Dlls <- MCDlls
    WorkerCalls = 2
CHECK_DEADLOCK FALSE
INVARIANTS
    BoundCalls
    HandlesClosed
    NothingLost
PROPERTIES
    ImplementsOneVerdict
