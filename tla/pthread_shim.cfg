SPECIFICATION FairSpec
CONSTANTS
    N = 3
    Cells = {c1, c2}
    Errnos <- MCErrnos
CHECK_DEADLOCK FALSE
INVARIANTS
    StructIsMine
    NothingLeft
PROPERTIES
    ImplementsContract
