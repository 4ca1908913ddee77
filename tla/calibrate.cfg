SPECIFICATION FairSpec
CONSTANTS
    Kinds <- MCAll
    M = 3
    Starts <- MCStarts
    Iterations <- MCIterations
    MinMs = 200
    ElapsedTimes <- MCTimes
    Errs <- MCErrs
CHECK_DEADLOCK FALSE
INVARIANTS
    NoOverflow
    RowsOfOneRound
    RowsLongEnough
PROPERTIES
    Terminates
