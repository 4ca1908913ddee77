SPECIFICATION Spec
CONSTANTS
    Options <- MCPlain
    Devices <- MCDevices
    MaxThreads = 2
    IntMax = 127
    Errs <- MCErrs
CHECK_DEADLOCK FALSE
INVARIANTS
    ExactSkel
