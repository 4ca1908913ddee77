SPECIFICATION Spec
CONSTANTS
    Options <- MCOptions
    Devices <- MCDevices
    MaxThreads = 2
    IntMax = 127
    Errs <- MCErrs
CHECK_DEADLOCK FALSE
INVARIANTS
    CleanExit
    ExitTruth
    RowsOnce
    BannerMaskTrue
    HmxScenariosFit
    ResourcesForScenarios
