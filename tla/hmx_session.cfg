SPECIFICATION FairSpec
CONSTANTS
    c1 = c1
    c2 = c2
    Clients = {c1, c2}
    Requests <- MCRequests
    Arch = 68
    Errs <- MCErrs
    VtcmReports <- MCReports
    Bases <- MCBases
    Shortfalls <- MCShortfalls
    CacheSlots = 2
    MaxCalls = 1
CHECK_DEADLOCK FALSE
INVARIANTS
    HmxExclusive
    NoLeakOnReturn
    ProbeTruth
    DiagnosisFaithful
    SuccessMeansDone
    FootprintFits
PROPERTIES
    CallReturns
