SPECIFICATION Spec
CONSTANTS
    N = 2
    Jobs <- MCJobs
    WordMod = 1000
    CounterMod = 5
    ReadCosts <- MCReadCosts
    MaxNow = 7
CHECK_DEADLOCK FALSE
INVARIANTS
    BannerOverheadUsed
    ElapsedSound
    OpsAreWhatRan
    Int8FormsAgree
