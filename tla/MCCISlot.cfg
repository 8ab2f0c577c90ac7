CONSTANTS
    WVCI_MAX_SLOT_NUM = 2
    MAX_RETRY_TIMES = 2
    MAX_TRY_READ = 3
    SteadySockets = TRUE
SPECIFICATION FairSpec
INVARIANTS TypeOK AssertHolds InUseIsShown
PROPERTIES Noticed StartEnds
