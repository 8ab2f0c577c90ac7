CONSTANTS
    WVCI_MAX_SLOT_NUM = 1
    MAX_RETRY_TIMES = 2
    MAX_TRY_READ = 3
    SteadySockets = TRUE
SPECIFICATION Spec
INVARIANT RemovalReported
