CONSTANTS
    INIT_TS_NUM = 2
    INIT_PROG_NUM = 2
    INIT_PID_NUM = 6
    ALLOCATE_INPUT_PROG_NUM_PER_TIME = 1
    ALLOCATE_INPUT_PID_NUM_PER_TIME = 4
    MAX_INDEX_LIST_NUMBER = 12
    DTV4U_TUNER_CHAN_NUM = 2
    Freqs = {"two", "stuck", "ecm", "off"}
    LockedFreqs = {"two", "stuck", "ecm"}
    DefaultFreq = "two"
    MaxSets = 1
    MaxEvents = 1
    OnAir <- MCOnAir
SPECIFICATION PSpec
INVARIANTS TypeOK ListsSound OnlyPCRLost
PROPERTIES KeepsPromise OthersKept FlagServed
