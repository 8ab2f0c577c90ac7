CONSTANTS
    CI_T_SENDQSIZE = 3
    FRAGMENTS = 2
    MODULE_BUFFER = 2
    mon = mon
    task = task
    web = web
    none = none
    Senders <- OneSender
    Monitoring = mon
    NONE = none
    MAX_RESTARTS = 1
SPECIFICATION FairSpec
INVARIANTS TypeOK WholeMessages SomeoneMoves
PROPERTIES ModuleIsHeard SendReturns
CHECK_DEADLOCK FALSE
