CONSTANTS
    MAX_CI_SESSIONS = 2
    CI_T_SENDQSIZE = 3
    task = task
    web = web
    Senders <- TwoSenders
    TaskProcess = task
    CamRequests <- CaOnly
    ProgramCounts = {1}
SPECIFICATION Spec
INVARIANT OwedIsFlagged
