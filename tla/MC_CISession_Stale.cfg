CONSTANTS
    MAX_CI_SESSIONS = 2
    CI_T_SENDQSIZE = 2
    task = task
    web = web
    Senders <- OneSender
    TaskProcess = task
    CamRequests <- Requests
    ProgramCounts = {1}
SPECIFICATION Spec
PROPERTY CaPmtOnCaSession
