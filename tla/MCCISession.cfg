CONSTANTS
    MAX_CI_SESSIONS = 3
    CI_T_SENDQSIZE = 1
    task = task
    web = web
    Senders <- OneSender
    TaskProcess = task
    CamRequests <- Requests
    ProgramCounts = {0, 2}
SPECIFICATION FairSpec
INVARIANTS TypeOK SessionTable CurrentLive FreshStart
PROPERTIES TableSpec RequestEnds
