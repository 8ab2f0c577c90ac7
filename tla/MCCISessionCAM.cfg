CONSTANTS
    MAX_CI_SESSIONS = 3
    CI_T_SENDQSIZE = 4
    MAX_IN_FLIGHT = 2
    PatientMmi = TRUE
    task = task
    Senders <- OneSender
    TaskProcess = task
    CamRequests <- Requests
    ProgramCounts = {1}
SPECIFICATION CamFairSpec
INVARIANTS CamTypeOK Agreement MmiSessionCurrent
PROPERTIES SpeaksOnHeldSession EveryRequestAnswered
