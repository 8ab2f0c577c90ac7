CONSTANTS
    Slots = {0, 1}
    Chans = {c}
    Streams = {t}
    Programs = {p1, p2}
    StreamOf <- MCStreamOf
    ServerRuns = TRUE
    Packets = 2
    MaxList = 2
    MaxRequests = 2
    MaxTroubles = 1
SPECIFICATION Spec
INVARIANTS TypeOK NoConflict NothingUnlisted RecordCovers InStep
PROPERTY RestartKeeps
SYMMETRY MCSymmetry
