CONSTANTS
    Conns = {c1, c2}
    None = None
SPECIFICATION Spec
SYMMETRY MCSymmetry
CHECK_DEADLOCK FALSE
INVARIANTS TypeOK RunsWhatItChecked GoodIsRun NothingLeft
