SPECIFICATION Spec
CONSTANTS
    Targets = {t1, t2, t3}
    Slots = 2
    NoRun = NoRun
    MaxEdits = 2
    MaxOverflows = 0
    BusyStart = FALSE
    MayRestore = TRUE
    MayFail = TRUE
SYMMETRY TargetSymmetry
INVARIANTS SlotsExact LatestWins ChangesAreAnswered
PROPERTIES ImplementsLedger
CHECK_DEADLOCK FALSE
