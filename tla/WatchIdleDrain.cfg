SPECIFICATION FairSpec
CONSTANTS
    Targets = {t1}
    Slots = 1
    NoRun = NoRun
    MaxEdits = 1
    MaxOverflows = 0
    BusyStart = FALSE
    MayRestore = FALSE
    MayFail = FALSE
PROPERTIES DrainCompletes
CHECK_DEADLOCK FALSE
