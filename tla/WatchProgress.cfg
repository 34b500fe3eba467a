SPECIFICATION FairSpec
CONSTANTS
    Targets = {t1, t2}
    Slots = 1
    NoRun = NoRun
    MaxEdits = 1
    MaxOverflows = 1
    BusyStart = FALSE
    MayRestore = FALSE
    MayFail = FALSE
INVARIANTS VerdictOnSnapshot
PROPERTIES DrainedIsQuiet BusyDrainCompletes LatestIsJudged
CHECK_DEADLOCK FALSE
