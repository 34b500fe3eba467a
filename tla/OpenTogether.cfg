SPECIFICATION FairSpec
CONSTANTS
    Procs = {p1, p2, p3}
    NoProc = NoProc
    OnDisk = {0, 1, 2, 3, 4}
    MaxFailures = 2
INVARIANTS SchemaMatchesVersion OpenIsCurrent
PROPERTIES NewerIsUntouched EveryoneOpens
CHECK_DEADLOCK FALSE
