SPECIFICATION FairSpec
CONSTANTS
    Procs = {p1, p2}
    Jobs = {j1, j2}
    Parts = 2
    MaxAttempts = 3
    MaxCrashes = 2
    NoProc = NoProc
    NoJob = NoJob
INVARIANTS LockIsOwned OneProblemRow
PROPERTIES ImplementsAtomicStore EverySubmissionSettles
CHECK_DEADLOCK FALSE
