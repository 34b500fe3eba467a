SPECIFICATION FairSpec
CONSTANTS
    Leader = leader
    Kids = {k1, k2}
    Cap = 1
    CombinedCap = 1
    MaxChunks = 2
    Measured = {"mle"}
INVARIANTS StoppedLeavesNothing PassedIsEarned
PROPERTIES RunSettles
CHECK_DEADLOCK FALSE
