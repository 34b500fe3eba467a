SPECIFICATION Spec
CONSTANTS
    Procs = {p1, p2}
    Contents <- MCContents
    Starter = "starter"
    Naive = "naive"
    Inputs <- MCInputs
    Whole = "whole"
    Halves <- MCHalves
    Outcome <- MCOutcome
    MaxEdits = 1
    Warmups = 0
    Samples = 1
SYMMETRY ProcSymmetry
INVARIANT ReplayIsPersisted
CHECK_DEADLOCK FALSE
