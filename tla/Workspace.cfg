SPECIFICATION Spec
CONSTANTS
    Procs = {p1, p2}
    Contents <- MCContents
    Starter = "starter"
    Naive = "naive"
    Inputs <- MCInputs
    Whole = "whole"
    Halves <- MCHalves
    Outcome <- MCOutcome
    MaxEdits = 1
    Warmups = 1
    Samples = 1
SYMMETRY ProcSymmetry
INVARIANTS AnswersAreDurable MinimizedStillFails ReplayTellsTheTruth ExecutionsAreAttributed BenchmarkIsSound
PROPERTIES RowsHaveFiles InitIsAllOrNothing
CHECK_DEADLOCK FALSE
