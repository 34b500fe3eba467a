SPECIFICATION FairSpec
CONSTANTS
    Jobs = 3
    MaxCases = 4
INVARIANTS FirstFailureReported PassedIsComplete
PROPERTIES CommandAnswers
CHECK_DEADLOCK FALSE
