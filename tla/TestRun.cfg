SPECIFICATION FairSpec
CONSTANTS
    Jobs = 2
    CaseCount = 3
INVARIANTS PersistedIsComplete AnswerIsTrue StoreOutlivesWork
PROPERTIES TestAnswers
CHECK_DEADLOCK FALSE
