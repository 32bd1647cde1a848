SPECIFICATION FairSpec
CONSTANTS
    Calls = {c1, c2}
    IdRange = 4
    kMaxRememberedTimeouts = 1
    MaxPosts = 2
INVARIANTS
    TableConsistent
PROPERTIES
    AnsweredOnce
    DeadlineAnswers
    DownAnswersAll
CHECK_DEADLOCK FALSE
