SPECIFICATION FairSpec
CONSTANTS
    Threads = {t1, t2}
    MaxPosts = 3
INVARIANTS
    NoLostWakeup
    PushOrder
PROPERTIES
    EventuallyRuns
    QuitEndsLoop
