SPECIFICATION FairThreadSpec
CONSTANTS
    Threads = {o, t1}
    Owner = o
    MaxPosts = 3
INVARIANTS
    QuitOnLiveLoop
PROPERTIES
    DtorEndsRunningLoop
CHECK_DEADLOCK FALSE
