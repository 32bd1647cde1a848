SPECIFICATION FairThreadSpec
CONSTANTS
    Threads = {o, t1}
    Owner = o
    MaxPosts = 3
PROPERTIES
    DtorReturns
CHECK_DEADLOCK FALSE
