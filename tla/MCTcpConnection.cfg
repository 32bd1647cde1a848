SPECIFICATION FairSpec
CONSTANTS
    Threads = {t1}
    MaxSends = 2
    MaxArrivals = 1
    MessageSize = 2
    MaxCalls = 2
    MaxDowns = 1
INVARIANTS
    OutputInOrder
    FinAfterOutput
    MessagesWhileUp
PROPERTIES
    OutputDrains
    OrderlyShutdown
    ForceCloseCloses
CHECK_DEADLOCK FALSE
