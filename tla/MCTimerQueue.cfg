SPECIFICATION FairSpec
CONSTANTS
    Threads = {t1}
    Loop = loop
    Addrs = {a1, a2}
    MaxTimers = 2
    MaxDelay = 1
    Interval = 1
    MaxPending = 2
INVARIANTS
    OneOwner
    CancelNotForgotten
    OneShotRunsOnce
PROPERTIES
    TimersFire
CHECK_DEADLOCK FALSE
