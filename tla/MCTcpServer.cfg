SPECIFICATION FairSpec

CONSTANTS
    Peers = {p1}
    MaxSubLoops = 2
    MaxConns = 2
    MaxSpare = 1

INVARIANTS
    MapExact
    OnlyKnownFailures
    IdleFdKept

PROPERTIES
    HungUpIsFreed
    WaitingIsServed

\* A failed assert ends the process; a destroyed server does nothing more.
CHECK_DEADLOCK FALSE
