SPECIFICATION FairSpec

CONSTANTS
    MaxAttempts = 2
    MaxCalls = 4
    CallbackCalls = {"disconnect", "stop", "destroy"}

INVARIANTS
    FdOwnedOnce
    OutcomeIsOwn
    OnlyKnownFailures

PROPERTIES
    AttemptEnds
    DestroyReleases

\* The network may stay silent, and a failed assert ends the process.
CHECK_DEADLOCK FALSE
