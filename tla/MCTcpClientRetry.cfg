SPECIFICATION Spec

CONSTANTS
    MaxAttempts = 2
    MaxCalls = 2
    CallbackCalls = {"connect"}

INVARIANT OutcomeIsOwn

CHECK_DEADLOCK FALSE
