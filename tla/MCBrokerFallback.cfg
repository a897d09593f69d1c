SPECIFICATION Spec
CONSTANTS
    HandshakeBudget = 1
    InitBudget = 1
    Timeout = 2
    InterruptBudget = 1
    Abortable = FALSE
    InboxBound = 1
    NoiseBound = 0
INVARIANTS
    FallbackSurvives
CHECK_DEADLOCK FALSE
