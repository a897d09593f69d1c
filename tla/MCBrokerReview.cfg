SPECIFICATION FairSpec
CONSTANTS
    HandshakeBudget = 1
    InitBudget = 1
    Timeout = 2
    InterruptBudget = 1
    Abortable = TRUE
    InboxBound = 2
    NoiseBound = 1
INVARIANTS
    AnswerIsOwn
    AttemptWithinBudget
    RunningTurnsAreInterrupted
    NoLeakedConnection
    NoSecondSpend
PROPERTIES
    AttemptEnds
CHECK_DEADLOCK FALSE
