SPECIFICATION Spec
CONSTANTS
    a = a
    b = b
    c = c
    Hooks <- ThreeHooks
    Ghost = Ghost
    NoLock = NoLock
    TimeoutOf <- ShortTimeouts
    BudgetOf <- DispatchBudgets
    TtlFloor = 3
    TtlBuffer = 1
    Refusals = TRUE
    Kills = TRUE
    MaxTime = 7
PROPERTIES
    ReleaseRemovesOwnLock
    ImplementsMutex
    RecheckSound
    RaceLostToSuccessor
CHECK_DEADLOCK FALSE
