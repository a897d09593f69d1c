SPECIFICATION Spec
CONSTANTS
    a = a
    b = b
    c = c
    Hooks <- TwoHooks
    Ghost = Ghost
    NoLock = NoLock
    TimeoutOf <- DefaultTimeouts
    BudgetOf <- DispatchBudgets
    TtlFloor = 3
    TtlBuffer = 1
    Refusals = FALSE
    Kills = FALSE
    MaxTime = 12
PROPERTIES
    NeverStealsLive
CHECK_DEADLOCK FALSE
