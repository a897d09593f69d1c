SPECIFICATION FairSpec
CONSTANTS
    BrokerEnabled = TRUE
    ModelsDiffer = TRUE
    TimeoutReadsAsQuota = TRUE
    Stubborn = {1}
    Timeout = 4
    BrokerTime = 5
    RetryDelay = 2
    KillGrace = 1
    SpawnBound = 5
INVARIANTS
    DispatchWithinBudget
    OneWorkingCodex
PROPERTIES
    HookEnds
CHECK_DEADLOCK FALSE
