SPECIFICATION FairSpec
CONSTANTS
    BrokerEnabled = FALSE
    ModelsDiffer = TRUE
    TimeoutReadsAsQuota = FALSE
    Stubborn = {1}
    Timeout = 4
    BrokerTime = 5
    RetryDelay = 2
    KillGrace = 1
    SpawnBound = 5
PROPERTIES
    SignalledProcessesDie
CHECK_DEADLOCK FALSE
