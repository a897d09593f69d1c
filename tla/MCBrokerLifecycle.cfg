\* Two sessions, of one plugin version or of two; any three of their hooks and
\* app-servers may die.
CONSTANTS
    N = 2
    None = None
    AccidentBound = 3
SPECIFICATION FairSpec
INVARIANTS
    BootstrapsAreExclusive
    BootstrapsKeepNoChild
    PublishedBrokerAnswered
    NoOrphanBroker
PROPERTY HooksEnd
CHECK_DEADLOCK FALSE
