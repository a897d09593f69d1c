SPECIFICATION FairSpec
CONSTANTS
    p1 = p1
    p2 = p2
    s1 = s1
    s2 = s2
    NoSession = NoSession
    Prompts <- TwoPrompts
    Sessions <- TwoSessions
    Requests <- SomeRequests
    EditReplies <- SomeReplies
    ByteSize <- Sizes
    JobBound = 2
    WarmCaches <- SomeCaches
    MaxTime = 1
    Ttl = 0
    MaxEntries = 2
    MaxBytes = 3
    MaxChars = 4
    MaxMessages = 3
    MaxSessions = 1
    MaxChunkFiles = 1
    TimeoutReadsAsQuota = FALSE
INVARIANTS
    CacheWithinLimits
    CachedAnswersAreAsked
    OneProcessPerJob
    ChunksAreExact
PROPERTIES
    AnswersStand
    SessionsKeepTurns
    CallsEnd
CHECK_DEADLOCK FALSE
