SPECIFICATION SharedSpec
CONSTANTS
    s1 = s1
    s2 = s2
    k1 = k1
    k2 = k2
    h1 = h1
    h2 = h2
    h3 = h3
    Servers = {s1, s2}
    Keys = {k1, k2}
    Ttl = 0
    MaxFiles = 1
    MaxTurns = 1
    NoFile = NoFile
    NoKey = NoKey
    MaxTime = 1
    SaveBound = 3
    Hooks = {h1, h2, h3}
    Reasons <- TwoReasons
    MaxLogBytes = 3
    MaxLogEntries = 1
    MaxReasonBytes = 3
    SuffixBytes = 1
    EntryBytes = 0
    EntryBound = 3
SYMMETRY Symmetry
INVARIANTS
    LoadsAreWhole
    TurnsAreKept
    LogKeepsTheNewest
    QuietLogIsBounded
CHECK_DEADLOCK FALSE
