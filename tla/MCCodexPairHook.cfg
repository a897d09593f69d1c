SPECIFICATION FairSpec
CONSTANTS
    v1 = v1
    v2 = v2
    v3 = v3
    bug = bug
    Contents <- SmallAndBig
    Big <- OneBig
    Outline <- SameOutline
    Concerns <- OneConcern
    Threshold = 3
    Earlier <- FlaggedOnce
    CacheMax = 1
    EditBound = 2
    Overruns = TRUE
    Mortal <- FirstHook
INVARIANTS
    CacheIsFaithful
    BannerIsEarned
PROPERTIES
    VerdictFollows
    UsesMutex
    CountsReviews
CHECK_DEADLOCK FALSE
