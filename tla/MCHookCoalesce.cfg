SPECIFICATION Spec
CONSTANTS
    v1 = v1
    v2 = v2
    v3 = v3
    bug = bug
    Contents <- Versions
    Big <- BigVersions
    Outline <- SameOutline
    Concerns <- OneConcern
    Threshold = 3
    Earlier <- FlaggedOnce
    CacheMax = 1
    EditBound = 2
    Overruns = FALSE
    Mortal <- Nobody
INVARIANTS
    CoalescedEditIsSeen
CHECK_DEADLOCK FALSE
