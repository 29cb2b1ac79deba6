\* Nothing fails and nothing dies: is every cancel request seen?
SPECIFICATION Spec
CONSTANTS
    MaxSeeds = 1
    MaxEntries = 1
    MaxCandidates = 2
    Raises = FALSE
    MayCrash = FALSE
INVARIANTS
    CancelSeenAfterItem
CHECK_DEADLOCK FALSE
