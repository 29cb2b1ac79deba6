\* Every interruption. The run of one task ends, hence CHECK_DEADLOCK FALSE.
SPECIFICATION FairSpec
CONSTANTS
    MaxSeeds = 2
    MaxEntries = 2
    MaxCandidates = 3
    Raises = TRUE
    MayCrash = TRUE
INVARIANTS
    RowTellsTheTruth
    CancelStopsWork
    ItemsMatchPolicies
PROPERTIES
    ImplementsLifecycle
    RunSettles
CHECK_DEADLOCK FALSE
