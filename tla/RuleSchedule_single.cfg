\* One administrator. Instants and saves run out, hence CHECK_DEADLOCK FALSE.
SPECIFICATION FairSpec
CONSTANTS
    Rule = {r1, r2}
    Admin = {a1}
    MaxCron = 2
    MaxNow = 1
    MaxSave = 3
    MaxCrash = 1
    Nobody = Nobody
INVARIANTS
    ScheduleIsConsistent
    LastRunIsLatestTask
PROPERTIES
    FiringCreatesTask
CHECK_DEADLOCK FALSE
