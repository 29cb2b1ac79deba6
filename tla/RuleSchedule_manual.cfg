SPECIFICATION Spec
CONSTANTS
    Rule = {r1}
    Admin = {a1}
    MaxCron = 1
    MaxNow = 1
    MaxSave = 2
    MaxCrash = 0
    Nobody = Nobody
INVARIANTS
    ManualHasNoSchedule
CHECK_DEADLOCK FALSE
