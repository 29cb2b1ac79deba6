SPECIFICATION Spec
CONSTANTS
    Rule = {r1}
    Admin = {a1, a2}
    MaxCron = 1
    MaxNow = 1
    MaxSave = 3
    MaxCrash = 0
    Nobody = Nobody
INVARIANTS
    EnabledIsActive
CHECK_DEADLOCK FALSE
