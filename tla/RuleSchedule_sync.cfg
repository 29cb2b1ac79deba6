SPECIFICATION Spec
CONSTANTS
    Rule = {r1}
    Admin = {a1, a2}
    MaxCron = 2
    MaxNow = 1
    MaxSave = 3
    MaxCrash = 0
    Nobody = Nobody
INVARIANTS
    JobsMatchRules
CHECK_DEADLOCK FALSE
