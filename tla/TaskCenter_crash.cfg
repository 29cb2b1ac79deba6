\* No failure but crashes: three tasks of two rules compete for the worker.
SPECIFICATION FairSpec
CONSTANTS
    MaxTask = 3
    Rule = {r1, r2}
    NoRule = NoRule
    Request = {}
    Timer = {s1}
    Main = Main
    Free = Free
    MaxWorkers = 2
    CanRun = TRUE
    Faults = {}
    MaxCrash = 1
INVARIANTS
    RunningIsOwned
    NoLostWakeup
    NoSelfDeadlock
PROPERTIES
    PendingIsSettled
