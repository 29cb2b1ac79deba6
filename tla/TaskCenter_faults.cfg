\* Every failure. A thread that waits for the lock it holds stops the worker
\* for good when the process may not crash again, hence CHECK_DEADLOCK FALSE.
SPECIFICATION Spec
CONSTANTS
    MaxTask = 2
    Rule = {r1, r2}
    NoRule = NoRule
    Request = {q1}
    Timer = {s1}
    Main = Main
    Free = Free
    MaxWorkers = 2
    CanRun = TRUE
    Faults = {"claim", "start", "finish"}
    MaxCrash = 1
INVARIANTS
    OneRunningPerRule
    JobOwnsItsTask
PROPERTIES
    ImplementsLifecycle
SYMMETRY Symmetry
CHECK_DEADLOCK FALSE
