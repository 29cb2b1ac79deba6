\* The runner cannot be built (an invalid WebFetch address): the task stays
\* running.
SPECIFICATION FairSpec
CONSTANTS
    MaxTask = 2
    Rule = {r1, r2}
    NoRule = NoRule
    Request = {q1}
    Timer = {}
    Main = Main
    Free = Free
    MaxWorkers = 2
    CanRun = TRUE
    Faults = {"start"}
    MaxCrash = 0
PROPERTIES
    RunningIsSettled
CHECK_DEADLOCK FALSE
