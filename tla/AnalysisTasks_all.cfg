\* Two tasks over two policies, two failures of four kinds, one rewrite, one crash.
SPECIFICATION Spec
CONSTANTS
    Dropped = {0}
    TopN = 2
    MaxTask = 2
    Policy = {1, 2}
    Text <- SomeTexts
    Selection <- SomeSelections
    Request = {r1, r2}
    Main = Main
    Free = Free
    None = None
    MaxWorkers = 1
    Faults = {"claim", "start", "run", "handler"}
    MaxFaults = 2
    MaxRewrites = 1
    MaxCrashes = 1
PROPERTIES
    ImplementsAnalysis
    PendingIsSettled
CHECK_DEADLOCK FALSE
