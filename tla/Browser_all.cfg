\* Two tabs and two users who take turns in one browser.
SPECIFICATION Spec
CONSTANTS
    User = {ann, bob}
    None = None
    MaxTabs = 2
    MaxPages = 1
    MaxSessions = 2
    MaxActs = 4
    MaxFailures = 1
PROPERTIES
    NobodyActsAsAnother
    LeftPagesAreQuiet
    PageSettles
CHECK_DEADLOCK FALSE
