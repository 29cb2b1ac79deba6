\* Two users, two updates, a login, an edit by hand, two failures, one death.
SPECIFICATION Spec
CONSTANTS
    User = {u1, u2}
    Pw = {p1, p2}
    None = None
    MaxUpdates = 2
    MaxLogins = 1
    MaxEdits = 1
    MaxKills = 1
    MaxFaults = 2
INVARIANTS
    ReportIsHonest
    OldCopyIsKept
    RowsFollowFile
    NamedIsActive
    SessionsAreCurrent
    AdminIsKept
SYMMETRY Symmetry
