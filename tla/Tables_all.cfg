\* Three sources of two ranks, reports by day and by night.
\* Two logins, three accounts, two places for them; three callers, two places.
\* Logins and accounts have the values of addresses and hashes: see Symmetry.
SPECIFICATION OneInUse
CONSTANTS
    Source = {"news.cn", "xinhuanet.com", "people.com.cn"}
    Url = {u1, u2}
    Title = {t1}
    Hash = {h1, h2}
    Slot = {0, 2}
    MaxPolicy = 2
    MaxCrawl = 2
    Login = {u1, u2}
    Account = {h1, h2, a3}
    GuardOf <- TwoLocks
    lock = lock
    a3 = a3
    Attempts = 2
    Window = 2
    MaxActiveKeys = 2
    Caller = {k1, k2, k3}
    Maximum = 2
    Capacity = 2
    Minute = 2
    Nobody = Nobody
    MaxClock = 5
    MaxTicks = 5
    MaxCalls = 3
INVARIANTS
    NothingIsLost
    GuessesAreBounded
    LimitHolds
PROPERTIES
    PoliciesNeverFallBack
    RepeatIsDuplicate
    RoomIsNotWasted
SYMMETRY Symmetry
