\* Two scenarios, three seeds, one ordinary article; two edits and a crash.
SPECIFICATION CollectionSpec
CONSTANTS
    Host = {news, people, cpc}
    Parent <- Parents
    Page = {p0, p1, p2, p3}
    None = None
    news = news
    people = people
    cpc = cpc
    p0 = p0
    p1 = p1
    p2 = p2
    p3 = p3
    Scenario <- Packaged
    MaxRules = 4
    Domains <- OperatorDomains
    Entries <- SomeEntries
    Articles <- SomeArticles
    Htmls <- SomeHtmls
    DayOfUrl <- Days
    Readable = {p0, p1}
    Lower = 1
    Upper = 3
    MaxAttempts = 2
    MaxEdits = 2
    MaxCrashes = 1
INVARIANTS
    SeedsAreJudged
    BodyIsKept
PROPERTIES
    StartCompletes
    RunsEnd
CHECK_DEADLOCK FALSE
