\* The seed of the second scenario is on a subdomain of its domains; no edits.
SPECIFICATION CollectionSpec
CONSTANTS
    Host = {news, people, cpc}
    Parent <- Parents
    Page = {p0, p1, p2, p3}
    None = None
    news = news
    people = people
    cpc = cpc
    p0 = p0
    p1 = p1
    p2 = p2
    p3 = p3
    Scenario <- Packaged
    MaxRules = 4
    Domains <- OperatorDomains
    Entries <- SomeEntries
    Articles <- SomeArticles
    Htmls <- SomeHtmls
    DayOfUrl <- Days
    Readable = {p0, p1}
    Lower = 1
    Upper = 3
    MaxAttempts = 2
    MaxEdits = 0
    MaxCrashes = 0
INVARIANTS
    SubdomainsAreAllowed
CHECK_DEADLOCK FALSE
