SPECIFICATION Spec
CONSTANTS
    Source = {"news.cn", "people.com.cn"}
    Url = {u1}
    Title = {t1, t2}
    Hash = {h1, h2}
    Slot = {0}
    MaxPolicy = 2
    MaxCrawl = 1
INVARIANTS
    OwnRowIsUpdated
