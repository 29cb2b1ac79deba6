SPECIFICATION Spec
CONSTANTS
    Source = {"news.cn", "people.com.cn"}
    Url = {u1}
    Title = {t1}
    Hash = {h1}
    Slot = {2}
    MaxPolicy = 2
    MaxCrawl = 1
INVARIANTS
    OnePolicyPerMeeting
